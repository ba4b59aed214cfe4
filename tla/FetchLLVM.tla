------------------------------ MODULE FetchLLVM -----------------------------
(***************************************************************************)
(* scripts/fetch_llvm.sh: downloads and unpacks the LLVM sources and       *)
(* applies support/patches to them.  mise runs it before other tasks, a    *)
(* CI job may find third_party/ in a cache: it is run again and again over *)
(* whatever the last run left, be it ready, failed or interrupted.         *)
(*                                                                         *)
(* curl, tar and patch are external.  Each of them may be cut short; what  *)
(* it then leaves is a prefix of what it writes.  A file that is cut short *)
(* while it is written counts as missing.  A patch may also be edited      *)
(* between two runs, on which mise runs the script again; what two         *)
(* editions of a patch do to the same file excludes each other.            *)
(***************************************************************************)
EXTENDS Integers, Sequences, SequencesExt

CONSTANTS
  Members,     (* the files of the archive, in its order                    *)
  Sentinels,   (* those the script tests for                                *)
  Hunks,       (* what a patch can do to a file                             *)
  Patches,     (* the patches in glob order, each the hunks for its files:  *)
               (* a sequence of records of a file and its hunks             *)
  Editions,    (* for every patch, what else it may be edited into          *)
  MaxFailures, (* bound: how often a run is cut short                       *)
  MaxEdits     (* bound: how often a patch is edited                        *)

Files(patch) == {piece.file : piece \in ToSet(patch)}
AllEditions(k) == {Patches[k]} \cup Editions[k]

ASSUME MembersAssumption ==
  Members \in Seq(ToSet(Members)) /\ Sentinels \subseteq ToSet(Members)
ASSUME HunksAssumption == {"missing", "original"} \cap Hunks = {}
ASSUME PatchesAssumption ==
  /\ Patches \in Seq(Seq([file : ToSet(Members), hunks : Hunks]))
  /\ \A k \in DOMAIN Patches :
       Editions[k] \subseteq Seq([file : ToSet(Members), hunks : Hunks])
(* A patch changes something, and a file once.                             *)
ASSUME PiecesAssumption ==
  \A k \in DOMAIN Patches : \A patch \in AllEditions(k) :
    /\ patch # <<>>
    /\ \A one, other \in ToSet(patch) : one.file = other.file => one = other
(* No two patches change the same file.                                    *)
ASSUME FilesAssumption ==
  \A j, k \in DOMAIN Patches : j # k =>
    \A one \in AllEditions(j), other \in AllEditions(k) :
      Files(one) \cap Files(other) = {}
ASSUME BoundsAssumption == MaxFailures \in Nat /\ MaxEdits \in Nat

VARIABLES
  archive,    (* archive_path: "none", "partial" or "whole"                 *)
  sourceDir,  (* whether source_dir exists                                  *)
  tree,       (* what is in it: each file "missing", "original" or changed  *)
              (* by the hunks of a patch                                    *)
  patches,    (* support/patches                                            *)
  pc,         (* the step the script is at, or how it ended                 *)
  next,       (* the patch that apply_patch is called with                  *)
  failures,   (* how often a run was cut short                              *)
  torn,       (* whether that was ever in the middle of a command           *)
  edits,      (* how often a patch was edited                               *)
  stale       (* whether one ever was that the tree had hunks of            *)

vars == <<archive, sourceDir, tree, patches, pc, next, failures, torn, edits, stale>>
support == <<patches, edits, stale>>

Ended == {"idle", "ready", "failed"}

Init ==
  /\ archive = "none"
  /\ sourceDir = FALSE
  /\ tree = [f \in ToSet(Members) |-> "missing"]
  /\ patches = Patches
  /\ pc = "idle"
  /\ next = 1
  /\ failures = 0
  /\ torn = FALSE
  /\ edits = 0
  /\ stale = FALSE

(* set -e: the script stops at the command that failed. *)
Exit == pc' = "failed" /\ UNCHANGED next

CutShort == failures < MaxFailures /\ failures' = failures + 1

(* The tree with the first n files of the archive, and with the hunks for  *)
(* the first n files of a patch.                                           *)
Unpacked(n) ==
  [f \in ToSet(Members) |-> IF f \in ToSet(SubSeq(Members, 1, n)) THEN "original" ELSE tree[f]]

Patched(patch, n) ==
  [f \in ToSet(Members) |->
     LET pieces == {piece \in ToSet(SubSeq(patch, 1, n)) : piece.file = f}
     IN IF pieces = {} THEN tree[f] ELSE (CHOOSE piece \in pieces : TRUE).hunks]

-----------------------------------------------------------------------------
Run ==
  /\ pc \in Ended
  /\ pc' = "download"
  /\ next' = 1
  /\ UNCHANGED <<archive, sourceDir, tree, failures, torn, support>>

(* Whatever lies at archive_path is taken for the archive. *)
Download ==
  /\ pc = "download"
  /\ archive' = IF archive = "none" THEN "whole" ELSE archive
  /\ pc' = "extract"
  /\ UNCHANGED <<sourceDir, tree, next, failures, torn, support>>

(* Faulty variant: without --fail, curl saves the server's error page.     *)
DownloadErrorPage ==
  /\ pc = "download" /\ archive = "none"
  /\ CutShort
  /\ archive' = "partial"
  /\ pc' = "extract"
  /\ UNCHANGED <<sourceDir, tree, next, torn, support>>

DownloadFails ==
  /\ pc = "download" /\ archive = "none"
  /\ CutShort
  /\ archive' \in {"none", "partial"}
  /\ torn' = (torn \/ archive' = "partial")
  /\ Exit
  /\ UNCHANGED <<sourceDir, tree, support>>

(* Faulty variant: unpacks over a directory that is there.                 *)
ExtractAlways ==
  /\ pc = "extract" /\ archive = "whole"
  /\ sourceDir' = TRUE
  /\ tree' = Unpacked(Len(Members))
  /\ pc' = "check"
  /\ UNCHANGED <<archive, next, failures, torn, support>>

Extract ==
  /\ pc = "extract"
  /\ sourceDir \/ archive = "whole"
  /\ sourceDir' = TRUE
  /\ tree' = IF sourceDir THEN tree ELSE Unpacked(Len(Members))
  /\ pc' = "check"
  /\ UNCHANGED <<archive, next, failures, torn, support>>

(* tar stops before the last file, and before the directory or after it. *)
ExtractPrefix ==
  \E n \in 0 .. Len(Members) - 1 :
    /\ sourceDir' \in IF n = 0 THEN BOOLEAN ELSE {TRUE}
    /\ tree' = Unpacked(n)
    /\ Exit

(* The end of the archive is missing, which tar reports when it gets there. *)
ExtractPartial ==
  /\ pc = "extract" /\ ~sourceDir /\ archive = "partial"
  /\ ExtractPrefix
  /\ UNCHANGED <<archive, failures, torn, support>>

ExtractCutShort ==
  /\ pc = "extract" /\ ~sourceDir
  /\ CutShort
  /\ torn' = TRUE
  /\ ExtractPrefix
  /\ UNCHANGED <<archive, support>>

CheckSentinels ==
  /\ pc = "check"
  /\ IF \A f \in Sentinels : tree[f] # "missing"
     THEN pc' = "patch" /\ UNCHANGED next
     ELSE Exit
  /\ UNCHANGED <<archive, sourceDir, tree, failures, torn, support>>

(* The forward dry run: every file of the patch is as the archive has it.  *)
AppliesForward(patch) == \A f \in Files(patch) : tree[f] = "original"

(* Faulty variants: the first file speaks for the others; no reverse dry   *)
(* run at all.                                                             *)
AppliesReverseSomewhere(patch) == \E piece \in ToSet(patch) : tree[piece.file] = piece.hunks
AppliesReverseNever(patch) == FALSE

(* The reverse dry run.  With --batch and without --forward, patch ignores *)
(* -R for a file that it finds not patched ("Unreversed patch detected!"), *)
(* and succeeds: each file may be patched or not.                          *)
AppliesReverse(patch) ==
  \A piece \in ToSet(patch) : tree[piece.file] \in {piece.hunks, "original"}

ApplyPatch ==
  /\ pc = "patch" /\ next \in DOMAIN patches
  /\ \/ AppliesForward(patches[next]) /\ tree' = Patched(patches[next], Len(patches[next]))
     \/ ~AppliesForward(patches[next]) /\ AppliesReverse(patches[next]) /\ UNCHANGED tree
  /\ next' = next + 1
  /\ UNCHANGED <<archive, sourceDir, pc, failures, torn, support>>

PatchRefused ==
  /\ pc = "patch" /\ next \in DOMAIN patches
  /\ ~AppliesForward(patches[next]) /\ ~AppliesReverse(patches[next])
  /\ Exit
  /\ UNCHANGED <<archive, sourceDir, tree, failures, torn, support>>

(* patch is stopped after some of the files. *)
PatchCutShort ==
  /\ pc = "patch" /\ next \in DOMAIN patches
  /\ AppliesForward(patches[next])
  /\ CutShort
  /\ torn' = TRUE
  /\ \E n \in 1 .. Len(patches[next]) - 1 : tree' = Patched(patches[next], n)
  /\ Exit
  /\ UNCHANGED <<archive, sourceDir, support>>

(* "LLVM source ready" *)
Ready ==
  /\ pc = "patch" /\ next = Len(patches) + 1
  /\ pc' = "ready"
  /\ UNCHANGED <<archive, sourceDir, tree, next, failures, torn, support>>

(* The script is stopped between two commands. *)
Interrupt ==
  /\ pc \notin Ended
  /\ CutShort
  /\ Exit
  /\ UNCHANGED <<archive, sourceDir, tree, torn, support>>

(* Somebody edits a patch, and mise finds support/patches newer than its   *)
(* output.                                                                 *)
EditPatch ==
  /\ pc \in Ended
  /\ edits < MaxEdits
  /\ \E k \in DOMAIN patches : \E patch \in AllEditions(k) \ {patches[k]} :
       /\ patches' = [patches EXCEPT ![k] = patch]
       /\ stale' = (stale \/ \E piece \in ToSet(patches[k]) : tree[piece.file] = piece.hunks)
  /\ edits' = edits + 1
  /\ pc' = "idle"
  /\ UNCHANGED <<archive, sourceDir, tree, next, failures, torn>>

Step ==
  \/ Download \/ Extract \/ ExtractPartial \/ CheckSentinels
  \/ ApplyPatch \/ PatchRefused \/ Ready

Next ==
  \/ Run \/ Step
  \/ DownloadFails \/ ExtractCutShort \/ PatchCutShort \/ Interrupt
  \/ EditPatch

(* A command that runs ends, and mise runs the script again before the     *)
(* next task (mise.toml: deps.llvm, auto).  Nothing has to fail.           *)
Spec == Init /\ [][Next]_vars /\ WF_vars(Run) /\ WF_vars(Step)

-----------------------------------------------------------------------------
(* Properties. *)

AllApplied ==
  \A k \in DOMAIN patches : \A piece \in ToSet(patches[k]) : tree[piece.file] = piece.hunks

Complete ==
  /\ AllApplied
  /\ \A f \in ToSet(Members) \ UNION {Files(patches[k]) : k \in DOMAIN patches} :
       tree[f] = "original"

(* "LLVM source ready" (fetch_llvm.sh:44): the files of the archive are    *)
(* all there, with every patch applied.                                    *)
ReadyIsComplete == pc = "ready" => Complete

(* The same, as long as no run was cut short in the middle of a command    *)
(* and no patch was edited after it was applied: between two commands the  *)
(* script may be stopped anywhere, and a patch edited before its turn.     *)
ReadyUnlessTorn == pc = "ready" /\ ~torn /\ ~stale => Complete

(* "already applied" (fetch_llvm.sh:33), "LLVM source ready" (:44): every  *)
(* patch, as it is now, has been applied to all of its files.              *)
ReadyIsPatched == pc = "ready" => AllApplied

(* However the runs before were cut short, and whatever was edited since,  *)
(* the script never says ready of a tree in which a file of a patch is     *)
(* missing or has other hunks than the patch, as it is now, gives it: at   *)
(* worst it is not patched yet.                                            *)
ReadyHasNoOldHunks ==
  pc = "ready" =>
    \A k \in DOMAIN patches : \A piece \in ToSet(patches[k]) :
      tree[piece.file] \in {piece.hunks, "original"}

(* A run over the tree of an earlier one undoes none of its work: no file  *)
(* that is there is lost, and none that is patched is changed again.       *)
WorkIsKept ==
  [][\A f \in ToSet(Members) :
       tree[f] # "missing" =>
         IF tree[f] = "original" THEN tree'[f] # "missing" ELSE tree'[f] = tree[f]]_vars

(* Whatever was cut short between two commands, running the script again   *)
(* ends with the sources ready; it can get stuck only over a torn command  *)
(* or a patch that was edited after it was applied.                        *)
RerunSucceeds == []<>(pc = "ready" \/ torn \/ stale)
=============================================================================
