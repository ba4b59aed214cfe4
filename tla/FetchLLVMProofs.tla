-------------------------- MODULE FetchLLVMProofs ---------------------------
(***************************************************************************)
(* For every archive and all patches, and however often runs are cut short *)
(* and patches edited: the script says ready only of a tree without hunks  *)
(* of an earlier edition in the files of a patch, of a complete one unless *)
(* a command was torn or a patch edited after it was applied, and it       *)
(* undoes no work.                                                         *)
(***************************************************************************)
EXTENDS FetchLLVM, SequenceTheorems, TLAPS

Piece    == [file : ToSet(Members), hunks : Hunks]
Contents == {"missing", "original"} \cup Hunks
Known    == UNION {Files(patches[k]) : k \in DOMAIN patches}

-----------------------------------------------------------------------------
(* What tar and patch write. *)

LEMMA ToSetOfSubSeq ==
  ASSUME NEW S, NEW s \in Seq(S), NEW n \in 0 .. Len(s)
  PROVE  /\ ToSet(SubSeq(s, 1, n)) \subseteq ToSet(s)
         /\ ToSet(SubSeq(s, 1, Len(s))) = ToSet(s)
<1>1. SubSeq(s, 1, Len(s)) = s
  BY SubSeqFull
<1>2. /\ Len(SubSeq(s, 1, n)) = n
      /\ \A i \in 1 .. n : SubSeq(s, 1, n)[i] = s[i]
      /\ SubSeq(s, 1, n) \in Seq(S)
  <2>1. \A i \in 1 .. n : s[i] \in S
    OBVIOUS
  <2>2. QED
    BY <2>1, SubSeqProperties
<1>3. DOMAIN SubSeq(s, 1, n) = 1 .. n
  BY <1>2
<1>4. DOMAIN s = 1 .. Len(s)
  OBVIOUS
<1>5. ASSUME NEW x \in ToSet(SubSeq(s, 1, n)) PROVE x \in ToSet(s)
  <2>1. PICK i \in 1 .. n : x = SubSeq(s, 1, n)[i]
    BY <1>3, <1>5 DEF ToSet
  <2>2. x = s[i] /\ i \in DOMAIN s
    BY <1>2, <1>4, <2>1
  <2>3. QED
    BY <2>2 DEF ToSet
<1>6. QED
  BY <1>1, <1>5

(* A typed tree stays typed, and tar only ever adds files.                 *)
LEMMA UnpackedFiles ==
  ASSUME tree \in [ToSet(Members) -> Contents], NEW n \in 0 .. Len(Members)
  PROVE  /\ Unpacked(n) \in [ToSet(Members) -> Contents]
         /\ \A f \in ToSet(Members) : Unpacked(n)[f] \in {tree[f], "original"}
         /\ n = Len(Members) => \A f \in ToSet(Members) : Unpacked(n)[f] = "original"
         /\ n = 0 => Unpacked(n) = tree
<1>1. Members \in Seq(ToSet(Members))
  BY MembersAssumption
<1>2. n = Len(Members) => ToSet(SubSeq(Members, 1, n)) = ToSet(Members)
  BY <1>1, ToSetOfSubSeq
<1>3. n = 0 => ToSet(SubSeq(Members, 1, n)) = {}
  BY <1>1 DEF ToSet
<1>4. QED
  BY <1>2, <1>3 DEF Unpacked, Contents

(* patch changes its own files only, each as it says.                      *)
LEMMA PatchedFiles ==
  ASSUME tree \in [ToSet(Members) -> Contents],
         NEW patch \in Seq(Piece), NEW n \in 0 .. Len(patch),
         \A one, other \in ToSet(patch) : one.file = other.file => one = other
  PROVE  /\ Patched(patch, n) \in [ToSet(Members) -> Contents]
         /\ \A f \in ToSet(Members) : Patched(patch, n)[f] \in {tree[f]} \cup Hunks
         /\ \A f \in ToSet(Members) \ Files(patch) : Patched(patch, n)[f] = tree[f]
         /\ n = Len(patch) =>
              \A piece \in ToSet(patch) : Patched(patch, n)[piece.file] = piece.hunks
<1> DEFINE pieces(f) == {piece \in ToSet(SubSeq(patch, 1, n)) : piece.file = f}
           chosen(f) == CHOOSE piece \in pieces(f) : TRUE
<1>1. /\ ToSet(SubSeq(patch, 1, n)) \subseteq ToSet(patch)
      /\ ToSet(SubSeq(patch, 1, Len(patch))) = ToSet(patch)
  BY ToSetOfSubSeq
<1>2. ToSet(patch) \subseteq Piece
  BY DEF ToSet
<1>3. \A f : pieces(f) # {} => chosen(f) \in pieces(f)
  OBVIOUS
<1>4. Patched(patch, n) =
        [f \in ToSet(Members) |-> IF pieces(f) = {} THEN tree[f] ELSE chosen(f).hunks]
  BY DEF Patched
<1>5. \A f : pieces(f) # {} => chosen(f).hunks \in Hunks
  BY <1>1, <1>2, <1>3 DEF Piece
<1>6. \A f \in ToSet(Members) \ Files(patch) : pieces(f) = {}
  BY <1>1 DEF Files
<1>7. ASSUME n = Len(patch), NEW piece \in ToSet(patch)
      PROVE  Patched(patch, n)[piece.file] = piece.hunks
  <2>1. piece \in pieces(piece.file)
    BY <1>1, <1>7
  <2>2. chosen(piece.file) \in ToSet(patch) /\ chosen(piece.file).file = piece.file
    BY <1>1, <1>3, <2>1
  <2>3. chosen(piece.file) = piece
    BY <2>2
  <2>4. piece.file \in ToSet(Members)
    BY <1>2 DEF Piece
  <2>5. QED
    BY <1>4, <2>1, <2>3, <2>4
<1> HIDE DEF pieces, chosen
<1>8. QED
  BY <1>4, <1>5, <1>6, <1>7 DEF Contents

-----------------------------------------------------------------------------
(* The inductive invariant. *)

TypeInv ==
  /\ tree \in [ToSet(Members) -> Contents]
  /\ patches \in Seq(Seq(Piece))
  /\ Len(patches) = Len(Patches)
  /\ \A k \in DOMAIN patches : patches[k] \in AllEditions(k)
  /\ next \in 1 .. Len(Patches) + 1

(* All of the patch's hunks are in the tree.                               *)
Applied(patch) == \A piece \in ToSet(patch) : tree[piece.file] = piece.hunks

(* What a patch left behind that was applied or found applied: unless      *)
(* something was torn or became stale, all of its hunks.                   *)
Passed(patch) == AppliesReverse(patch) /\ (~torn /\ ~stale => Applied(patch))

(* The patches before next have been passed, and in the end all of them.   *)
Progress ==
  /\ pc \in {"download", "extract", "check"} => next = 1
  /\ pc = "patch" => \A k \in 1 .. next - 1 : Passed(patches[k])
  /\ pc = "ready" => \A k \in DOMAIN patches : Passed(patches[k])

(* Files are only there in a directory.                                    *)
NoFilesElsewhere == ~sourceDir => \A f \in ToSet(Members) : tree[f] = "missing"

(* Unless something was torn or became stale, tar and patch have done all  *)
(* of their work or nothing of it.                                         *)
AllOrNothing ==
  ~torn /\ ~stale =>
    /\ archive # "partial"
    /\ pc \in {"check", "patch", "ready"} => sourceDir
    /\ sourceDir =>
         /\ \A k \in DOMAIN patches : AppliesForward(patches[k]) \/ Applied(patches[k])
         /\ \A f \in ToSet(Members) \ Known : tree[f] = "original"

IInv == TypeInv /\ Progress /\ NoFilesElsewhere /\ AllOrNothing

(* What the assumptions say of the patches, whatever edition they are in.  *)
LEMMA PatchesApart ==
  ASSUME TypeInv
  PROVE  /\ DOMAIN patches = 1 .. Len(Patches)
         /\ DOMAIN Patches = 1 .. Len(Patches)
         /\ \A k \in DOMAIN patches :
              /\ patches[k] \in Seq(Piece)
              /\ Files(patches[k]) \subseteq ToSet(Members)
              /\ ToSet(patches[k]) # {}
              /\ \A one, other \in ToSet(patches[k]) : one.file = other.file => one = other
         /\ \A j, k \in DOMAIN patches :
              j # k => Files(patches[j]) \cap Files(patches[k]) = {}
<1>1. /\ DOMAIN patches = 1 .. Len(Patches)
      /\ DOMAIN Patches = 1 .. Len(Patches)
  BY PatchesAssumption DEF TypeInv
<1>2. ASSUME NEW k \in DOMAIN patches
      PROVE  /\ patches[k] \in Seq(Piece)
             /\ Files(patches[k]) \subseteq ToSet(Members)
             /\ ToSet(patches[k]) # {}
             /\ \A one, other \in ToSet(patches[k]) : one.file = other.file => one = other
  <2>1. patches[k] \in Seq(Piece) /\ patches[k] \in AllEditions(k)
    BY <1>1 DEF TypeInv
  <2>2. ToSet(patches[k]) \subseteq Piece
    BY <2>1 DEF ToSet
  <2>3. Files(patches[k]) \subseteq ToSet(Members)
    BY <2>2 DEF Files, Piece
  <2>4. /\ patches[k] # <<>>
        /\ \A one, other \in ToSet(patches[k]) : one.file = other.file => one = other
    BY <1>1, <2>1, PiecesAssumption
  <2>5. 1 \in DOMAIN patches[k]
    BY <2>1, <2>4
  <2>6. ToSet(patches[k]) # {}
    BY <2>5 DEF ToSet
  <2>7. QED
    BY <2>1, <2>3, <2>4, <2>6
<1>3. ASSUME NEW j \in DOMAIN patches, NEW k \in DOMAIN patches, j # k
      PROVE  Files(patches[j]) \cap Files(patches[k]) = {}
  <2>1. patches[j] \in AllEditions(j) /\ patches[k] \in AllEditions(k)
    BY DEF TypeInv
  <2>2. QED
    BY <1>1, <1>3, <2>1, FilesAssumption
<1>4. QED
  BY <1>1, <1>2, <1>3

LEMMA InitEstablishes == Init => IInv
<1> SUFFICES ASSUME Init PROVE IInv
  OBVIOUS
<1>1. tree \in [ToSet(Members) -> Contents]
  BY DEF Init, Contents
<1>2. patches \in Seq(Seq(Piece)) /\ Len(patches) = Len(Patches)
  BY PatchesAssumption DEF Init, Piece
<1>3. \A k \in DOMAIN patches : patches[k] \in AllEditions(k)
  BY DEF Init, AllEditions
<1>4. next \in 1 .. Len(Patches) + 1
  BY PatchesAssumption DEF Init
<1>5. QED
  BY <1>1, <1>2, <1>3, <1>4 DEF Init, IInv, TypeInv, Progress, NoFilesElsewhere, AllOrNothing

(* A step that leaves the tree and the patches alone, and does not end up  *)
(* patching or ready, keeps the invariant.                                 *)
LEMMA TreeUntouched ==
  ASSUME IInv, UNCHANGED <<tree, support, sourceDir>>,
         next' \in 1 .. Len(Patches) + 1,
         pc' \notin {"patch", "ready"}, pc' \in {"download", "extract", "check"} => next' = 1,
         torn => torn', archive' = "partial" => torn' \/ stale,
         pc' = "check" => sourceDir \/ torn' \/ stale
  PROVE  IInv'
<1>1. UNCHANGED <<patches, edits, stale>>
  BY DEF support
<1>2. TypeInv'
  BY <1>1 DEF IInv, TypeInv
<1>3. Known' = Known
  BY <1>1 DEF Known
<1>4. \A k \in DOMAIN patches :
        /\ AppliesForward(patches[k])' = AppliesForward(patches[k])
        /\ AppliesReverse(patches[k])' = AppliesReverse(patches[k])
        /\ Applied(patches[k])' = Applied(patches[k])
  BY <1>1 DEF AppliesForward, AppliesReverse, Applied
<1>5. Progress' /\ NoFilesElsewhere'
  BY DEF IInv, Progress, NoFilesElsewhere
<1>6. AllOrNothing'
  BY <1>1, <1>3, <1>4 DEF IInv, AllOrNothing
<1>7. QED
  BY <1>2, <1>5, <1>6 DEF IInv

(* tar, cut short, leaves the invariant to what was torn.                  *)
LEMMA PrefixKeeps ==
  ASSUME IInv, ~sourceDir, ExtractPrefix, UNCHANGED support, torn' \/ stale
  PROVE  IInv'
<1>1. UNCHANGED <<patches, edits, stale, next>> /\ pc' = "failed"
  BY DEF support, ExtractPrefix, Exit
<1>2. PICK n \in 0 .. Len(Members) - 1 :
        /\ sourceDir' \in IF n = 0 THEN BOOLEAN ELSE {TRUE}
        /\ tree' = Unpacked(n)
  BY DEF ExtractPrefix
<1>3. n \in 0 .. Len(Members)
  BY <1>2, MembersAssumption
<1>4. tree' \in [ToSet(Members) -> Contents] /\ (n = 0 => tree' = tree)
  BY <1>2, <1>3, UnpackedFiles DEF IInv, TypeInv
<1>5. TypeInv'
  BY <1>1, <1>4 DEF IInv, TypeInv
<1>6. NoFilesElsewhere'
  BY <1>2, <1>4 DEF IInv, NoFilesElsewhere
<1>7. Progress' /\ AllOrNothing'
  BY <1>1 DEF Progress, AllOrNothing
<1>8. QED
  BY <1>5, <1>6, <1>7 DEF IInv

LEMMA ExtractKeeps == ASSUME IInv, Extract PROVE IInv'
<1>0. UNCHANGED <<patches, edits, stale, next, torn, archive>> /\ pc' = "check" /\ sourceDir' = TRUE
  BY DEF Extract, support
<1>1. next = 1
  BY DEF Extract, IInv, Progress
<1>2. CASE sourceDir
  <2>1. UNCHANGED <<tree, support, sourceDir>>
    BY <1>0, <1>2 DEF Extract, support
  <2>2. QED
    BY <1>0, <1>1, <1>2, <2>1, TreeUntouched DEF IInv, TypeInv, AllOrNothing
<1>3. CASE ~sourceDir
  <2>1. Len(Members) \in 0 .. Len(Members)
    BY MembersAssumption
  <2>2. /\ tree' \in [ToSet(Members) -> Contents]
        /\ \A f \in ToSet(Members) : tree'[f] = "original"
    BY <1>3, <2>1, UnpackedFiles DEF Extract, IInv, TypeInv
  <2>3. TypeInv'
    BY <1>0, <2>2 DEF IInv, TypeInv
  <2>4. ASSUME NEW k \in DOMAIN patches' PROVE AppliesForward(patches[k])'
    <3>1. Files(patches[k]) \subseteq ToSet(Members)
      BY <1>0, <2>4, PatchesApart DEF IInv
    <3>2. QED
      BY <1>0, <2>2, <3>1 DEF AppliesForward
  <2>5. Progress' /\ NoFilesElsewhere'
    BY <1>0, <1>1 DEF Progress, NoFilesElsewhere
  <2>6. AllOrNothing'
    BY <1>0, <1>3, <2>2, <2>4 DEF IInv, AllOrNothing, Extract
  <2>7. QED
    BY <2>3, <2>5, <2>6 DEF IInv
<1>4. QED
  BY <1>2, <1>3

(* What patch does to the tree, all of it or the first n pieces.           *)
LEMMA PatchedStep ==
  ASSUME IInv, next \in DOMAIN patches, AppliesForward(patches[next]),
         NEW n \in 0 .. Len(patches[next]), tree' = Patched(patches[next], n),
         UNCHANGED patches
  PROVE  /\ tree' \in [ToSet(Members) -> Contents]
         /\ \A k \in DOMAIN patches : k # next =>
              /\ AppliesForward(patches[k])' = AppliesForward(patches[k])
              /\ AppliesReverse(patches[k])' = AppliesReverse(patches[k])
              /\ Applied(patches[k])' = Applied(patches[k])
         /\ n = Len(patches[next]) =>
              \A piece \in ToSet(patches[next]) : tree'[piece.file] = piece.hunks
         /\ \A f \in ToSet(Members) \ Known : tree'[f] = tree[f]
         /\ \A f \in ToSet(Members) :
              tree'[f] # tree[f] => tree[f] = "original" /\ tree'[f] \in Hunks
<1>1. /\ patches[next] \in Seq(Piece)
      /\ Files(patches[next]) \subseteq ToSet(Members)
      /\ \A one, other \in ToSet(patches[next]) : one.file = other.file => one = other
      /\ \A k \in DOMAIN patches :
           k # next => Files(patches[k]) \cap Files(patches[next]) = {}
  BY PatchesApart DEF IInv
<1>2. /\ tree' \in [ToSet(Members) -> Contents]
      /\ \A f \in ToSet(Members) : tree'[f] \in {tree[f]} \cup Hunks
      /\ \A f \in ToSet(Members) \ Files(patches[next]) : tree'[f] = tree[f]
      /\ n = Len(patches[next]) =>
           \A piece \in ToSet(patches[next]) : tree'[piece.file] = piece.hunks
  BY <1>1, PatchedFiles DEF IInv, TypeInv
<1>3. ASSUME NEW k \in DOMAIN patches, k # next
      PROVE  /\ AppliesForward(patches[k])' = AppliesForward(patches[k])
             /\ AppliesReverse(patches[k])' = AppliesReverse(patches[k])
             /\ Applied(patches[k])' = Applied(patches[k])
  <2>1. \A f \in Files(patches[k]) : tree'[f] = tree[f]
    BY <1>1, <1>2, <1>3, PatchesApart DEF IInv
  <2>2. \A piece \in ToSet(patches[k]) : tree'[piece.file] = tree[piece.file]
    BY <2>1 DEF Files
  <2>3. QED
    BY <2>1, <2>2 DEF AppliesForward, AppliesReverse, Applied
<1>5. \A f \in ToSet(Members) \ Known : tree'[f] = tree[f]
  BY <1>2 DEF Known
<1>6. \A f \in ToSet(Members) :
        tree'[f] # tree[f] => tree[f] = "original" /\ tree'[f] \in Hunks
  BY <1>2 DEF AppliesForward
<1>7. QED
  BY <1>2, <1>3, <1>5, <1>6

LEMMA ApplyPatchKeeps == ASSUME IInv, ApplyPatch PROVE IInv'
<1>1. /\ pc = "patch" /\ pc' = "patch" /\ next \in DOMAIN patches /\ next' = next + 1
      /\ UNCHANGED <<archive, sourceDir, patches, edits, stale, torn>>
  BY DEF ApplyPatch, support
<1>2. /\ DOMAIN patches = 1 .. Len(Patches)
      /\ next \in 1 .. Len(Patches) /\ next' \in 1 .. Len(Patches) + 1
  BY <1>1, PatchesApart DEF IInv
<1>2a. PICK m : m = next
  OBVIOUS
<1>3. /\ tree' \in [ToSet(Members) -> Contents]
      /\ \A k \in DOMAIN patches : k # next =>
           /\ AppliesForward(patches[k]) => AppliesForward(patches[k])'
           /\ Applied(patches[k]) => Applied(patches[k])'
           /\ Passed(patches[k]) => Passed(patches[k])'
      /\ Passed(patches[m])'
      /\ Applied(patches[m]) \/ AppliesForward(patches[m]) => Applied(patches[m])'
      /\ \A f \in ToSet(Members) \ Known : tree'[f] = tree[f]
      /\ \A f \in ToSet(Members) : tree[f] = "missing" => tree'[f] = "missing"
  <2>1. CASE AppliesForward(patches[next])
              /\ tree' = Patched(patches[next], Len(patches[next]))
    <3>1. Len(patches[next]) \in 0 .. Len(patches[next])
      BY <1>1, PatchesApart DEF IInv
    <3>2. /\ tree' \in [ToSet(Members) -> Contents]
          /\ \A k \in DOMAIN patches : k # next =>
               /\ AppliesForward(patches[k])' = AppliesForward(patches[k])
               /\ AppliesReverse(patches[k])' = AppliesReverse(patches[k])
               /\ Applied(patches[k])' = Applied(patches[k])
          /\ \A piece \in ToSet(patches[next]) : tree'[piece.file] = piece.hunks
          /\ \A f \in ToSet(Members) \ Known : tree'[f] = tree[f]
          /\ \A f \in ToSet(Members) : tree[f] = "missing" => tree'[f] = "missing"
      BY <1>1, <2>1, <3>1, PatchedStep
    <3>3. Applied(patches[m])' /\ AppliesReverse(patches[m])'
      BY <1>1, <1>2a, <3>2 DEF Applied, AppliesReverse
    <3>4. QED
      BY <1>1, <1>2a, <3>2, <3>3 DEF Passed
  <2>2. CASE /\ ~AppliesForward(patches[next]) /\ AppliesReverse(patches[next])
             /\ UNCHANGED tree
    <3>1. \A k \in DOMAIN patches :
            /\ AppliesForward(patches[k])' = AppliesForward(patches[k])
            /\ AppliesReverse(patches[k])' = AppliesReverse(patches[k])
            /\ Applied(patches[k])' = Applied(patches[k])
      BY <1>1, <2>2 DEF AppliesForward, AppliesReverse, Applied
    <3>2. ~torn /\ ~stale => Applied(patches[next])
      BY <1>1, <2>2 DEF IInv, AllOrNothing
    <3>3. tree' \in [ToSet(Members) -> Contents] /\ UNCHANGED tree
      BY <2>2 DEF IInv, TypeInv
    <3>4. QED
      BY <1>1, <1>2a, <2>2, <3>1, <3>2, <3>3 DEF Passed
  <2>3. QED
    BY <2>1, <2>2 DEF ApplyPatch
<1>4. TypeInv'
  BY <1>1, <1>2, <1>3 DEF IInv, TypeInv
<1>5. ASSUME NEW k \in 1 .. next PROVE Passed(patches[k])'
  <2>1. CASE k = m
    BY <1>3, <2>1
  <2>2. CASE k # m
    <3>1. k \in 1 .. next - 1 /\ k \in DOMAIN patches
      BY <1>2a, <1>2, <2>2
    <3>2. Passed(patches[k])
      BY <1>1, <3>1 DEF IInv, Progress
    <3>3. QED
      BY <1>2a, <1>3, <2>2, <3>1, <3>2
  <2>3. QED
    BY <2>1, <2>2
<1>6. Progress'
  BY <1>1, <1>2, <1>5 DEF Progress
<1>7. NoFilesElsewhere'
  BY <1>1, <1>3 DEF IInv, NoFilesElsewhere
<1>8. AllOrNothing'
  <2>1. Known' = Known
    BY <1>1 DEF Known
  <2>2. ASSUME NEW k \in DOMAIN patches, AppliesForward(patches[k]) \/ Applied(patches[k])
        PROVE  AppliesForward(patches[k])' \/ Applied(patches[k])'
    <3>1. CASE k = m
      BY <1>3, <2>2, <3>1
    <3>2. CASE k # m
      BY <1>2a, <1>3, <2>2, <3>2
    <3>3. QED
      BY <3>1, <3>2
  <2>3. QED
    BY <1>1, <1>3, <2>1, <2>2 DEF IInv, AllOrNothing
<1>9. QED
  BY <1>4, <1>6, <1>7, <1>8 DEF IInv

LEMMA PatchCutShortKeeps == ASSUME IInv, PatchCutShort PROVE IInv'
<1>1. /\ pc' = "failed" /\ torn' /\ next \in DOMAIN patches /\ UNCHANGED next
      /\ UNCHANGED <<archive, sourceDir, patches, edits, stale>>
  BY DEF PatchCutShort, support, Exit
<1>2. PICK n \in 1 .. Len(patches[next]) - 1 : tree' = Patched(patches[next], n)
  BY DEF PatchCutShort
<1>3. n \in 0 .. Len(patches[next])
  BY <1>1, <1>2, PatchesApart DEF IInv
<1>4. /\ tree' \in [ToSet(Members) -> Contents]
      /\ \A f \in ToSet(Members) : tree[f] = "missing" => tree'[f] = "missing"
  BY <1>1, <1>2, <1>3, PatchedStep DEF PatchCutShort
<1>5. TypeInv' /\ NoFilesElsewhere'
  BY <1>1, <1>4 DEF IInv, TypeInv, NoFilesElsewhere
<1>6. Progress' /\ AllOrNothing'
  BY <1>1 DEF Progress, AllOrNothing
<1>7. QED
  BY <1>5, <1>6 DEF IInv

LEMMA ReadyKeeps == ASSUME IInv, Ready PROVE IInv'
<1>1. /\ pc = "patch" /\ pc' = "ready" /\ next = Len(patches) + 1
      /\ UNCHANGED <<archive, sourceDir, tree, patches, edits, stale, next, torn>>
  BY DEF Ready, support
<1>2. \A k \in DOMAIN patches : Passed(patches[k])
  <2>1. Len(Patches) \in Nat
    BY PatchesAssumption
  <2>2. DOMAIN patches = 1 .. next - 1
    BY <1>1, <2>1, PatchesApart DEF IInv, TypeInv
  <2>3. QED
    BY <1>1, <2>2 DEF IInv, Progress
<1>3. \A k \in DOMAIN patches :
        /\ AppliesForward(patches[k])' = AppliesForward(patches[k])
        /\ AppliesReverse(patches[k])' = AppliesReverse(patches[k])
        /\ Applied(patches[k])' = Applied(patches[k])
  BY <1>1 DEF AppliesForward, AppliesReverse, Applied
<1>4. TypeInv' /\ NoFilesElsewhere' /\ Known' = Known
  BY <1>1 DEF IInv, TypeInv, NoFilesElsewhere, Known
<1>5. Progress'
  BY <1>1, <1>2, <1>3 DEF Progress, Passed
<1>6. AllOrNothing'
  BY <1>1, <1>3, <1>4 DEF IInv, AllOrNothing
<1>7. QED
  BY <1>4, <1>5, <1>6 DEF IInv

(* An edited patch whose old edition was not applied has clean files in    *)
(* all its editions: no other patch has touched them.                      *)
LEMMA EditPatchKeeps == ASSUME IInv, EditPatch PROVE IInv'
<1>1. /\ pc' = "idle"
      /\ UNCHANGED <<archive, sourceDir, tree, next, torn>>
  BY DEF EditPatch
<1>2. PICK k \in DOMAIN patches : \E patch \in AllEditions(k) \ {patches[k]} :
        /\ patches' = [patches EXCEPT ![k] = patch]
        /\ stale' = (stale \/ \E piece \in ToSet(patches[k]) : tree[piece.file] = piece.hunks)
  BY DEF EditPatch
<1>3. PICK patch \in AllEditions(k) \ {patches[k]} :
        /\ patches' = [patches EXCEPT ![k] = patch]
        /\ stale' = (stale \/ \E piece \in ToSet(patches[k]) : tree[piece.file] = piece.hunks)
  BY <1>2
<1>4. /\ DOMAIN patches = 1 .. Len(Patches) /\ DOMAIN Patches = 1 .. Len(Patches)
      /\ Patches \in Seq(Seq(Piece))
  BY PatchesApart, PatchesAssumption DEF IInv, Piece
<1>5. patch \in Seq(Piece)
  <2>1. Patches[k] \in Seq(Piece)
    BY <1>4
  <2>2. k \in DOMAIN Patches
    BY <1>4
  <2>3. Editions[k] \subseteq Seq(Piece)
    BY <2>2, PatchesAssumption DEF Piece
  <2>4. QED
    BY <1>3, <2>1, <2>3 DEF AllEditions
<1>6. /\ patches' \in Seq(Seq(Piece)) /\ Len(patches') = Len(Patches)
      /\ DOMAIN patches' = DOMAIN patches
      /\ patches'[k] = patch /\ \A j \in DOMAIN patches : j # k => patches'[j] = patches[j]
  <2>1. patches \in Seq(Seq(Piece)) /\ Len(patches) = Len(Patches) /\ k \in 1 .. Len(patches)
    BY <1>4 DEF IInv, TypeInv
  <2>2. /\ patches' \in Seq(Seq(Piece)) /\ Len(patches') = Len(patches)
        /\ \A j \in 1 .. Len(patches) : patches'[j] = IF j = k THEN patch ELSE patches[j]
    BY <1>3, <1>5, <2>1, ExceptSeq
  <2>3. DOMAIN patches' = 1 .. Len(patches)
    BY <2>1, <2>2
  <2>4. QED
    BY <1>4, <2>1, <2>2, <2>3
<1>7. \A j \in DOMAIN patches' : patches'[j] \in AllEditions(j)
  BY <1>3, <1>6 DEF IInv, TypeInv
<1>8. TypeInv'
  BY <1>1, <1>6, <1>7 DEF IInv, TypeInv, AllEditions
<1>9. Progress' /\ NoFilesElsewhere'
  BY <1>1 DEF IInv, Progress, NoFilesElsewhere
<1>10. ASSUME ~torn', ~stale', sourceDir'
      PROVE  /\ \A j \in DOMAIN patches' : AppliesForward(patches[j])' \/ Applied(patches[j])'
             /\ \A f \in ToSet(Members) \ Known' : tree'[f] = "original"
  <2>1. /\ \A j \in DOMAIN patches : AppliesForward(patches[j]) \/ Applied(patches[j])
        /\ \A f \in ToSet(Members) \ Known : tree[f] = "original"
    BY <1>1, <1>3, <1>10 DEF IInv, AllOrNothing
  <2>2. AppliesForward(patches[k])
    <3>1. ToSet(patches[k]) # {}
      BY PatchesApart DEF IInv
    <3>2. ~\E piece \in ToSet(patches[k]) : tree[piece.file] = piece.hunks
      BY <1>3, <1>10
    <3>3. ~Applied(patches[k])
      BY <3>1, <3>2, Zenon DEF Applied
    <3>4. QED
      BY <2>1, <3>3
  <2>3. ASSUME NEW f \in Files(patch) PROVE tree[f] = "original"
    <3>1. f \in ToSet(Members) /\ \A j \in DOMAIN patches : j # k => f \notin Files(patches[j])
      <4>1. \A j \in DOMAIN patches' : j # k => Files(patches'[j]) \cap Files(patches'[k]) = {}
        BY <1>6, <1>7, <1>4, FilesAssumption
      <4>2. ToSet(patch) \subseteq Piece
        BY <1>5 DEF ToSet
      <4>3. f \in ToSet(Members)
        BY <4>2 DEF Files, Piece
      <4>4. QED
        BY <1>6, <4>1, <4>3
    <3>2. CASE f \in Files(patches[k])
      BY <2>2, <3>2 DEF AppliesForward
    <3>3. CASE f \notin Files(patches[k])
      BY <2>1, <3>1, <3>3 DEF Known
    <3>4. QED
      BY <3>2, <3>3
  <2>4. \A j \in DOMAIN patches' : AppliesForward(patches[j])' \/ Applied(patches[j])'
    BY <1>1, <1>6, <2>1, <2>3 DEF AppliesForward, AppliesReverse, Applied
  <2>5. ASSUME NEW f \in ToSet(Members) \ Known' PROVE tree[f] = "original"
    <3>1. CASE f \in Files(patches[k])
      BY <2>2, <3>1 DEF AppliesForward
    <3>2. CASE f \notin Files(patches[k])
      BY <1>6, <2>1, <2>5, <3>2 DEF Known
    <3>3. QED
      BY <3>1, <3>2
  <2>6. QED
    BY <1>1, <2>4, <2>5
<1>11. AllOrNothing'
  BY <1>1, <1>3, <1>10 DEF IInv, AllOrNothing
<1>13. QED
  BY <1>8, <1>9, <1>11 DEF IInv

LEMMA InvariantKept == ASSUME IInv, [Next]_vars PROVE IInv'
<1>0. /\ next \in 1 .. Len(Patches) + 1 /\ 1 \in 1 .. Len(Patches) + 1
      /\ archive = "partial" => torn \/ stale
  BY PatchesAssumption DEF IInv, TypeInv, AllOrNothing
<1>1. CASE UNCHANGED vars
  <2>1. UNCHANGED <<patches, tree>>
    BY <1>1 DEF vars
  <2>2. \A k \in DOMAIN patches :
          /\ AppliesForward(patches[k])' = AppliesForward(patches[k])
          /\ AppliesReverse(patches[k])' = AppliesReverse(patches[k])
          /\ Applied(patches[k])' = Applied(patches[k])
    BY <2>1 DEF AppliesForward, AppliesReverse, Applied
  <2>3. TypeInv' /\ NoFilesElsewhere' /\ Known' = Known
    BY <1>1 DEF vars, IInv, TypeInv, NoFilesElsewhere, Known
  <2>4. Progress'
    <3>1. \A k \in 1 .. next - 1 : pc = "patch" => k \in DOMAIN patches
      BY <1>0, PatchesApart, PatchesAssumption DEF IInv
    <3>2. QED
      BY <1>1, <2>2, <3>1 DEF vars, IInv, Progress, Passed
  <2>5. AllOrNothing'
    BY <1>1, <2>2, <2>3 DEF vars, IInv, AllOrNothing
  <2>6. QED
    BY <2>3, <2>4, <2>5 DEF IInv
<1>2. CASE Run
  BY <1>0, <1>2, TreeUntouched DEF Run
<1>3. CASE Download
  BY <1>0, <1>3, TreeUntouched DEF Download, IInv, Progress
<1>4. CASE DownloadFails
  BY <1>0, <1>4, TreeUntouched DEF DownloadFails, Exit
<1>5. CASE Extract
  BY <1>5, ExtractKeeps
<1>6. CASE ExtractPartial
  BY <1>0, <1>6, PrefixKeeps DEF ExtractPartial
<1>7. CASE ExtractCutShort
  BY <1>7, PrefixKeeps DEF ExtractCutShort
<1>8. CASE CheckSentinels
  <2>1. CASE \A f \in Sentinels : tree[f] # "missing"
    <3>1. /\ pc = "check" /\ pc' = "patch" /\ next = 1 /\ next' = 1
          /\ UNCHANGED <<archive, sourceDir, tree, patches, stale, torn>>
      BY <1>8, <2>1 DEF CheckSentinels, support, IInv, Progress
    <3>2. \A k \in DOMAIN patches :
            /\ AppliesForward(patches[k])' = AppliesForward(patches[k])
            /\ AppliesReverse(patches[k])' = AppliesReverse(patches[k])
            /\ Applied(patches[k])' = Applied(patches[k])
      BY <3>1 DEF AppliesForward, AppliesReverse, Applied
    <3>3. TypeInv' /\ NoFilesElsewhere' /\ Known' = Known
      BY <3>1 DEF IInv, TypeInv, NoFilesElsewhere, Known
    <3>4. Progress'
      BY <3>1 DEF Progress
    <3>5. AllOrNothing'
      BY <3>1, <3>2, <3>3 DEF IInv, AllOrNothing
    <3>6. QED
      BY <3>3, <3>4, <3>5 DEF IInv
  <2>2. CASE ~\A f \in Sentinels : tree[f] # "missing"
    BY <1>0, <1>8, <2>2, TreeUntouched DEF CheckSentinels, Exit
  <2>3. QED
    BY <2>1, <2>2
<1>9. CASE ApplyPatch
  BY <1>9, ApplyPatchKeeps
<1>10. CASE PatchRefused
  BY <1>0, <1>10, TreeUntouched DEF PatchRefused, Exit
<1>11. CASE PatchCutShort
  BY <1>11, PatchCutShortKeeps
<1>12. CASE Ready
  BY <1>12, ReadyKeeps
<1>13. CASE Interrupt
  BY <1>0, <1>13, TreeUntouched DEF Interrupt, Exit
<1>14. CASE EditPatch
  BY <1>14, EditPatchKeeps
<1>15. QED
  BY <1>1, <1>2, <1>3, <1>4, <1>5, <1>6, <1>7, <1>8, <1>9, <1>10, <1>11, <1>12, <1>13, <1>14
     DEF Next, Step

LEMMA Invariance == Spec => []IInv
<1>1. Init => IInv
  BY InitEstablishes
<1>2. IInv /\ [Next]_vars => IInv'
  BY InvariantKept
<1>3. QED
  BY <1>1, <1>2, PTL DEF Spec

-----------------------------------------------------------------------------
(* The theorems. *)

(* Whatever was torn or edited, "LLVM source ready" (fetch_llvm.sh:44) is  *)
(* only said of a tree in which every file of every patch, as the patches  *)
(* are now, is there, and patched by it or not at all.                     *)
THEOREM ReadyIsNotOutdated == Spec => []ReadyHasNoOldHunks
<1>1. IInv => ReadyHasNoOldHunks
  BY DEF IInv, Progress, Passed, ReadyHasNoOldHunks, AppliesReverse
<1>2. QED
  BY <1>1, Invariance, PTL

(* Stopped between two commands only, and its applied patches left alone,  *)
(* the script says ready of the whole archive with its patches and nothing *)
(* else.                                                                   *)
THEOREM ReadyMeansComplete == Spec => []ReadyUnlessTorn
<1>1. IInv => ReadyUnlessTorn
  BY DEF IInv, Progress, AllOrNothing, ReadyUnlessTorn, Complete, AllApplied, Applied, Known, Passed
<1>2. QED
  BY <1>1, Invariance, PTL

(* No run, edit or interruption loses a file or changes a patched one.     *)
THEOREM NoWorkIsLost == Spec => WorkIsKept
<1> DEFINE Kept == \A f \in ToSet(Members) :
                     tree[f] # "missing" =>
                       IF tree[f] = "original" THEN tree'[f] # "missing" ELSE tree'[f] = tree[f]
<1>1. ASSUME IInv, [Next]_vars PROVE Kept
  <2>1. CASE UNCHANGED tree
    BY <2>1
  <2>2. CASE Extract
    BY <1>1, <2>1, <2>2 DEF Extract, IInv, NoFilesElsewhere
  <2>3. CASE ExtractPartial \/ ExtractCutShort
    BY <1>1, <2>3 DEF ExtractPartial, ExtractCutShort, IInv, NoFilesElsewhere
  <2>4. CASE ApplyPatch \/ PatchCutShort
    <3>1. CASE UNCHANGED tree
      BY <3>1
    <3>2. CASE AppliesForward(patches[next]) /\ next \in DOMAIN patches /\ UNCHANGED patches
                 /\ \E n \in 0 .. Len(patches[next]) : tree' = Patched(patches[next], n)
      <4>1. \A f \in ToSet(Members) :
              tree'[f] # tree[f] => tree[f] = "original" /\ tree'[f] \in Hunks
        BY <1>1, <3>2, PatchedStep
      <4>2. QED
        BY <4>1, HunksAssumption
    <3>3. QED
      <4>1. next \in DOMAIN patches /\ UNCHANGED patches
        BY <2>4 DEF ApplyPatch, PatchCutShort, support
      <4>2. Len(patches[next]) \in Nat
        BY <1>1, <4>1, PatchesApart DEF IInv
      <4>3. QED
        BY <2>4, <3>1, <3>2, <4>1, <4>2 DEF ApplyPatch, PatchCutShort
  <2>5. QED
    BY <1>1, <2>1, <2>2, <2>3, <2>4
       DEF Next, Step, vars, Run, Download, DownloadFails, CheckSentinels, PatchRefused, Ready,
           Interrupt, EditPatch
<1>2. IInv /\ [Next]_vars => Kept
  BY <1>1
<1>3. QED
  BY <1>2, Invariance, PTL DEF Spec, WorkIsKept
=============================================================================
