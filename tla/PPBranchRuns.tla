---------------------------- MODULE PPBranchRuns ----------------------------
(***************************************************************************)
(* support/patches/dprint-wasm-limit-format-pp-branches.patch: the loop of *)
(* UnwrappedLineParser::parse that formats a file once for every way of    *)
(* choosing a branch at each nesting level of its #if directives, and the  *)
(* limit that the patch puts on it.                                        *)
(*                                                                         *)
(* The parse in the body of the loop is not in the repository.  As the     *)
(* loop uses it, it extends the two vectors to the depth of the file: an   *)
(* index of 0 for a level it meets anew, and for every level the number of *)
(* branches of its longest chain, 0 for a chain that is #if 0 alone.       *)
(***************************************************************************)
EXTENDS Integers, Sequences, FiniteSets, FiniteSetsExt

CONSTANTS
  Files,          (* files, each the branch count of every nesting level     *)
  MaxPPBranchRuns

ASSUME FilesAssumption == \A counts \in Files : counts \in Seq(Nat)
ASSUME LimitAssumption == MaxPPBranchRuns \in Nat \ {0}

VARIABLES
  file,               (* what the parse finds                              *)
  PPLevelBranchIndex,
  PPLevelBranchCount,
  ran,                (* the choices of branches that were formatted       *)
  runs,               (* how often the file was, up to MaxPPBranchRuns + 1 *)
  pc                  (* "parse", "advance" or "done"                      *)

vars == <<file, PPLevelBranchIndex, PPLevelBranchCount, ran, runs, pc>>

(* The bound of the count of runs: one more than the code should make.     *)
RunsCounted == MaxPPBranchRuns + 1

Init ==
  /\ file \in Files
  /\ PPLevelBranchIndex = <<>>
  /\ PPLevelBranchCount = <<>>
  /\ ran = {}
  /\ runs = 0
  /\ pc = "parse"

(* Parse, annotate and format once, with the branches PPLevelBranchIndex   *)
(* chooses.                                                                *)
Parse ==
  /\ pc = "parse"
  /\ PPLevelBranchIndex' =
       [level \in DOMAIN file |->
          IF level \in DOMAIN PPLevelBranchIndex THEN PPLevelBranchIndex[level]
          ELSE 0]
  /\ PPLevelBranchCount' = file
  /\ ran' = ran \cup {PPLevelBranchIndex'}
  /\ runs' = Min({runs + 1, RunsCounted})
  /\ pc' = "advance"
  /\ UNCHANGED file

-----------------------------------------------------------------------------
(* Faulty variants: a product that only reaches the limit is too much; and *)
(* each product is looked at before the next count, so the last never is.  *)
TooManyAtLimit(counts) ==
  LET product[level \in 0 .. Len(counts)] ==
        IF level = 0 THEN 1
        ELSE IF counts[level] = 0 THEN product[level - 1]
        ELSE IF product[level - 1] >= MaxPPBranchRuns \div counts[level]
          THEN MaxPPBranchRuns + 1
        ELSE product[level - 1] * counts[level]
  IN product[Len(counts)] > MaxPPBranchRuns

TooManyBeforeLast(counts) ==
  LET product[level \in 0 .. Len(counts)] ==
        IF level = 0 THEN 1
        ELSE IF counts[level] = 0 THEN product[level - 1]
        ELSE IF product[level - 1] > MaxPPBranchRuns THEN MaxPPBranchRuns + 1
        ELSE product[level - 1] * counts[level]
  IN Len(counts) > 0 /\ product[Len(counts) - 1] > MaxPPBranchRuns

(* TooManyPPBranchRuns: the product of the counts, 0 left out, computed    *)
(* level by level; the break is a value over the limit, which stays.       *)
TooManyRuns(counts) ==
  LET product[level \in 0 .. Len(counts)] ==
        IF level = 0 THEN 1
        ELSE IF counts[level] = 0 THEN product[level - 1]
        ELSE IF product[level - 1] > MaxPPBranchRuns \div counts[level]
          THEN MaxPPBranchRuns + 1
        ELSE product[level - 1] * counts[level]
  IN product[Len(counts)] > MaxPPBranchRuns

(* The deepest level that has a branch left, 0 if none has.                *)
DeepestOpen(index, counts) ==
  Max({0} \cup {level \in DOMAIN index : index[level] + 1 < counts[level]})

(* Faulty variant: starts over instead of clearing the levels.             *)
GiveUpKeepingLevels ==
  /\ TooManyRuns(PPLevelBranchCount)
  /\ PPLevelBranchIndex' = [level \in DOMAIN PPLevelBranchIndex |-> 0]
  /\ PPLevelBranchCount' = PPLevelBranchCount

(* The limit is exceeded: no further run. *)
GiveUp ==
  /\ TooManyRuns(PPLevelBranchCount)
  /\ PPLevelBranchIndex' = <<>>
  /\ PPLevelBranchCount' = <<>>

(* Pop the levels that are spent, and take the next branch of the level    *)
(* that is then the last.                                                  *)
NextBranches ==
  LET open == DeepestOpen(PPLevelBranchIndex, PPLevelBranchCount)
  IN /\ ~TooManyRuns(PPLevelBranchCount)
     /\ PPLevelBranchIndex' =
          [level \in 1 .. open |-> IF level = open
                                   THEN PPLevelBranchIndex[level] + 1
                                   ELSE PPLevelBranchIndex[level]]
     /\ PPLevelBranchCount' = SubSeq(PPLevelBranchCount, 1, open)

(* The rest of the body of the do-while, and its condition. *)
Advance ==
  /\ pc = "advance"
  /\ GiveUp \/ NextBranches
  /\ pc' = IF PPLevelBranchIndex' = <<>> THEN "done" ELSE "parse"
  /\ UNCHANGED <<file, ran, runs>>

Next == Parse \/ Advance

(* The loop is straight-line code, and a parse of a finite file returns.   *)
Spec == Init /\ [][Next]_vars /\ WF_vars(Next)

-----------------------------------------------------------------------------
(* Properties. *)

(* The branches a run can choose: at each level one of its branches, and   *)
(* index 0 at a level that has none.                                       *)
BranchChoices(counts) ==
  {choice \in [DOMAIN counts -> 0 .. Max({0} \cup {counts[l] - 1 : l \in DOMAIN counts})] :
     \A level \in DOMAIN counts : choice[level] < Max({1, counts[level]})}

(* "Avoid exhausting fixed wasm memory on deeply nested preprocessor       *)
(* trees": whatever the nesting, the file is formatted MaxPPBranchRuns     *)
(* times at most.                                                          *)
RunsBounded == runs <= MaxPPBranchRuns

(* The limit takes nothing from a file that respects it: every combination *)
(* of branches is formatted, once.  One that does not is formatted with    *)
(* the first branches only, rather than with some of the combinations.     *)
AllOrFirst ==
  pc = "done" =>
    IF Cardinality(BranchChoices(file)) <= MaxPPBranchRuns
    THEN /\ ran = BranchChoices(file)
         /\ runs = Cardinality(BranchChoices(file))
    ELSE ran = {[level \in DOMAIN file |-> 0]} /\ runs = 1

(* The loop ends, however the branches nest.                               *)
Terminates == <>(pc = "done")
=============================================================================
