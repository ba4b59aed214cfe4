--------------------------- MODULE MCPPBranchRuns ---------------------------
(* Instance of PPBranchRuns for TLC: every file of up to four levels, each *)
(* with up to five branches, and some around the limit of 16 itself.       *)
EXTENDS PPBranchRuns, SequencesExt

MCFiles ==
  BoundedSeq(0 .. 5, 4)
    \cup {<<n>> : n \in 6 .. 18} \cup {<<n, 2>> : n \in 6 .. 9}
    \cup {<<2, 2, 2, 2, 1, 0>>, <<2, 2, 2, 2, 2>>, <<1, 16, 0, 1>>}
=============================================================================
