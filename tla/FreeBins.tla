------------------------------ MODULE FreeBins ------------------------------
(***************************************************************************)
(* What dlmalloc's bins promise, small and large alike: the free chunks of *)
(* each size, in the order they were put there.  A size without chunks is  *)
(* in no domain, as its bit is in no map.                                  *)
(***************************************************************************)
EXTENDS BinOps

CONSTANTS
  Chunks, (* addresses of chunks          *)
  Sizes   (* chunk sizes                  *)

-----------------------------------------------------------------------------

VARIABLE bins

vars == <<bins>>

Init == bins = NoBins

(* A chunk that is in no bin becomes the youngest of its size. *)
Insert(p, s) ==
  /\ ~InBins(bins, p)
  /\ bins' = Put(bins, p, s)

(* Any chunk can leave, wherever it stands. *)
Unlink(p, s) ==
  /\ s \in DOMAIN bins
  /\ Contains(bins[s], p)
  /\ bins' = Take(bins, p, s)

Next ==
  \E p \in Chunks, s \in Sizes : Insert(p, s) \/ Unlink(p, s)

Spec == Init /\ [][Next]_vars
=============================================================================
