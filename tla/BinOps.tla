------------------------------- MODULE BinOps -------------------------------
(***************************************************************************)
(* support/allocators/dlmalloc/malloc.c: the free chunks as functions from *)
(* a size to the chunks of that size, in the order they were put there.  A *)
(* size without chunks is in no domain, as its bit is in no map.           *)
(***************************************************************************)
EXTENDS Integers, SequencesExt

(* f with v at x, whether f had a value there or not.                      *)
Store(f, x, v) == [y \in DOMAIN f \cup {x} |-> IF y = x THEN v ELSE f[y]]

NoBins == <<>>

InBins(b, p) == \E s \in DOMAIN b : Contains(b[s], p)

Put(b, p, s) == Store(b, s, IF s \in DOMAIN b THEN Append(b[s], p) ELSE <<p>>)

Place(bin, p) == CHOOSE i \in DOMAIN bin : bin[i] = p

Take(b, p, s) ==
  IF Len(b[s]) = 1 THEN Restrict(b, DOMAIN b \ {s})
                   ELSE [b EXCEPT ![s] = RemoveAt(@, Place(@, p))]
=============================================================================
