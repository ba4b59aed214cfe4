-------------------------------- MODULE Bins --------------------------------
(***************************************************************************)
(* support/allocators/dlmalloc/malloc.c: small bins and tree bins side by  *)
(* side.  A free chunk has one pair of links, whichever kind of bin it is  *)
(* in, so what one kind leaves in them the other kind finds.  Which chunk  *)
(* is freed or merged next is the caller's choice.                         *)
(***************************************************************************)
EXTENDS MallocSizes, FiniteSetsExt, Sequences

CONSTANTS
  Chunks,    (* addresses free chunks can have                   *)
  Workloads, (* records of the sizes chunks have (sizes) and the  *)
             (* chunk sizes malloc looks for (needs)              *)
  Null

AllSizes   == UNION {w.sizes : w \in Workloads}
SmallSizes == {s \in AllSizes : is_small(s)}
LargeSizes == AllSizes \ SmallSizes

(* Chunk sizes are aligned, and so is what request2size makes of a request. *)
IsChunkSize(s) == s \in Nat \ {0} /\ s < WordSize /\ s % MALLOC_ALIGNMENT = 0

ASSUME BinsAssumption ==
  /\ IsFiniteSet(Chunks)
  /\ \A i \in 0 .. NSMALLBINS - 1 : <<"smallbin", i>> \notin Chunks \cup {Null}
  /\ \A i \in 0 .. NTREEBINS - 1 : <<"treebin", i>> \notin Chunks \cup {Null}
  /\ Null \notin Chunks
  /\ \A w \in Workloads : \A s \in w.sizes \cup w.needs : IsChunkSize(s)

(* The powers of two a size_t is made of. *)
ASSUME PowersAssumption ==
  \A n \in 0 .. SIZE_T_BITSIZE - 1 : 2 ^ n \in Nat \ {0} /\ 2 ^ (n + 1) = 2 * 2 ^ n

VARIABLES
  workload,             (* what the program frees and asks for           *)
  fd, bk,               (* links of chunks and of small bins             *)
  smallmap, treemap,    (* the marked bins                               *)
  root, child, parent,  (* the tries                                     *)
  size,                 (* size of each chunk in a bin, 0 for the others *)
  aborted               (* a run-time check failed                       *)

trees == <<root, treemap, child, parent>>
vars  == <<workload, fd, bk, smallmap, trees, size, aborted>>

Small == INSTANCE SmallBins WITH Sizes <- SmallSizes
Large == INSTANCE TreeBins WITH Sizes <- LargeSizes

-----------------------------------------------------------------------------

insert_chunk(P, S) ==
  \/ is_small(S) /\ Small!insert_small_chunk(P, S) /\ UNCHANGED trees
  \/ ~is_small(S) /\ Large!insert_large_chunk(P, S) /\ UNCHANGED smallmap

unlink_chunk(P) ==
  \/ is_small(size[P]) /\ Small!unlink_small_chunk(P) /\ UNCHANGED trees
  \/ ~is_small(size[P]) /\ Large!unlink_large_chunk(P) /\ UNCHANGED smallmap

(* smallmap >> idx, and what leftshift makes of it in dlmalloc. *)
smallbits(nb) == {i \in smallmap : i >= small_index(nb)}

(* The chunk that malloc takes from the bins for nb, Null without one: the *)
(* small bins are tried first, unless the request is large.                *)
Candidate(nb) ==
  IF ~is_small(nb) THEN Large!BestLarge(nb)
  ELSE IF smallbits(nb) # {} THEN fd[Small!smallbin_at(Min(smallbits(nb)))]
  ELSE IF treemap # {} THEN Large!BestSmall(nb)
  ELSE Null

malloc_small(nb) ==
  /\ is_small(nb)
  /\ smallbits(nb) # {}
  /\ Small!unlink_first_small_chunk(Min(smallbits(nb)))
  /\ UNCHANGED trees

tmalloc_small(nb) ==
  /\ is_small(nb)
  /\ smallbits(nb) = {}
  /\ Large!tmalloc_small(nb)
  /\ UNCHANGED smallmap

tmalloc_large(nb) ==
  /\ ~is_small(nb)
  /\ Large!tmalloc_large(nb)
  /\ UNCHANGED smallmap

Init ==
  /\ workload \in Workloads
  /\ fd = Small!init_bins
  /\ bk = Small!init_bins
  /\ smallmap = {}
  /\ Large!treebins_empty
  /\ size = [x \in Chunks |-> 0]
  /\ aborted = FALSE

Next ==
  /\ \/ \E P \in Chunks, S \in workload.sizes : insert_chunk(P, S)
     \/ \E P \in Chunks : unlink_chunk(P)
     \/ \E nb \in workload.needs :
          malloc_small(nb) \/ tmalloc_small(nb) \/ tmalloc_large(nb)
  /\ UNCHANGED workload

Spec == Init /\ [][Next]_vars

-----------------------------------------------------------------------------

(* do_check_smallbin and do_check_treebin, after any order of insertions   *)
(* and removals: lists, rings, tries and maps are consistent, nothing      *)
(* binned points at memory that was given to a user, the bits of a size    *)
(* lead to its chunks also after leaves have moved up to replace nodes of  *)
(* other sizes, and no run-time check calls ABORT.                         *)
WellLinked ==
  /\ Small!Linked
  /\ Small!MarkedIffUsed
  /\ Large!WellFormed
  /\ Large!Findable
  /\ ~aborted

bins == [S \in Small!MarkedSizes \cup Large!RingSizes |->
           IF is_small(S) THEN Small!Listed(S) ELSE Large!Ring(S)]

(* "allocate a large request from the best fitting chunk in a treebin":    *)
(* whatever the shape of lists and tries, malloc finds the smallest size   *)
(* that fits, the youngest chunk of a small size and the oldest of a large *)
(* one, and nothing only if nothing fits.                                  *)
BestFit ==
  \A nb \in workload.needs :
    LET fits == {S \in DOMAIN bins : S >= nb}
        best == bins[Min(fits)]
    IN  Candidate(nb) = IF fits = {} THEN Null
                        ELSE IF is_small(Min(fits)) THEN best[Len(best)]
                        ELSE best[1]

Abstract == INSTANCE FreeBins WITH Sizes <- AllSizes

(* Lists, tries, rings and maps together are the bins they stand for: no   *)
(* chunk is lost by a rotation of a trie, none is in two bins, and the     *)
(* order of insertion is kept.                                             *)
ImplementsFreeBins == Abstract!Spec
=============================================================================
