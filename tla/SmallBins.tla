------------------------------ MODULE SmallBins ------------------------------
(***************************************************************************)
(* support/allocators/dlmalloc/malloc.c: the small bins, circular doubly   *)
(* linked lists through the free chunks themselves with the bin as their   *)
(* head, and smallmap, which alone says that a bin is empty: a bin that    *)
(* gave its last chunk away still points at it.                            *)
(*                                                                         *)
(* Insertion, removal and allocation are the macros of the source.         *)
(***************************************************************************)
EXTENDS MallocSizes, FiniteSets

CONSTANTS
  Chunks, (* addresses free chunks can have      *)
  Sizes,  (* the small chunk sizes they can have *)
  Null    (* an address no check lets pass       *)

VARIABLES
  fd, bk,   (* links of chunks and of bins                         *)
  smallmap, (* the marked bins                                     *)
  size,     (* size of each chunk in a bin, NotBinned for the others *)
  aborted   (* a run-time check failed                             *)

NotBinned == 0

(* A bin is a chunk to its list. *)
smallbin_at(i) == <<"smallbin", i>>
Bins  == {smallbin_at(small_index(s)) : s \in Sizes}
Nodes == Chunks \cup Bins

smallmap_is_marked(i) == i \in smallmap

(* Links of a chunk that is in no bin are bytes of its user.               *)
Payload == Null
ok_address(a) == a # Payload

-----------------------------------------------------------------------------

(* Faulty variant: the bin's stale link is followed, marked or not.        *)
FirstOfUnmarked(i) == fd[smallbin_at(i)]

(* F of insert_small_chunk: what the new chunk is put before.              *)
FirstOf(i) == IF smallmap_is_marked(i) THEN fd[smallbin_at(i)] ELSE smallbin_at(i)

mark_smallmap(I) == smallmap' = smallmap \cup {I}

insert_small_chunk(P, S) ==
  LET I == small_index(S)
      B == smallbin_at(I)
      F == FirstOf(I)
  IN  /\ size[P] = NotBinned
      /\ size' = [size EXCEPT ![P] = S]
      /\ mark_smallmap(I)
      /\ fd' = [fd EXCEPT ![B] = P, ![P] = F]
      /\ bk' = [bk EXCEPT ![F] = P, ![P] = B]
      /\ aborted' = (aborted \/ ~ok_address(F))

(* Faulty variant: only the left neighbour is mended.                      *)
MendForward(P, B, F) == /\ fd' = [fd EXCEPT ![B] = F, ![P] = Payload]
                        /\ bk' = [bk EXCEPT ![P] = Payload]

OnlyChunk(B, F) == B = F

Bypass(P, B, F) ==
  /\ fd' = [fd EXCEPT ![B] = F, ![P] = Payload]
  /\ bk' = [bk EXCEPT ![F] = B, ![P] = Payload]

(* P leaves its place between B and F; ok is what the source checks first. *)
(* The links of a bin that lost its only chunk stay as they are.           *)
UnlinkBetween(P, B, F, ok) ==
  /\ size' = [size EXCEPT ![P] = NotBinned]
  /\ aborted' = (aborted \/ ~ok)
  /\ \/ /\ OnlyChunk(B, F)
        /\ smallmap' = smallmap \ {small_index(size[P])}
        /\ fd' = [fd EXCEPT ![P] = Payload]
        /\ bk' = [bk EXCEPT ![P] = Payload]
     \/ /\ ~OnlyChunk(B, F)
        /\ Bypass(P, B, F)
        /\ UNCHANGED smallmap

unlink_small_chunk(P) ==
  LET F == fd[P]
      B == bk[P]
      b == smallbin_at(small_index(size[P]))
  IN  /\ size[P] # NotBinned
      /\ UnlinkBetween(P, B, F,
           /\ F = b \/ (ok_address(F) /\ bk[F] = P)
           /\ B = F \/ B = b \/ (ok_address(B) /\ fd[B] = P))

(* What malloc does with a marked bin: it takes the chunk fd points at.    *)
unlink_first_small_chunk(I) ==
  LET B == smallbin_at(I)
      P == fd[B]
      F == fd[P]
  IN  /\ smallmap_is_marked(I)
      /\ UnlinkBetween(P, B, F, B = F \/ (ok_address(F) /\ bk[F] = P))

-----------------------------------------------------------------------------

(* init_bins: every bin is linked to itself. *)
init_bins == [x \in Nodes |-> IF x \in Bins THEN x ELSE Payload]

-----------------------------------------------------------------------------

Binned == {p \in Chunks : size[p] \in Sizes}
Marked == {smallbin_at(i) : i \in smallmap}
BinOf(x) == IF x \in Bins THEN x ELSE smallbin_at(small_index(size[x]))

(* do_check_smallbin: whatever was inserted and removed in between, each   *)
(* binned chunk and each marked bin is the neighbour of its neighbours,    *)
(* and these belong to the same bin.  Nothing binned points at memory that *)
(* was given to a user.                                                    *)
Linked ==
  \A x \in Binned \cup Marked :
    /\ fd[x] \in Binned \cup Marked /\ bk[fd[x]] = x /\ BinOf(fd[x]) = BinOf(x)
    /\ bk[x] \in Binned \cup Marked /\ fd[bk[x]] = x /\ BinOf(bk[x]) = BinOf(x)

(* A bin is marked exactly when a chunk is in it, although the bin's own   *)
(* links are not reset when the last chunk leaves: dlmalloc takes the      *)
(* first chunk of a marked bin without looking whether there is one.       *)
MarkedIffUsed == Marked = {BinOf(p) : p \in Binned}

(* The chunks of a size from the oldest on: the list walked backwards.     *)
Listed(S) ==
  LET b == smallbin_at(small_index(S))
      Back(x) == IF x \in Nodes THEN bk[x] ELSE x
      w[n \in 0 .. Cardinality(Chunks) + 1] == IF n = 0 THEN b ELSE Back(w[n - 1])
      Ends == {n \in 1 .. Cardinality(Chunks) + 1 : w[n] = b}
      len == IF Ends = {} THEN 0 ELSE (CHOOSE n \in Ends : \A m \in Ends : n <= m) - 1
  IN  [n \in 1 .. len |-> w[n]]

MarkedSizes == {S \in Sizes : smallmap_is_marked(small_index(S))}
=============================================================================
