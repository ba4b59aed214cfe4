--------------------------- MODULE MallocVariants ---------------------------
(***************************************************************************)
(* support/allocators/dlmalloc/malloc.c: the other functions that allocate *)
(* and free: realloc, memalign and its kin, independent_calloc and         *)
(* independent_comalloc, bulk_free.                                        *)
(***************************************************************************)
EXTENDS MallocFree

(* The tail of p from nb on is given back.                                 *)
GiveBackTail(m, p, nb, rsize) ==
  dispose_chunk(set_inuse(set_inuse(m, p, nb), p + nb, rsize), p + nb, rsize)

(* p is used up to nb; what is left of its size bytes is given back if it  *)
(* can be a chunk.                                                         *)
Trimmed(m, p, size, nb) ==
  IF size - nb >= MIN_CHUNK_SIZE THEN GiveBackTail(m, p, nb, size - nb)
                                 ELSE set_inuse(m, p, size)

-----------------------------------------------------------------------------
(* realloc.                                                                *)

ExtendIntoTop(m, p, oldsize, nb) ==
  LET newtopsize == oldsize + m.topsize - nb
  IN  [StoreHead(set_inuse(m, p, nb), p + nb, newtopsize, TRUE, FALSE)
         EXCEPT !.top = p + nb, !.topsize = newtopsize]

ExtendIntoDv(m, p, oldsize, nb) ==
  LET dsize == oldsize + m.dvsize - nb
      r == p + nb
  IN  IF dsize >= MIN_CHUNK_SIZE
      THEN [clear_pinuse(set_size_and_pinuse_of_free_chunk(set_inuse(m, p, nb), r, dsize),
                         r + dsize)
              EXCEPT !.dv = r, !.dvsize = dsize]
      ELSE [set_inuse(m, p, oldsize + m.dvsize) EXCEPT !.dv = 0, !.dvsize = 0]

(* Faulty variant: the free chunk that p grows into stays in its bin.      *)
KeepBinned(m, p, s) == m

UnlinkNeighbour(m, p, s) == unlink_chunk(m, p, s)

(* The state, and p if the block is large enough now, else 0.              *)
try_realloc_chunk(m, p, nb) ==
  LET oldsize == chunksize(m, p)
      next == p + oldsize
      nextsize == chunksize(m, next)
      Moved(fits, state) == IF fits THEN Result(state, p) ELSE Result(m, 0)
  IN  IF ~(ok_address(m, p) /\ is_inuse(m, p) /\ ok_next(p, next) /\ pinuse(m, next))
      THEN Result(Corrupted(m), 0)
      ELSE IF oldsize >= nb
      THEN Moved(TRUE, IF oldsize - nb >= MIN_CHUNK_SIZE
                       THEN GiveBackTail(m, p, nb, oldsize - nb) ELSE m)
      ELSE IF next = m.top
      THEN Moved(oldsize + m.topsize > nb, ExtendIntoTop(m, p, oldsize, nb))
      ELSE IF next = m.dv
      THEN Moved(oldsize + m.dvsize >= nb, ExtendIntoDv(m, p, oldsize, nb))
      ELSE IF ~cinuse(m, next)
      THEN Moved(oldsize + nextsize >= nb,
                 Trimmed(UnlinkNeighbour(m, next, nextsize), p, oldsize + nextsize, nb))
      ELSE Result(m, 0)

(* Faulty variant: the old block is freed before there is a new one.       *)
FreeThenMalloc(m, oldmem, bytes, env) ==
  LET Else(t) == IF t.mem # 0 THEN Result(t.m, oldmem)
                 ELSE dlmalloc(dlfree(t.m, oldmem), bytes, env)
  IN  IF oldmem = 0 THEN dlmalloc(m, bytes, env)
      ELSE Else(try_realloc_chunk(m, mem2chunk(oldmem), request2size(bytes)))

(* A block that moves is copied before it is freed, as much of it as the   *)
(* new one holds.                                                          *)
MoveBlock(new, oldmem) ==
  IF new.mem # 0 THEN Result(dlfree(new.m, oldmem), new.mem) ELSE new

dlrealloc(m, oldmem, bytes, env) ==
  LET Else(t) == IF t.mem # 0 THEN Result(t.m, oldmem)
                 ELSE MoveBlock(dlmalloc(t.m, bytes, env), oldmem)
  IN  IF oldmem = 0 THEN dlmalloc(m, bytes, env)
      ELSE IF bytes >= MAX_REQUEST THEN Failed(m)
      ELSE Else(try_realloc_chunk(m, mem2chunk(oldmem), request2size(bytes)))

dlrealloc_in_place(m, oldmem, bytes) ==
  LET InPlace(t) == Result(t.m, IF t.mem = 0 THEN 0 ELSE oldmem)
  IN  IF oldmem = 0 THEN Result(m, 0)
      ELSE IF bytes >= MAX_REQUEST THEN Failed(m)
      ELSE InPlace(try_realloc_chunk(m, mem2chunk(oldmem), request2size(bytes)))

-----------------------------------------------------------------------------
(* memalign.                                                               *)

PowersOfTwo ==
  LET power[k \in 0 .. SIZE_T_BITSIZE - 1] == IF k = 0 THEN 1 ELSE 2 * power[k - 1]
  IN  {power[k] : k \in 0 .. SIZE_T_BITSIZE - 1}

(* Alignments are powers of two from the smallest chunk on.                *)
Alignment(a) == Min({x \in PowersOfTwo : x >= a /\ x >= MIN_CHUNK_SIZE})

(* Faulty variant: a short leader is made just long enough.                *)
ShortestLeader(p, alignment) ==
  LET br == mem2chunk(AlignUp(chunk2mem(p), alignment))
  IN  IF br - p >= MIN_CHUNK_SIZE THEN br ELSE p + MIN_CHUNK_SIZE

(* Where the aligned chunk starts: the leader has to be a chunk as well.   *)
AlignedSpot(p, alignment) ==
  LET br == mem2chunk(AlignUp(chunk2mem(p), alignment))
  IN  IF br - p >= MIN_CHUNK_SIZE THEN br ELSE br + alignment

GiveBackLeader(m, p, newp) ==
  LET leadsize == newp - p
  IN  dispose_chunk(set_inuse(set_inuse(m, newp, chunksize(m, p) - leadsize), p, leadsize),
                    p, leadsize)

(* Faulty variant: no room for a leader that has to be longer.             *)
NoRoomForLeader(nb, alignment) == nb + alignment - CHUNK_OVERHEAD

RequestWithLeader(nb, alignment) == nb + alignment + MIN_CHUNK_SIZE - CHUNK_OVERHEAD

(* What is cut off the front of p, and then off its end. *)
WithoutLeader(m, p, alignment) ==
  LET From(newp) == Result(GiveBackLeader(m, p, newp), newp)
  IN  IF chunk2mem(p) % alignment = 0 THEN Result(m, p) ELSE From(AlignedSpot(p, alignment))

WithoutTrailer(m, p, nb) ==
  LET Kept(size) == IF size > nb + MIN_CHUNK_SIZE THEN GiveBackTail(m, p, nb, size - nb) ELSE m
  IN  Result(Kept(chunksize(m, p)), chunk2mem(p))

internal_memalign(m, a, bytes, env) ==
  LET alignment == Alignment(a)
      nb == request2size(bytes)
      Trailed(r) == WithoutTrailer(r.m, r.mem, nb)
      CutOut(got) == IF got.mem = 0 THEN got
                     ELSE Trailed(WithoutLeader(got.m, mem2chunk(got.mem), alignment))
  IN  IF bytes >= MAX_REQUEST - alignment THEN Failed(m)
      ELSE CutOut(dlmalloc(m, RequestWithLeader(nb, alignment), env))

dlmemalign(m, alignment, bytes, env) ==
  IF alignment <= MALLOC_ALIGNMENT THEN dlmalloc(m, bytes, env)
                                   ELSE internal_memalign(m, alignment, bytes, env)

EINVAL == "EINVAL"
ENOMEM == "ENOMEM"

(* The result carries an error, which is what posix_memalign returns.      *)
dlposix_memalign(m, alignment, bytes, env) ==
  LET Coded(r) == [m |-> r.m, mem |-> r.mem, error |-> IF r.mem = 0 THEN ENOMEM ELSE "0"]
      d == alignment \div SIZE_T_SIZE
  IN  IF alignment # MALLOC_ALIGNMENT /\ (alignment % SIZE_T_SIZE # 0 \/ d \notin PowersOfTwo)
      THEN [m |-> m, mem |-> 0, error |-> EINVAL]
      ELSE Coded(IF alignment = MALLOC_ALIGNMENT THEN dlmalloc(m, bytes, env)
                 ELSE IF bytes <= MAX_REQUEST - alignment
                 THEN internal_memalign(m, alignment, bytes, env)
                 ELSE Result(m, 0))

dlvalloc(m, bytes, env) ==
  dlmemalign(ensure_initialization(m), PageSize, bytes, env)

dlpvalloc(m, bytes, env) ==
  dlmemalign(ensure_initialization(m), PageSize, AlignUp(bytes, PageSize), env)

-----------------------------------------------------------------------------
(* independent_calloc, independent_comalloc and bulk_free.                 *)

(* Faulty variant: the array takes the place of the slop alone.            *)
NoRoomForArray(n) == 0

ArraySize(n) == request2size(Word(n * SIZE_T_SIZE))

(* Where chunks of the given sizes start, one behind the other from p on,  *)
(* and where the last one ends.                                            *)
Starts(p, sizes) ==
  LET at[i \in 1 .. Len(sizes) + 1] == IF i = 1 THEN p ELSE at[i - 1] + sizes[i - 1]
  IN  at

SumOf(sizes) == Starts(0, sizes)[Len(sizes) + 1]

(* Chunks of the given sizes from p on, the last of them up to p + room.   *)
CutUp(m, p, sizes, room) ==
  LET at == Starts(p, sizes)
      n == Len(sizes)
      size(i) == IF i = n THEN p + room - at[n] ELSE sizes[i]
      cut[i \in 0 .. n] ==
        IF i = 0 THEN m ELSE set_size_and_pinuse_of_inuse_chunk(cut[i - 1], at[i], size(i))
  IN  cut

Elements(m, p, sizes, room, mem) ==
  [m |-> CutUp(m, p, sizes, room)[Len(sizes)], mem |-> mem,
   mems |-> [i \in 1 .. Len(sizes) |-> chunk2mem(Starts(p, sizes)[i])]]

(* ialloc.  mems are the elements; mem is the array of pointers to them,   *)
(* the caller's (0 here) or a block of its own behind them.                *)
NoElements(r) == [m |-> r.m, mem |-> r.mem, mems |-> <<>>]

(* The chunk at p holds the elements, and then the array unless own_array. *)
Carve(m, p, sizes, own_array) ==
  LET contents_size == Word(SumOf(sizes))
      array_chunk == p + contents_size
  IN  IF own_array THEN Elements(m, p, sizes, chunksize(m, p), 0)
      ELSE Elements(set_size_and_pinuse_of_inuse_chunk(m, array_chunk,
                                                       chunksize(m, p) - contents_size),
                    p, sizes, contents_size, chunk2mem(array_chunk))

ialloc(m, requests, own_array, env) ==
  LET sizes == [i \in DOMAIN requests |-> request2size(requests[i])]
      array_size == IF own_array THEN 0 ELSE ArraySize(Len(requests))
      Carved(got) == IF got.mem = 0 THEN NoElements(got)
                     ELSE Carve(got.m, mem2chunk(got.mem), sizes, own_array)
  IN  IF requests = <<>>
      THEN NoElements(IF own_array THEN Result(ensure_initialization(m), 0)
                      ELSE dlmalloc(ensure_initialization(m), 0, env))
      ELSE Carved(dlmalloc(ensure_initialization(m),
                           Word(Word(SumOf(sizes)) + array_size - CHUNK_OVERHEAD), env))

dlindependent_calloc(m, n_elements, elem_size, own_array, env) ==
  ialloc(m, [i \in 1 .. n_elements |-> elem_size], own_array, env)

dlindependent_comalloc(m, requests, own_array, env) == ialloc(m, requests, own_array, env)

(* One turn of internal_bulk_free: a chunk whose right neighbour comes     *)
(* next in the array is joined with it and freed in its turn.              *)
BulkFreeOne(s, i) ==
  LET p == mem2chunk(s.array[i])
      psize == chunksize(s.m, p)
      next == p + psize
  IN  IF ~s.m.ok \/ s.array[i] = 0 THEN s
      ELSE IF ~(ok_address(s.m, p) /\ is_inuse(s.m, p)) THEN [s EXCEPT !.m = Corrupted(@)]
      ELSE IF i < Len(s.array) /\ s.array[i + 1] = chunk2mem(next)
      THEN [m |-> set_inuse(s.m, p, psize + chunksize(s.m, next)),
            array |-> [s.array EXCEPT ![i] = 0, ![i + 1] = chunk2mem(p)]]
      ELSE [m |-> dispose_chunk(s.m, p, psize), array |-> [s.array EXCEPT ![i] = 0]]

BulkFreed(m, array) ==
  LET freed[i \in 0 .. Len(array)] ==
        IF i = 0 THEN [m |-> m, array |-> array] ELSE BulkFreeOne(freed[i - 1], i)
  IN  freed

dlbulk_free(m, array) == BulkFreed(m, array)[Len(array)].m
=============================================================================
