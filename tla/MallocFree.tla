----------------------------- MODULE MallocFree -----------------------------
(***************************************************************************)
(* support/allocators/dlmalloc/malloc.c: dlmalloc, dlfree and dlcalloc,    *)
(* and dispose_chunk, which realloc, memalign and bulk_free give memory    *)
(* back with.                                                              *)
(***************************************************************************)
EXTENDS MallocState

SmallBinned(m) == {s \in DOMAIN m.bins : is_small(s)}
TreeBinned(m)  == {s \in DOMAIN m.bins : ~is_small(s)}
AtLeast(S, nb) == {s \in S : s >= nb}

(* p, free and in no bin, is used up to nb; the rest is a free chunk.      *)
Split(m, p, nb, rsize) ==
  set_size_and_pinuse_of_free_chunk(set_size_and_pinuse_of_inuse_chunk(m, p, nb),
                                    p + nb, rsize)

-----------------------------------------------------------------------------
(* malloc.                                                                 *)

(* Step 1 of a small request: a bin of the size, or of the next one.       *)
Remainderless(m, nb) ==
  LET Whole(p, s) == Result(set_inuse_and_pinuse(unlink_chunk(m, p, s), p, s), chunk2mem(p))
      Youngest(s) == Whole(Last(m.bins[s]), s)
  IN  Youngest(Min(AtLeast(SmallBinned(m), nb)))

(* Step 3, from a small bin: there is always a remainder, the next dv.     *)
NextSmallBin(m, nb) ==
  LET Cut(p, s) ==
        Result(replace_dv(Split(unlink_chunk(m, p, s), p, nb, s - nb), p + nb, s - nb),
               chunk2mem(p))
      Youngest(s) == Cut(Last(m.bins[s]), s)
  IN  Youngest(Min(AtLeast(SmallBinned(m), nb)))

(* Faulty variant: a remainder too small to be a chunk becomes one.        *)
AlwaysSplits(rsize) == rsize = 0

NoChunkLeft(rsize) == rsize < MIN_CHUNK_SIZE

(* Step 3, from a tree bin: the chunk TreeBins.BestFit says is found.      *)
tmalloc_small(m, nb) ==
  LET Cut(u, v, s) ==
        IF NoChunkLeft(s - nb) THEN set_inuse_and_pinuse(u, v, s)
        ELSE replace_dv(Split(u, v, nb, s - nb), v + nb, s - nb)
      Served(v, s) == Result(Cut(unlink_chunk(m, v, s), v, s), chunk2mem(v))
      Oldest(s) == Served(Head(m.bins[s]), s)
  IN  Oldest(Min(TreeBinned(m)))

(* Faulty variant: dv is the last resort.                                  *)
AnyTreeChunk(m, s, nb) == s >= nb

(* The difference wraps, and is large, when dv is too small.               *)
BetterThanDv(m, s, nb) == s - nb < Word(m.dvsize - nb)

(* Step 1 of a large request, unless dv fits as well.                      *)
tmalloc_large(m, nb) ==
  LET Cut(u, v, s) ==
        IF NoChunkLeft(s - nb) THEN set_inuse_and_pinuse(u, v, s)
        ELSE insert_chunk(Split(u, v, nb, s - nb), v + nb, s - nb)
      Served(v, s) == Result(Cut(unlink_chunk(m, v, s), v, s), chunk2mem(v))
      Oldest(s) == IF BetterThanDv(m, s, nb) THEN Served(Head(m.bins[s]), s) ELSE Result(m, 0)
      fits == AtLeast(TreeBinned(m), nb)
  IN  IF fits = {} THEN Result(m, 0) ELSE Oldest(Min(fits))

UseDv(m, nb) ==
  LET p == m.dv
      rsize == m.dvsize - nb
  IN  Result(IF rsize >= MIN_CHUNK_SIZE
             THEN Split([m EXCEPT !.dv = p + nb, !.dvsize = rsize], p, nb, rsize)
             ELSE set_inuse_and_pinuse([m EXCEPT !.dv = 0, !.dvsize = 0], p, m.dvsize),
             chunk2mem(p))

(* Faulty variant: a dv that fits exactly is left alone.                   *)
LargerDvOnly(m, nb, env) ==
  IF nb < m.dvsize THEN UseDv(m, nb)
  ELSE IF nb < m.topsize THEN SplitTop(m, nb)
  ELSE sys_alloc(m, nb, env)

(* What both kinds of request come to when no bin serves them.             *)
UseDvTopOrSystem(m, nb, env) ==
  IF nb <= m.dvsize THEN UseDv(m, nb)
  ELSE IF nb < m.topsize THEN SplitTop(m, nb)
  ELSE sys_alloc(m, nb, env)

SmallRequest(m, nb, env) ==
  LET bins == AtLeast(SmallBinned(m), nb)
  IN  IF \E s \in bins : s <= nb + SMALLBIN_WIDTH THEN Remainderless(m, nb)
      ELSE IF nb <= m.dvsize THEN UseDv(m, nb)
      ELSE IF bins # {} THEN NextSmallBin(m, nb)
      ELSE IF TreeBinned(m) # {} THEN tmalloc_small(m, nb)
      ELSE UseDvTopOrSystem(m, nb, env)

LargeRequest(m, nb, env) ==
  LET OrElse(r) == IF r.mem # 0 THEN r ELSE UseDvTopOrSystem(m, nb, env)
  IN  OrElse(IF nb = MAX_SIZE_T THEN Result(m, 0) ELSE tmalloc_large(m, nb))

dlmalloc(m, bytes, env) ==
  LET Serving(state, nb) == IF bytes <= MAX_SMALL_REQUEST THEN SmallRequest(state, nb, env)
                                                          ELSE LargeRequest(state, nb, env)
  IN  Serving(IF is_initialized(m) THEN m ELSE try_init_allocator(m), ChunkSizeFor(bytes))

(* Faulty variant: the product wraps unnoticed.                            *)
WrappedProduct(n_elements, elem_size) == Word(n_elements * elem_size)

(* The request of calloc: a product that wraps is told by a division, and  *)
(* replaced by a request that fails.                                       *)
CallocRequest(n_elements, elem_size) ==
  LET req == Word(n_elements * elem_size)
      half == 2 ^ (SIZE_T_BITSIZE \div 2)
  IN  IF /\ n_elements # 0
         /\ n_elements >= half \/ elem_size >= half
         /\ req \div n_elements # elem_size
      THEN MAX_SIZE_T ELSE req

dlcalloc(m, n_elements, elem_size, env) ==
  dlmalloc(m, CallocRequest(n_elements, elem_size), env)

-----------------------------------------------------------------------------
(* free.                                                                   *)

(* Joins p with the free chunk before it.  A dv that is followed by a used *)
(* chunk only grows, and then everything is done.                          *)
ConsolidateBackward(m, p, psize, next) ==
  LET prev == p - prev_foot(m, p)
      size == psize + prev_foot(m, p)
      Joined(state, done) == [m |-> state, p |-> prev, psize |-> size, done |-> done]
  IN  IF pinuse(m, p) THEN [m |-> m, p |-> p, psize |-> psize, done |-> FALSE]
      ELSE IF ~ok_address(m, prev) THEN Joined(Corrupted(m), TRUE)
      ELSE IF prev # m.dv THEN Joined(unlink_chunk(m, prev, prev_foot(m, p)), FALSE)
      ELSE IF cinuse(m, next) /\ pinuse(m, next)
      THEN Joined(set_free_with_pinuse([m EXCEPT !.dvsize = size], prev, size, next), TRUE)
      ELSE Joined(m, FALSE)

(* A dv that becomes part of top is no dv any more. *)
JoinTop(m, p, psize) ==
  LET tsize == m.topsize + psize
      last == p = m.dv
  IN  StoreHead([m EXCEPT !.top = p, !.topsize = tsize,
                          !.dv = IF last THEN 0 ELSE @, !.dvsize = IF last THEN 0 ELSE @],
                p, tsize, TRUE, FALSE)

JoinDv(m, p, psize) ==
  LET dsize == m.dvsize + psize
  IN  set_size_and_pinuse_of_free_chunk([m EXCEPT !.dv = p, !.dvsize = dsize], p, dsize)

(* Faulty variant: a dv that grew over the chunk behind it is binned.      *)
JoinNextAndBin(m, p, psize, next) ==
  LET size == psize + chunksize(m, next)
  IN  insert_chunk(set_size_and_pinuse_of_free_chunk(
        unlink_chunk(m, next, chunksize(m, next)), p, size), p, size)

JoinNext(m, p, psize, next) ==
  LET size == psize + chunksize(m, next)
      Kept(j) == IF p = m.dv THEN [j EXCEPT !.dvsize = size] ELSE insert_chunk(j, p, size)
  IN  Kept(set_size_and_pinuse_of_free_chunk(unlink_chunk(m, next, chunksize(m, next)), p, size))

ConsolidateForward(m, p, psize, next) ==
  IF cinuse(m, next) THEN insert_chunk(set_free_with_pinuse(m, p, psize, next), p, psize)
  ELSE IF next = m.top THEN JoinTop(m, p, psize)
  ELSE IF next = m.dv THEN JoinDv(m, p, psize)
  ELSE JoinNext(m, p, psize, next)

dispose_chunk(m, p, psize) ==
  LET next == p + psize
      Forward(b) == IF b.done THEN b.m
                    ELSE IF ok_address(m, next) THEN ConsolidateForward(b.m, b.p, b.psize, next)
                    ELSE Corrupted(b.m)
  IN  Forward(ConsolidateBackward(m, p, psize, next))

(* The release_checks that free counts down only concern further segments. *)
dlfree(m, mem) ==
  LET p == mem2chunk(mem)
      next == next_chunk(m, p)
      Forward(b) == IF b.done THEN b.m
                    ELSE IF ok_next(b.p, next) /\ pinuse(b.m, next)
                    THEN ConsolidateForward(b.m, b.p, b.psize, next)
                    ELSE Corrupted(b.m)
  IN  IF mem = 0 THEN m
      ELSE IF ~(ok_address(m, p) /\ is_inuse(m, p)) THEN Corrupted(m)
      ELSE Forward(ConsolidateBackward(m, p, chunksize(m, p), next))
=============================================================================
