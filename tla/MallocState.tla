----------------------------- MODULE MallocState -----------------------------
(***************************************************************************)
(* support/allocators/dlmalloc/malloc.c: malloc_state with the memory it   *)
(* manages as one record, and the functions that change it, malloc and     *)
(* free among them, as operators from state to state.                      *)
(*                                                                         *)
(* Memory is what the allocator reads of it: the head of every chunk, and  *)
(* prev_foot where the chunk before is free.  A word that belongs to a     *)
(* user, or that nothing was stored in, is Junk.  The bins are sequences,  *)
(* as the modules SmallBins and TreeBins show that they are.               *)
(***************************************************************************)
EXTENDS MallocSizes, BinOps

CONSTANTS
  HeapEnd,       (* __heap_end, where the break of MORECORE starts      *)
  PageSize       (* malloc_getpagesize                                  *)

CMFAIL == -1

(* The head of a chunk in memory that no chunk began at.                   *)
Junk(pinuse_bit) == [size |-> 0, pinuse |-> pinuse_bit, cinuse |-> FALSE]

(* Static storage: all zero but the break, which is wasm_morecore's.  The  *)
(* system has memory up to memory_end, and junk is in every PINUSE_BIT     *)
(* that malloc did not write.                                              *)
ZeroState(heap_base, memory_end, junk) ==
  [head |-> <<>>, foot |-> <<>>, bins |-> NoBins,
   top |-> 0, topsize |-> 0, dv |-> 0, dvsize |-> 0,
   base |-> 0, segsize |-> 0, contiguous |-> TRUE,
   footprint |-> 0, max_footprint |-> 0, footprint_limit |-> 0,
   trim_check |-> 0, granularity |-> 0, trim_threshold |-> 0,
   heap_base |-> heap_base, brk |-> HeapEnd, memory_end |-> memory_end,
   junk |-> junk, enomem |-> FALSE, ok |-> TRUE]

is_initialized(m)       == m.top # 0
Corrupted(m)            == [m EXCEPT !.ok = FALSE]
MALLOC_FAILURE_ACTION(m) == [m EXCEPT !.enomem = TRUE]

-----------------------------------------------------------------------------
(* Heads and feet.                                                         *)

HeadAt(m, p)     == IF p \in DOMAIN m.head THEN m.head[p] ELSE Junk(m.junk)
chunksize(m, p)  == HeadAt(m, p).size
pinuse(m, p)     == HeadAt(m, p).pinuse
cinuse(m, p)     == HeadAt(m, p).cinuse
is_inuse(m, p)   == cinuse(m, p) \/ ~pinuse(m, p)
next_chunk(m, p) == p + chunksize(m, p)
prev_foot(m, p)  == IF p \in DOMAIN m.foot THEN m.foot[p] ELSE 0

(* What is inside a chunk is nobody's head and nobody's foot any more.     *)
Outside(f, p, s) == Restrict(f, {x \in DOMAIN f : x <= p \/ x >= p + s})

(* The word behind a used chunk belongs to its user.                       *)
StoreHead(m, p, s, pin, cin) ==
  [m EXCEPT
    !.head = Store(Outside(@, p, s), p, [size |-> s, pinuse |-> pin, cinuse |-> cin]),
    !.foot = LET f == Outside(@, p, s)
             IN  IF cin THEN Restrict(f, DOMAIN f \ {p + s}) ELSE f]

StorePinuse(m, p, pin) ==
  [m EXCEPT !.head = Store(@, p, [HeadAt(m, p) EXCEPT !.pinuse = pin])]

clear_pinuse(m, p) == StorePinuse(m, p, FALSE)
set_foot(m, p, s)  == [m EXCEPT !.foot = Store(@, p + s, s)]

set_inuse(m, p, s)            == StorePinuse(StoreHead(m, p, s, pinuse(m, p), TRUE), p + s, TRUE)
set_inuse_and_pinuse(m, p, s) == StorePinuse(StoreHead(m, p, s, TRUE, TRUE), p + s, TRUE)

set_size_and_pinuse_of_inuse_chunk(m, p, s) == StoreHead(m, p, s, TRUE, TRUE)
set_size_and_pinuse_of_free_chunk(m, p, s)  == set_foot(StoreHead(m, p, s, TRUE, FALSE), p, s)
set_free_with_pinuse(m, p, s, n) ==
  set_size_and_pinuse_of_free_chunk(clear_pinuse(m, n), p, s)

ok_address(m, a) == a >= m.base
ok_next(p, n)    == p < n

-----------------------------------------------------------------------------
(* Bins, dv and top.                                                       *)

insert_chunk(m, p, s) == [m EXCEPT !.bins = Put(@, p, s)]
unlink_chunk(m, p, s) ==
  IF s \in DOMAIN m.bins /\ Contains(m.bins[s], p)
  THEN [m EXCEPT !.bins = Take(@, p, s)]
  ELSE Corrupted(m)

(* Faulty variant: the old dv is nowhere any more.                         *)
ReplaceWithoutBinning(m, p, s) == [m EXCEPT !.dv = p, !.dvsize = s]

(* "Used only when dvsize known to be small" *)
replace_dv(m, p, s) ==
  [(IF m.dvsize = 0 THEN m
    ELSE IF is_small(m.dvsize) THEN insert_chunk(m, m.dv, m.dvsize)
    ELSE Corrupted(m)) EXCEPT !.dv = p, !.dvsize = s]

init_top(m, p0, psize0) ==
  LET offset == align_offset(chunk2mem(p0))
      p == p0 + offset
      psize == psize0 - offset
  IN  [StoreHead(StoreHead(m, p, psize, TRUE, FALSE),
                 p + psize, TOP_FOOT_SIZE, FALSE, FALSE)
         EXCEPT !.top = p, !.topsize = psize, !.trim_check = m.trim_threshold]

ensure_initialization(m) ==
  IF m.granularity # 0 THEN m
  ELSE [m EXCEPT !.granularity = PageSize, !.trim_threshold = MAX_SIZE_T]

(* The memory between __heap_base and __heap_end, if it is large enough,   *)
(* is the heap that malloc starts with.                                    *)
try_init_allocator(m) ==
  LET initial_heap_size == HeapEnd - m.heap_base
  IN  IF initial_heap_size <= MIN_CHUNK_SIZE + TOP_FOOT_SIZE + MALLOC_ALIGNMENT
      THEN ensure_initialization(m)
      ELSE init_top([ensure_initialization(m) EXCEPT
                       !.base = m.heap_base, !.segsize = initial_heap_size,
                       !.footprint = initial_heap_size, !.max_footprint = initial_heap_size],
                    m.heap_base, initial_heap_size - TOP_FOOT_SIZE)

-----------------------------------------------------------------------------
(* Memory from the system.  A result is a state and an address, 0 for      *)
(* none; env[1] and env[2] are the answers to a contiguous and to a        *)
(* non-contiguous MORECORE.                                                *)

Result(m, mem) == [m |-> m, mem |-> mem]

(* "S & ~(granularity - 1)" is 0 as long as the granularity is.            *)
granularity_align(m, S) == IF m.granularity = 0 THEN 0 ELSE AlignUp(S, m.granularity)
page_align(S)           == AlignUp(S, PageSize)

(* Faulty variant: the limit is compared with what there is already.       *)
AtLimit(m, fp) == m.footprint_limit # 0 /\ m.footprint > m.footprint_limit

OverLimit(m, fp) ==
  m.footprint_limit # 0 /\ (fp <= m.footprint \/ fp > m.footprint_limit)

(* CALL_MORECORE: the old break, or CMFAIL.                                *)
Morecore(m, n, granted) ==
  IF granted /\ m.brk + n <= m.memory_end
  THEN [m |-> [m EXCEPT !.brk = @ + n], br |-> m.brk]
  ELSE [m |-> m, br |-> CMFAIL]

(* What a contiguous break has to move by to serve nb from the old top.    *)
Extension(m, nb) == granularity_align(m, Word(nb - m.topsize + SYS_ALLOC_PADDING))

(* What the system gave: tsize bytes from tbase on, unless that is CMFAIL. *)
Given(m, tbase, tsize) == [m |-> m, tbase |-> tbase, tsize |-> tsize]
Refused(m)             == Given(m, CMFAIL, 0)

(* A contiguous grant continues what ends at end, as the break is private  *)
(* to MORECORE; any other would be a second segment.                       *)
Continued(call, end, ssize) ==
  IF call.br = CMFAIL THEN Refused([call.m EXCEPT !.contiguous = FALSE])
  ELSE IF call.br = end THEN Given(call.m, call.br, ssize)
  ELSE Refused(Corrupted(call.m))

(* The contiguous call. *)
ExtendContiguously(m, nb, asize, granted) ==
  LET first == ~is_initialized(m)
      ssize == IF first THEN Word(asize + page_align(m.brk) - m.brk)
                        ELSE Extension(m, nb)
      allowed == /\ ssize < HALF_MAX_SIZE_T
                 /\ first => ssize > nb /\ ~OverLimit(m, Word(m.footprint + ssize))
  IN  Continued(IF allowed THEN Morecore(m, ssize, granted) ELSE [m |-> m, br |-> CMFAIL],
                IF first THEN m.brk ELSE m.base + m.segsize, ssize)

(* Where the two calls of a non-contiguous MORECORE put the break. *)
Between(call, nb) ==
  IF call.br # CMFAIL /\ call.m.brk - call.br > nb + TOP_FOOT_SIZE
  THEN Given(call.m, call.br, call.m.brk - call.br)
  ELSE Refused(call.m)

ExtendAnywhere(m, nb, asize, granted) ==
  IF asize < HALF_MAX_SIZE_T THEN Between(Morecore(m, asize, granted), nb) ELSE Refused(m)

(* What a contiguous call did not bring, the other may. *)
Retried(given, nb, asize, granted) ==
  IF given.tbase # CMFAIL THEN given ELSE ExtendAnywhere(given.m, nb, asize, granted)

Extend(m, nb, asize, env) ==
  IF m.contiguous THEN Retried(ExtendContiguously(m, nb, asize, env[1]), nb, asize, env[2])
                  ELSE ExtendAnywhere(m, nb, asize, env[2])

(* Faulty variant: there is room for the foot of every piece.              *)
FootForEveryPiece(m, tbase, tsize) ==
  init_top([m EXCEPT !.base = IF is_initialized(m) THEN @ ELSE tbase, !.segsize = @ + tsize],
           IF is_initialized(m) THEN m.top ELSE tbase, m.topsize + tsize - TOP_FOOT_SIZE)

(* New memory is the first segment or continues it; another segment        *)
(* (prepend_alloc, add_segment) would take a break that others move.       *)
AddMemory(m, tbase, tsize) ==
  IF ~is_initialized(m)
  THEN init_top([m EXCEPT !.base = tbase, !.segsize = tsize], tbase, tsize - TOP_FOOT_SIZE)
  ELSE IF tbase = m.base + m.segsize
  THEN init_top([m EXCEPT !.segsize = @ + tsize], m.top, m.topsize + tsize)
  ELSE Corrupted(m)

CountFootprint(m, tsize) ==
  [m EXCEPT !.footprint = @ + tsize, !.max_footprint = Max({@, m.footprint + tsize})]

(* A block of nb bytes, cut off the start of top. *)
SplitTop(m, nb) ==
  LET rest == StoreHead([m EXCEPT !.top = m.top + nb, !.topsize = m.topsize - nb],
                        m.top + nb, m.topsize - nb, TRUE, FALSE)
  IN  Result(set_size_and_pinuse_of_inuse_chunk(rest, m.top, nb), chunk2mem(m.top))

Failed(m) == Result(MALLOC_FAILURE_ACTION(m), 0)

ServeFromTop(m, nb) == IF nb < m.topsize THEN SplitTop(m, nb) ELSE Failed(m)

Serve(given, nb) ==
  IF given.tbase = CMFAIL THEN Failed(given.m)
  ELSE ServeFromTop(AddMemory(CountFootprint(given.m, given.tsize), given.tbase, given.tsize), nb)

AllocateFromSystem(m, nb, env) ==
  LET asize == granularity_align(m, Word(nb + SYS_ALLOC_PADDING))
  IN  IF asize <= nb \/ OverLimit(m, Word(m.footprint + asize)) THEN Failed(m)
      ELSE Serve(Extend(m, nb, asize, env), nb)

sys_alloc(m, nb, env) == AllocateFromSystem(ensure_initialization(m), nb, env)
=============================================================================
