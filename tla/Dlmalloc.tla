------------------------------- MODULE Dlmalloc -------------------------------
(***************************************************************************)
(* support/allocators/dlmalloc/malloc.c as src/wasm_allocator.c builds it: *)
(* any sequence of calls of the library by a user who frees what is his,   *)
(* once.  A call is one step, since nothing runs beside it; what varies is *)
(* the order of the calls and whether MORECORE has memory left.            *)
(***************************************************************************)
EXTENDS MallocVariants

CONSTANTS
  Programs, (* the users there may be                     *)
  MaxMemory (* bound: no program has memory from there on *)

(* A program as far as malloc sees it: where its data ends, where the      *)
(* memory ends that MORECORE grants, and the arguments it calls with.      *)
NoCalls ==
  [heap_base     |-> HeapEnd, (* where the data of the program ends            *)
   memory_end    |-> HeapEnd, (* no grant moves the break past it              *)
   junk          |-> FALSE,   (* PINUSE_BIT of a head that was never written   *)
   max_live      |-> 0,       (* bound: blocks in use at a time                *)
   max_bulk      |-> 0,       (* bound: blocks handed to bulk_free             *)
   requests      |-> {},      (* bytes asked of malloc                         *)
   resizes       |-> {},      (* bytes asked of realloc                        *)
   products      |-> {},      (* pairs asked of calloc                         *)
   alignments    |-> {},      (* pairs of an alignment and a size              *)
   pages         |-> {},      (* bytes asked of valloc and pvalloc             *)
   arrays        |-> {},      (* pairs asked of independent_calloc             *)
   groups        |-> {},      (* sequences asked of independent_comalloc       *)
   limits        |-> {},      (* arguments of malloc_set_footprint_limit       *)
   granularities |-> {},      (* arguments of mallopt(M_GRANULARITY, ...)      *)
   thresholds    |-> {},      (* arguments of mallopt(M_TRIM_THRESHOLD, ...)   *)
   pads          |-> {}]      (* arguments of malloc_trim                      *)

(* The heap ends where the memory a program starts with does, which has    *)
(* pages of its own that are a multiple of these.                          *)
ASSUME SystemAssumption ==
  /\ PageSize \in PowersOfTwo /\ PageSize >= MIN_CHUNK_SIZE
  /\ HeapEnd \in Nat /\ HeapEnd % PageSize = 0 /\ HeapEnd + PageSize <= WordSize
  /\ MaxMemory \in Nat /\ MaxMemory <= MAX_SIZE_T

SizeTs == 0 .. MAX_SIZE_T

(* ialloc adds sizes up without a test: the caller sees to it that neither *)
(* the sum nor one of its terms wraps.                                     *)
SumsUp(requests) ==
  LET sizes == [i \in DOMAIN requests |-> request2size(requests[i])]
  IN  /\ \A i \in DOMAIN requests : requests[i] < MAX_REQUEST
      /\ Len(requests) * SIZE_T_SIZE < MAX_REQUEST
      /\ SumOf(sizes) + ArraySize(Len(requests)) < WordSize

(* Nor does pvalloc test whether rounding up wraps, and memalign looks for *)
(* a power of two until it finds one.                                      *)
ASSUME ProgramsAssumption ==
  \A p \in Programs :
    /\ DOMAIN p = DOMAIN NoCalls
    /\ p.heap_base \in 1 .. HeapEnd /\ p.memory_end \in HeapEnd .. MaxMemory
    /\ p.junk \in BOOLEAN /\ p.max_live \in Nat /\ p.max_bulk \in Nat
    /\ p.requests \cup p.resizes \cup p.limits \subseteq SizeTs
    /\ p.granularities \cup p.thresholds \cup p.pads \subseteq SizeTs
    /\ p.products \subseteq SizeTs \X SizeTs
    /\ p.alignments \subseteq SizeTs \X SizeTs
    /\ \A a \in p.alignments : \E x \in PowersOfTwo : a[1] <= x
    /\ \A bytes \in p.pages : bytes \in Nat /\ bytes + PageSize <= WordSize
    /\ p.arrays \subseteq SizeTs \X SizeTs
    /\ \A a \in p.arrays : SumsUp([i \in 1 .. a[1] |-> a[2]])
    /\ p.groups \subseteq Seq(SizeTs) /\ \A g \in p.groups : SumsUp(g)

VARIABLES
  program, (* who calls                                             *)
  m,       (* malloc_state, mparams, memory and errno               *)
  live     (* what was asked for, of every block in use             *)

vars == <<program, m, live>>

(* MORECORE grants the first call, only the second, or none.               *)
Answers == {<<TRUE, TRUE>>, <<FALSE, TRUE>>, <<FALSE, FALSE>>}

(* The user clears errno before a call.                                    *)
Called == [m EXCEPT !.enomem = FALSE]

Room(n) == Cardinality(DOMAIN live) + n <= program.max_live

Block(bytes, alignment) == [bytes |-> bytes, align |-> alignment]
Plain(bytes)            == Block(bytes, MALLOC_ALIGNMENT)

(* What the user gets is his, unless it is the null pointer.               *)
Owning(f, mem, block) == IF mem = 0 THEN f ELSE Store(f, mem, block)
Disowning(f, mems)    == Restrict(f, DOMAIN f \ mems)

-----------------------------------------------------------------------------

Init ==
  /\ program \in Programs
  /\ m = ZeroState(program.heap_base, program.memory_end, program.junk)
  /\ live = <<>>

Returns(r, block) ==
  /\ Room(1)
  /\ m' = r.m
  /\ live' = Owning(live, r.mem, block)

Malloc(bytes, env) == Returns(dlmalloc(Called, bytes, env), Plain(bytes))

Calloc(n, size, env) == Returns(dlcalloc(Called, n, size, env), Plain(n * size))

(* "Alignments" that are no powers of two count as the next one.           *)
AlignedBlock(alignment, bytes) ==
  IF alignment <= MALLOC_ALIGNMENT THEN Plain(bytes) ELSE Block(bytes, Alignment(alignment))

Memalign(alignment, bytes, env) ==
  Returns(dlmemalign(Called, alignment, bytes, env), AlignedBlock(alignment, bytes))

PosixMemalign(alignment, bytes, env) ==
  Returns(dlposix_memalign(Called, alignment, bytes, env), AlignedBlock(alignment, bytes))

Valloc(bytes, env)  == Returns(dlvalloc(Called, bytes, env), Block(bytes, PageSize))
Pvalloc(bytes, env) == Returns(dlpvalloc(Called, bytes, env), Block(bytes, PageSize))

Free(mem) ==
  /\ m' = dlfree(Called, mem)
  /\ live' = Disowning(live, {mem})

BulkFree(array) ==
  /\ m' = dlbulk_free(Called, array)
  /\ live' = Disowning(live, ToSet(array))

Resized(r, mem, block) ==
  /\ m' = r.m
  /\ live' = IF r.mem = 0 THEN live ELSE Owning(Disowning(live, {mem}), r.mem, block)

Realloc(mem, bytes, env) ==
  /\ mem = 0 => Room(1)
  /\ Resized(dlrealloc(Called, mem, bytes, env), mem, Plain(bytes))

ReallocInPlace(mem, bytes) ==
  Resized(dlrealloc_in_place(Called, mem, bytes), mem, Block(bytes, live[mem].align))

OwningAll(f, mems, sizes) ==
  [mem \in ToSet(mems) \cup DOMAIN f |->
     IF mem \in ToSet(mems) THEN Plain(sizes[CHOOSE i \in DOMAIN mems : mems[i] = mem])
                            ELSE f[mem]]

(* The elements, and the array of pointers unless the user has one.        *)
Carved(r, sizes) ==
  /\ Room(Len(sizes) + 1)
  /\ m' = r.m
  /\ live' = Owning(OwningAll(live, r.mems, sizes), r.mem, Plain(SIZE_T_SIZE * Len(sizes)))

IndependentComalloc(sizes, own_array, env) ==
  Carved(dlindependent_comalloc(Called, sizes, own_array, env), sizes)

IndependentCalloc(n, size, own_array, env) ==
  Carved(dlindependent_calloc(Called, n, size, own_array, env), [i \in 1 .. n |-> size])

-----------------------------------------------------------------------------
(* Parameters and statistics.                                              *)

(* sys_trim: MORECORE takes nothing back, so nothing is ever released.     *)
MallocTrim(pad) ==
  LET i == ensure_initialization(Called)
      tried == pad < MAX_REQUEST /\ is_initialized(i)
  IN  /\ m' = IF tried /\ i.topsize > i.trim_check THEN [i EXCEPT !.trim_check = MAX_SIZE_T]
              ELSE i
      /\ UNCHANGED live

(* dlmalloc_set_footprint_limit: the first of its assignments is always    *)
(* followed by another.                                                    *)
FootprintLimit(state, bytes) ==
  IF bytes = MAX_SIZE_T THEN 0 ELSE granularity_align(state, bytes)

SetFootprintLimit(bytes) ==
  /\ m' = [Called EXCEPT !.footprint_limit = FootprintLimit(m, bytes)]
  /\ UNCHANGED live

(* change_mparam. *)
MalloptGranularity(value) ==
  LET i == ensure_initialization(Called)
  IN  /\ m' = IF value >= PageSize /\ value \in PowersOfTwo
              THEN [i EXCEPT !.granularity = value] ELSE i
      /\ UNCHANGED live

MalloptTrimThreshold(value) ==
  /\ m' = [ensure_initialization(Called) EXCEPT !.trim_threshold = value]
  /\ UNCHANGED live

usable_size(mem) ==
  IF mem # 0 /\ is_inuse(m, mem2chunk(mem))
  THEN chunksize(m, mem2chunk(mem)) - CHUNK_OVERHEAD ELSE 0

Allocation(env) ==
  \/ \E bytes \in program.requests : Malloc(bytes, env)
  \/ \E p \in program.products : Calloc(p[1], p[2], env)
  \/ \E mem \in DOMAIN live \cup {0}, bytes \in program.resizes : Realloc(mem, bytes, env)
  \/ \E a \in program.alignments : Memalign(a[1], a[2], env) \/ PosixMemalign(a[1], a[2], env)
  \/ \E bytes \in program.pages : Valloc(bytes, env) \/ Pvalloc(bytes, env)
  \/ \E a \in program.arrays, own \in BOOLEAN : IndependentCalloc(a[1], a[2], own, env)
  \/ \E g \in program.groups, own \in BOOLEAN : IndependentComalloc(g, own, env)

Release ==
  \/ \E mem \in DOMAIN live : Free(mem)
  \/ \E S \in SUBSET DOMAIN live :
       /\ Cardinality(S) \in 1 .. program.max_bulk
       /\ \E array \in SetToSeqs(S) : BulkFree(array)

Parameters ==
  \/ \E bytes \in program.limits : SetFootprintLimit(bytes)
  \/ \E value \in program.granularities : MalloptGranularity(value)
  \/ \E value \in program.thresholds : MalloptTrimThreshold(value)
  \/ \E pad \in program.pads : MallocTrim(pad)

Next ==
  /\ \/ \E env \in Answers : Allocation(env)
     \/ \E mem \in DOMAIN live, bytes \in program.resizes : ReallocInPlace(mem, bytes)
     \/ Release
     \/ Parameters
  /\ UNCHANGED program

Spec == Init /\ [][Next]_vars

-----------------------------------------------------------------------------
(* do_check_malloc_state and what it calls.                                *)

First == align_as_chunk(m.base)
Fence == m.top + m.topsize

(* The chunks from the first one to top, as traverse_and_check meets them. *)
Chunks ==
  LET n == Cardinality(DOMAIN m.head)
      q[i \in 0 .. n] == IF i = 0 THEN First
                         ELSE IF q[i - 1] >= m.top THEN q[i - 1]
                         ELSE next_chunk(m, q[i - 1])
  IN  {q[i] : i \in 0 .. n}

InUse  == {q \in Chunks \ {m.top} : is_inuse(m, q)}
IsFree == {q \in Chunks \ {m.top} : ~is_inuse(m, q)}

bin_find(q) ==
  chunksize(m, q) \in DOMAIN m.bins /\ Contains(m.bins[chunksize(m, q)], q)

do_check_any_chunk(q) == is_aligned(chunk2mem(q)) /\ ok_address(m, q)

do_check_top_chunk ==
  /\ do_check_any_chunk(m.top)
  /\ chunksize(m, m.top) = m.topsize /\ m.topsize > 0
  /\ m.topsize = m.base + m.segsize - m.top - TOP_FOOT_SIZE
  /\ pinuse(m, m.top) /\ ~pinuse(m, Fence)
  /\ ~bin_find(m.top)

do_check_dv_chunk ==
  /\ do_check_any_chunk(m.dv)
  /\ m.dvsize = chunksize(m, m.dv) /\ m.dvsize >= MIN_CHUNK_SIZE
  /\ ~bin_find(m.dv)

do_check_inuse_chunk(q) ==
  /\ do_check_any_chunk(q)
  /\ pinuse(m, next_chunk(m, q))
  /\ ~pinuse(m, q) => next_chunk(m, q - prev_foot(m, q)) = q
  /\ chunksize(m, q) % MALLOC_ALIGNMENT = 0 /\ chunksize(m, q) >= MIN_CHUNK_SIZE

do_check_free_chunk(q) ==
  LET next == next_chunk(m, q)
  IN  /\ do_check_any_chunk(q)
      /\ ~pinuse(m, next) /\ pinuse(m, q)
      /\ chunksize(m, q) % MALLOC_ALIGNMENT = 0 /\ chunksize(m, q) >= MIN_CHUNK_SIZE
      /\ prev_foot(m, next) = chunksize(m, q)
      /\ next # m.top /\ is_inuse(m, next)

traverse_and_check ==
  /\ pinuse(m, First)
  /\ \A q \in InUse : do_check_inuse_chunk(q) /\ ~bin_find(q)
  /\ \A q \in IsFree : do_check_free_chunk(q) /\ (q = m.dv \/ bin_find(q))

-----------------------------------------------------------------------------

(* do_check_malloc_state: flags, sizes and feet agree wherever two chunks  *)
(* meet, no two free chunks are neighbours, and a free chunk is in its bin *)
(* or is dv, after any sequence of calls.  The run-time checks (RTCHECK)   *)
(* never fail for a user who frees what is his, and MORECORE never makes a *)
(* second segment.                                                         *)
StateChecks ==
  /\ m.ok
  /\ is_initialized(m) =>
       /\ do_check_top_chunk
       /\ m.dvsize # 0 => do_check_dv_chunk
       /\ traverse_and_check

(* Nothing is lost: the chunks from the first to top and the foot behind   *)
(* it are all of the segment, which ends at the break, and the bins hold   *)
(* nothing else, nor anything twice.                                       *)
AllMemoryAccounted ==
  is_initialized(m) =>
    /\ DOMAIN m.head = Chunks \cup {Fence}
    /\ m.top \in Chunks
    /\ Fence + TOP_FOOT_SIZE = m.base + m.segsize
    /\ m.base + m.segsize = m.brk
    /\ m.footprint = m.segsize /\ m.footprint <= m.max_footprint
    /\ \A s \in DOMAIN m.bins :
         /\ ToSet(m.bins[s]) \subseteq IsFree \ {m.dv}
         /\ Cardinality(ToSet(m.bins[s])) = Len(m.bins[s])

(* A chunk is in use exactly if its block is a user's, and a user's block  *)
(* has the bytes that were asked for, at a multiple of the alignment that  *)
(* was asked for, wherever the chunk it was cut out of starts.             *)
UsersHaveTheirBlocks ==
  /\ is_initialized(m) => {chunk2mem(q) : q \in InUse} = DOMAIN live
  /\ \A mem \in DOMAIN live :
       usable_size(mem) >= live[mem].bytes /\ mem % live[mem].align = 0

(* malloc fails only if no free chunk can hold the request: whatever the   *)
(* bins and dv look like, the cascade of cases overlooks nothing.  "Find   *)
(* the smallest available binned chunk that fits, and use it if it is      *)
(* better fitting than dv chunk": a large request splits no free chunk     *)
(* while a smaller one would do.                                           *)
Overlooks(bytes, mem) ==
  LET fits == {q \in IsFree : chunksize(m, q) >= ChunkSizeFor(bytes)}
  IN  \/ mem = 0 /\ (fits # {} \/ m.topsize > ChunkSizeFor(bytes))
      \/ /\ bytes > MAX_SMALL_REQUEST /\ fits # {}
         /\ \/ mem2chunk(mem) \notin fits
            \/ \E q \in fits : chunksize(m, mem2chunk(mem)) > chunksize(m, q)

FindsFreeMemory ==
  \A bytes \in program.requests :
    ~Overlooks(bytes, dlmalloc(m, bytes, <<FALSE, FALSE>>).mem)

(* A call that fails for lack of memory has changed nothing a later call   *)
(* depends on but the way MORECORE is called; in particular it has taken   *)
(* no memory from the system, and realloc has left the old block alone.    *)
FailureChangesNothing ==
  [][m'.enomem => /\ live' = live
                  /\ m'.brk = m.brk
                  /\ is_initialized(m) =>
                       /\ m'.footprint = m.footprint
                       /\ m'.head = m.head /\ m'.foot = m.foot /\ m'.bins = m.bins
                       /\ m'.top = m.top /\ m'.dv = m.dv]_vars

(* Memory from the system stays within a limit that was set.               *)
LimitIsKept ==
  [][m'.footprint > m.footprint /\ is_initialized(m) /\ m.footprint_limit # 0
       => m'.footprint <= m.footprint_limit]_vars

Users == INSTANCE Allocator WITH
  live <- [mem \in DOMAIN live |-> live[mem].bytes],
  Lowest <- 0, Highest <- MaxMemory, Overhead <- CHUNK_OVERHEAD, Align <- MALLOC_ALIGNMENT

(* Blocks neither overlap nor move nor shrink unless their owner asks.     *)
ImplementsAllocator == Users!Spec
=============================================================================
