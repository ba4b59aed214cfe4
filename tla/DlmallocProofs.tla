-------------------------- MODULE DlmallocProofs --------------------------
(***************************************************************************)
(* The allocator, proved for every program, every request, every amount of *)
(* memory and every answer of the system: first the calls that are made of *)
(* malloc, free and realloc, then the users' blocks, the actions, the      *)
(* inductive invariant, and what follows from it. The lemmas on malloc,    *)
(* free and realloc are in HeapProofs.                                     *)
(***************************************************************************)
EXTENDS HeapProofs

(* n has a chunk of a bytes at p for its user, and all that U has.         *)
Obtains(h, n, p, a, sz, U) ==
  /\ p \in Nat /\ p \notin U /\ Params(n) /\ n.enomem = h.enomem /\ Growth(h, n)
  /\ \E t : Heap(n, t, U \cup {p}) /\ t[p] >= a /\ Keeps(t, sz, U)

LEMMA NoGrowth ==
  ASSUME NEW h, NEW n, n.footprint = h.footprint, h.footprint \in Nat
  PROVE  Growth(h, n)
BY DEF Growth

LEMMA EndOfHeap ==
  ASSUME NEW h, NEW sz, NEW U, Params(h), Heap(h, sz, U), NEW p \in U
  PROVE  sz[p] \in Nat /\ sz[p] < MAX_SIZE_T
<1>1. p \in DOMAIN sz /\ End(h) \in Nat /\ End(h) < MAX_SIZE_T
  BY HeapFacts
<1>2. p \in Nat /\ sz[p] \in Nat /\ p + sz[p] <= End(h)
  BY <1>1, HeapFacts
<1>3. MAX_SIZE_T \in Int
  BY WordAssumption DEF MAX_SIZE_T
<1>4. QED
  BY <1>1, <1>2, <1>3

(* A request that no chunk can serve is never granted.                     *)
LEMMA GrantsObtain ==
  ASSUME NEW h, NEW r, NEW sz, NEW U, NEW bytes \in Nat, NEW nb, nb = ChunkSizeFor(bytes),
         Grants(h, r, nb, sz, U)
  PROVE  \E p : /\ r.mem = chunk2mem(p) /\ Obtains(h, r.m, p, nb, sz, U)
                /\ nb \in Nat /\ nb >= bytes + 4 /\ nb >= 16
<1>1. PICK p, t : /\ p \in Nat /\ r.mem = chunk2mem(p) /\ p \notin U
                   /\ Params(r.m) /\ Heap(r.m, t, U \cup {p})
                   /\ t[p] >= nb /\ Keeps(t, sz, U)
                   /\ r.m.enomem = h.enomem /\ Growth(h, r.m)
  BY DEF Grants
<1>2. Obtains(h, r.m, p, nb, sz, U)
  BY <1>1 DEF Obtains
<1>3. nb \in Nat /\ nb >= 16 /\ (nb # MAX_SIZE_T => nb >= bytes + 4)
  BY ChunkSizes DEF NbOK
<1>4. t[p] \in Nat /\ t[p] < MAX_SIZE_T
  BY <1>1, EndOfHeap
<1>5. nb # MAX_SIZE_T
  BY <1>1, <1>3, <1>4
<1>6. QED
  BY <1>1, <1>2, <1>3, <1>5

-----------------------------------------------------------------------------
(* realloc.                                                                *)

LEMMA ResizedObtains ==
  ASSUME NEW h, NEW n, NEW sz, NEW U, NEW p \in U, NEW nb, Params(h), Heap(h, sz, U),
         ResizedTo(n, h, Lo(h), End(h), sz, U, p, nb)
  PROVE  Obtains(h, n, p, nb, sz, U \ {p})
<1>1. PICK t : Freed(n, h, Lo(h), End(h), t, U) /\ t[p] >= nb /\ Keeps(t, sz, U \ {p})
  BY DEF ResizedTo
<1>2. Only(n, h, ChunkFields) /\ HeapOf(n, Lo(h), End(h), t, U) /\ Segment(h)
  BY <1>1 DEF Freed, Heap
<1>3. /\ Params(n) /\ Segment(n) /\ Lo(n) = Lo(h) /\ End(n) = End(h)
      /\ n.enomem = h.enomem /\ n.footprint = h.footprint
  BY <1>2, ChunksOnly
<1>4. Heap(n, t, U)
  BY <1>2, <1>3 DEF Heap
<1>5. Growth(h, n)
  BY <1>2, <1>3, NoGrowth DEF Segment
<1>6. (U \ {p}) \cup {p} = U /\ p \in Nat
  BY UsedPlace
<1>7. QED
  BY <1>1, <1>3, <1>4, <1>5, <1>6 DEF Obtains

TriedBy(r, h, sz, U, p, nb) ==
  \/ r.mem = p /\ Obtains(h, r.m, p, nb, sz, U \ {p})
  \/ r.mem = 0 /\ r.m = h

LEMMA RequestSizes ==
  ASSUME NEW bytes \in Nat, bytes < MAX_REQUEST, NEW nb, nb = request2size(bytes)
  PROVE  /\ nb \in Nat /\ nb >= 16 /\ nb % 8 = 0 /\ nb >= bytes + 4 /\ nb + 48 < WordSize
         /\ nb = ChunkSizeFor(bytes)
<1>1. nb = ChunkSizeFor(bytes)
  BY WordAssumption, Requests DEF ChunkSizeFor
<1>2. nb \in Nat /\ nb >= 16 /\ (nb # MAX_SIZE_T => nb >= bytes + 4)
  BY <1>1, ChunkSizes DEF NbOK
<1>3. nb # MAX_SIZE_T
  BY RequestSize
<1>4. QED
  BY <1>1, <1>2, <1>3, ChunkSizes DEF NbOK

LEMMA TryReallocOutcome ==
  ASSUME NEW h, NEW sz, NEW U, Params(h), Heap(h, sz, U), NEW p \in U,
         NEW nb \in Nat, nb >= 16, nb % 8 = 0
  PROVE  TriedBy(try_realloc_chunk(h, p, nb), h, sz, U, p, nb)
<1>1. /\ p # 0 /\ h.base \in Nat /\ h.base <= Lo(h) /\ HeapOf(h, Lo(h), End(h), sz, U)
      /\ Lo(h) \in Nat
  BY UsedPlace, HeapFacts
<1>2. Tried(try_realloc_chunk(h, p, nb), h, Lo(h), End(h), sz, U, p, nb)
  BY <1>1, TryReallocTries
<1>3. QED
  BY <1>2, ResizedObtains DEF Tried, TriedBy

LEMMA GivesKeeps ==
  ASSUME NEW h, NEW n, NEW sz, NEW W, Gives(h, n, sz, W), h.footprint \in Nat
  PROVE  n.enomem = h.enomem /\ n.footprint = h.footprint /\ n.brk = h.brk
         /\ n.footprint_limit = h.footprint_limit
BY ChunksOnly DEF Gives

LEMMA MovedObtains ==
  ASSUME NEW h, NEW k, NEW sz, NEW U, NEW p \in U, p \in Nat, NEW q, NEW nb, Obtains(h, k, q, nb, sz, U),
         NEW mem, mem = chunk2mem(p)
  PROVE  Obtains(h, dlfree(k, mem), q, nb, sz, U \ {p})
<1> DEFINE n == dlfree(k, mem)
           V == U \cup {q}
           W == V \ {p}
<1>1. q \in Nat /\ q \notin U /\ Params(k) /\ k.enomem = h.enomem /\ Growth(h, k)
  BY DEF Obtains
<1>2. PICK t : Heap(k, t, V) /\ t[q] >= nb /\ Keeps(t, sz, U)
  BY DEF Obtains
<1>3. Gives(k, n, t, W)
  <2>1. p \in V
    OBVIOUS
  <2> HIDE DEF V, n
  <2>2. QED
    BY <1>1, <1>2, <2>1, FreeGives DEF n
<1> HIDE DEF n
<1>4. PICK u : Heap(n, u, W) /\ Keeps(u, t, W)
  BY <1>3 DEF Gives
<1>5. k.footprint \in Nat
  BY <1>2 DEF Heap, Segment
<1>6. Params(n) /\ n.enomem = k.enomem /\ n.footprint = k.footprint
  BY <1>3, <1>5, GivesKeeps DEF Gives
<1>7. W = (U \ {p}) \cup {q} /\ q \in W
  BY <1>1
<1>8. u[q] >= nb /\ Keeps(u, sz, U \ {p})
  <2>1. u[q] = t[q]
    BY <1>4, <1>7 DEF Keeps
  <2>2. \A c \in U \ {p} : c \in W
    BY <1>7
  <2> HIDE DEF W
  <2>3. Keeps(u, sz, U \ {p})
    BY <1>2, <1>4, <2>2 DEF Keeps
  <2>4. QED
    BY <1>2, <2>1, <2>3
<1>9. Growth(h, n)
  BY <1>1, <1>6 DEF Growth
<1> HIDE DEF W
<1>10. Obtains(h, n, q, nb, sz, U \ {p})
  <2>1. Heap(n, u, (U \ {p}) \cup {q})
    BY <1>4, <1>7
  <2>2. QED
    BY <1>1, <1>6, <1>8, <1>9, <2>1 DEF Obtains
<1>11. QED
  BY <1>10 DEF n

(* The block of p is another now, if there was memory.                     *)
Reallocs(h, r, sz, U, p, nb) ==
  \/ \E q : r.mem = chunk2mem(q) /\ q \notin U \ {p} /\ Obtains(h, r.m, q, nb, sz, U \ {p})
  \/ Fails(h, r, sz, U)

LEMMA RefusedFails ==
  ASSUME NEW h, NEW sz, NEW U, Params(h), Heap(h, sz, U)
  PROVE  Fails(h, Failed(h), sz, U)
<1>1. Mem(h, sz, U) /\ IsState(h) /\ h.granularity # 0 /\ h.contiguous \in BOOLEAN
  BY DEF Mem, Heap, HeapOf, WellFormed, Segment, Params
<1>2. Only(h, h, {"contiguous"})
  BY <1>1 DEF Only
<1>3. QED
  BY <1>1, <1>2, FailedRefuses, RefusesFails

LEMMA ReallocOutcome ==
  ASSUME NEW h, NEW sz, NEW U, Params(h), Heap(h, sz, U), NEW p \in U,
         NEW bytes \in Nat, NEW env, NEW mem, mem = chunk2mem(p), NEW r, r = dlrealloc(h, mem, bytes, env)
  PROVE  \/ bytes < MAX_REQUEST /\ Reallocs(h, r, sz, U, p, request2size(bytes))
         \/ Fails(h, r, sz, U)
<1> DEFINE nb == request2size(bytes)
           x == try_realloc_chunk(h, p, nb)
<1>1. p \in Nat /\ mem # 0 /\ mem2chunk(mem) = p /\ p # 0
  <2>1. p \in Nat /\ p # 0
    BY UsedPlace
  <2>2. QED
    BY <2>1 DEF chunk2mem, mem2chunk, TWO_SIZE_T_SIZES
<1>2. CASE bytes >= MAX_REQUEST
  <2>1. r = Failed(h)
    BY <1>1, <1>2 DEF dlrealloc
  <2>2. QED
    BY <2>1, RefusedFails
<1>3. CASE ~(bytes >= MAX_REQUEST)
  <2>1. bytes < MAX_REQUEST
    BY <1>3, Requests
  <2>2. nb \in Nat /\ nb >= 16 /\ nb % 8 = 0 /\ nb = ChunkSizeFor(bytes)
    BY <2>1, RequestSizes
  <2>3. TriedBy(x, h, sz, U, p, nb)
    <3> HIDE DEF nb
    <3>1. QED
      BY <2>2, TryReallocOutcome
  <2>4. r = IF x.mem # 0 THEN Result(x.m, mem) ELSE MoveBlock(dlmalloc(x.m, bytes, env), mem)
    BY <1>1, <1>3 DEF dlrealloc
  <2> HIDE DEF x
  <2>5. CASE x.mem # 0
    <3>1. r.mem = chunk2mem(p) /\ Obtains(h, r.m, p, nb, sz, U \ {p})
      BY <2>3, <2>4, <2>5 DEF TriedBy, Result
    <3>2. QED
      BY <2>1, <3>1 DEF Reallocs
  <2>6. CASE x.mem = 0
    <3> DEFINE y == dlmalloc(h, bytes, env)
    <3>1. x.m = h
      BY <1>1, <2>3, <2>6 DEF TriedBy
    <3>2. r = MoveBlock(y, mem)
      BY <2>4, <2>6, <3>1
    <3>3. Mem(h, sz, U)
      BY DEF Mem
    <3> HIDE DEF nb
    <3>4. Grants(h, y, nb, sz, U) \/ Fails(h, y, sz, U)
      BY <2>2, <3>3, MallocOutcome
    <3> HIDE DEF y
    <3>5. CASE Fails(h, y, sz, U)
      <4>1. r = y
        BY <3>2, <3>5 DEF MoveBlock, Fails
      <4>2. QED
        BY <3>5, <4>1
    <3>6. CASE Grants(h, y, nb, sz, U)
      <4>1. PICK q : y.mem = chunk2mem(q) /\ Obtains(h, y.m, q, nb, sz, U)
        BY <2>2, <3>6, GrantsObtain
      <4>2. y.mem # 0
        BY <4>1 DEF Obtains, chunk2mem, TWO_SIZE_T_SIZES
      <4>3. r.mem = chunk2mem(q) /\ r.m = dlfree(y.m, mem)
        BY <3>2, <4>1, <4>2 DEF MoveBlock, Result
      <4>4. Obtains(h, r.m, q, nb, sz, U \ {p})
        BY <1>1, <4>1, <4>3, MovedObtains
      <4>5. q \notin U \ {p}
        BY <4>4 DEF Obtains
      <4>6. Reallocs(h, r, sz, U, p, nb)
        BY <4>3, <4>4, <4>5 DEF Reallocs
      <4>7. QED
        BY <2>1, <4>6 DEF nb
    <3>7. QED
      BY <3>4, <3>5, <3>6
  <2>7. QED
    BY <2>5, <2>6
<1>4. QED
  BY <1>2, <1>3

LEMMA ReallocInPlaceOutcome ==
  ASSUME NEW h, NEW sz, NEW U, Params(h), Heap(h, sz, U), NEW p \in U,
         NEW bytes \in Nat, NEW mem, mem = chunk2mem(p), NEW r, r = dlrealloc_in_place(h, mem, bytes)
  PROVE  \/ /\ bytes < MAX_REQUEST /\ r.mem = mem
            /\ Obtains(h, r.m, p, request2size(bytes), sz, U \ {p})
         \/ r.mem = 0 /\ r.m = h
         \/ Fails(h, r, sz, U)
<1> DEFINE nb == request2size(bytes)
           x == try_realloc_chunk(h, p, nb)
<1>1. p \in Nat /\ mem # 0 /\ mem2chunk(mem) = p /\ p # 0
  <2>1. p \in Nat /\ p # 0
    BY UsedPlace
  <2>2. QED
    BY <2>1 DEF chunk2mem, mem2chunk, TWO_SIZE_T_SIZES
<1>2. CASE bytes >= MAX_REQUEST
  <2>1. r = Failed(h)
    BY <1>1, <1>2 DEF dlrealloc_in_place
  <2>2. QED
    BY <2>1, RefusedFails
<1>3. CASE ~(bytes >= MAX_REQUEST)
  <2>1. bytes < MAX_REQUEST
    BY <1>3, Requests
  <2>2. nb \in Nat /\ nb >= 16 /\ nb % 8 = 0
    BY <2>1, RequestSizes
  <2>3. TriedBy(x, h, sz, U, p, nb)
    <3> HIDE DEF nb
    <3>1. QED
      BY <2>2, TryReallocOutcome
  <2>4. r = Result(x.m, IF x.mem = 0 THEN 0 ELSE mem)
    BY <1>1, <1>3 DEF dlrealloc_in_place
  <2> HIDE DEF x
  <2>5. QED
    BY <1>1, <2>1, <2>3, <2>4 DEF TriedBy, Result
<1>4. QED
  BY <1>2, <1>3

(* What alignments are, and where aligned chunks start.                    *)
IsAlignment(a) == a \in Nat /\ a >= 16 /\ a % 8 = 0

LEMMA AlignmentIs ==
  ASSUME NEW a \in Nat, \E x \in PowersOfTwo : a <= x
  PROVE  IsAlignment(Alignment(a)) /\ Alignment(a) >= a
<1> DEFINE S == {x \in PowersOfTwo : x >= a /\ x >= MIN_CHUNK_SIZE}
<1>1. S \subseteq Nat
  BY PowersOfTwoAre
<1>2. S # {}
  <2>1. PICK x \in PowersOfTwo : a <= x
    OBVIOUS
  <2>2. x \in Nat /\ PageSize \in PowersOfTwo /\ PageSize \in Nat /\ PageSize >= 16
    BY <2>1, PowersOfTwoAre, Pages
  <2>3. x >= 16 \/ PageSize >= a
    BY <2>1, <2>2
  <2>4. QED
    BY <2>1, <2>2, <2>3, MinChunkSize
<1>3. Alignment(a) = Min(S)
  BY DEF Alignment
<1> HIDE DEF S
<1>4. Min(S) \in S
  BY <1>1, <1>2, MinIs
<1>5. QED
  BY <1>3, <1>4, PowersOfTwoAre, MinChunkSize DEF S, IsAlignment

LEMMA AlignedSpotIs ==
  ASSUME NEW p \in Nat, p % 8 = 0, NEW a, IsAlignment(a), chunk2mem(p) % a # 0,
         p + 8 + a - 1 < WordSize, NEW q, q = AlignedSpot(p, a)
  PROVE  /\ q \in Nat /\ q % 8 = 0 /\ q >= p + 16 /\ q <= p + (a + 8) /\ chunk2mem(q) % a = 0
<1> DEFINE b == chunk2mem(p)
           u == AlignUp(b, a)
<1>1. /\ a \in Nat \ {0} /\ a \in Nat /\ a >= 16 /\ a % 8 = 0
      /\ b = p + 8 /\ b \in Nat /\ b % 8 = 0 /\ b + a - 1 < WordSize
  <2>1. a \in Nat /\ a >= 16 /\ a % 8 = 0
    BY DEF IsAlignment
  <2>2. b = p + 8
    BY DEF chunk2mem, TWO_SIZE_T_SIZES
  <2>3. b + a - 1 = p + 8 + a - 1
    BY <2>1, <2>2
  <2>4. QED
    BY <2>1, <2>2, <2>3
<1> HIDE DEF b
<1>2. u \in Nat /\ u % a = 0 /\ b <= u /\ u <= b + a - 1
  BY <1>1, AlignUpIs
<1> HIDE DEF u
<1>3. u % 8 = 0
  BY <1>1, <1>2, DividesEight
<1>4. u # b
  BY <1>2 DEF b
<1>5. u >= p + 16 /\ u <= p + 7 + a
  BY <1>1, <1>2, <1>3, <1>4
<1>6. mem2chunk(u) = u - 8
  BY DEF mem2chunk, TWO_SIZE_T_SIZES
<1>7. CASE u - 8 - p >= 16
  <2>1. q = u - 8
    BY <1>6, <1>7, MinChunkSize DEF AlignedSpot, u, b
  <2>2. chunk2mem(q) = u
    BY <1>2, <2>1 DEF chunk2mem, TWO_SIZE_T_SIZES
  <2>3. q \in Nat /\ q % 8 = 0 /\ q >= p + 16 /\ q <= p + (a + 8)
    <3>1. q % 8 = 0
      BY <1>2, <1>3, <2>1
    <3>2. q \in Nat /\ q >= p + 16
      BY <1>2, <1>7, <2>1
    <3>3. q <= p + (a + 8)
      BY <1>1, <1>2, <1>5, <2>1
    <3>4. QED
      BY <3>1, <3>2, <3>3
  <2>4. QED
    BY <1>2, <2>2, <2>3
<1>8. CASE ~(u - 8 - p >= 16)
  <2>1. q = u - 8 + a
    BY <1>6, <1>8, MinChunkSize DEF AlignedSpot, u, b
  <2>2. u = p + 16
    <3>1. u < p + 24
      BY <1>2, <1>8
    <3>2. \E i \in Nat : u = i * 8
      BY <1>2, <1>3, MultipleOf
    <3>3. \E i \in Nat : p = i * 8
      BY MultipleOf
    <3>4. PICK i \in Nat, j \in Nat : u = i * 8 /\ p = j * 8
      BY <3>2, <3>3
    <3>5. u >= p + 16
      BY <1>5
    <3>6. i * 8 >= j * 8 + 16 /\ i * 8 < j * 8 + 24
      BY <3>1, <3>4, <3>5
    <3>7. QED
      BY <3>4, <3>6
  <2>3. chunk2mem(q) = u + a
    BY <1>1, <1>2, <2>1 DEF chunk2mem, TWO_SIZE_T_SIZES
  <2>4. (u + a) % a = 0
    <3>1. a % a = 0
      BY <1>1
    <3>2. QED
      BY <1>1, <1>2, <3>1, SumOfMultiples
  <2>5. q \in Nat /\ q % 8 = 0 /\ q >= p + 16 /\ q <= p + (a + 8)
    <3>1. q = p + (a + 8)
      BY <1>1, <2>1, <2>2
    <3>2. (a + 8) % 8 = 0 /\ a + 8 \in Nat
      BY <1>1
    <3>3. (p + (a + 8)) % 8 = 0
      BY <1>1, <3>2, SumOfMultiples
    <3>4. QED
      BY <1>1, <3>1, <3>3
  <2>6. QED
    BY <2>3, <2>4, <2>5
<1>9. QED
  BY <1>7, <1>8

(* What is in front of q is given back.                                    *)
LeaderGone(n, k, lo, e, sz, V, p, q, b) ==
  /\ q \notin V
  /\ \E u : /\ Freed(n, k, lo, e, u, (V \cup {q}) \ {p})
            /\ u[q] = b /\ Keeps(u, sz, V \ {p})

LEMMA LeaderGoes ==
  ASSUME NEW k, NEW lo, NEW e, NEW sz, NEW V, HeapOf(k, lo, e, sz, V), NEW p \in V, p # 0,
         NEW s, s = sz[p], NEW a \in Nat, NEW b \in Nat, a >= 16, b >= 16, a % 8 = 0, a + b = s,
         NEW q, q = p + a, k.base \in Nat, k.base <= lo,
         NEW n, n = dispose_chunk(set_inuse(set_inuse(k, q, b), p, a), p, a)
  PROVE  LeaderGone(n, k, lo, e, sz, V, p, q, b)
<1> DEFINE j == set_inuse(set_inuse(k, q, b), p, a)
           pin == pinuse(k, p)
           c == CutChunk(sz, p, a)
           X == V \cup {q}
           W == X \ {p}
<1>1. /\ p \in DOMAIN sz /\ p \in Nat /\ p # e /\ s \in Nat /\ p + s \in DOMAIN sz /\ p + s # e
      /\ chunksize(k, p) = s
  BY UsedFacts
<1>2. /\ Layout(k.head, k.foot, k.bins, k.dv, k.dvsize, lo, e, k.top, sz, V, e) /\ WellFormed(k)
  BY DEF HeapOf
<1>3. p \in DOMAIN k.head /\ e \in Nat /\ p + s \in Nat /\ p + s <= e
  BY <1>1, <1>2, ChunkFacts
<1>4. HasNext(k, q + b, e) /\ q # e /\ a > 0 /\ b > 0
  <2>1. q + b = p + s
    BY <1>1
  <2>2. HasNext(k, p + s, e)
    BY <1>1, <1>2, ChunkFacts DEF HasNext
  <2>3. q # e
    BY <1>1, <1>3
  <2>4. QED
    BY <2>1, <2>2, <2>3
<1>5. pin \in BOOLEAN
  BY <1>2, HeadAtType
<1>6. UsedTwice(k, j, e, p, a, pin, q, b)
  <2> HIDE DEF pin
  <2>1. pin <=> pinuse(k, p)
    BY DEF pin
  <2>2. QED
    BY <1>1, <1>2, <1>3, <1>4, <1>5, <2>1, SecondThenFirst
<1> HIDE DEF j
<1>7. Spread(k, k, p, s, lo, e, sz, V)
  BY SpreadOpens
<1>8. CutSpreads(j, k, lo, e, sz, V, p, a, q, b, c)
  <2> HIDE DEF pin
  <2>1. pin <=> pinuse(k, p)
    BY DEF pin
  <2>2. QED
    BY <1>5, <1>6, <1>7, <2>1, SpreadCuts
<1> HIDE DEF c
<1>9. /\ HeapOf(j, lo, e, c, X) /\ Only(j, k, ChunkFields)
      /\ c[p] = a /\ c[q] = b /\ Keeps(c, sz, V \ {p}) /\ q \notin V /\ q # 0 /\ p # q
  BY <1>8 DEF CutSpreads
<1>10. j.base = k.base
  BY <1>9, BaseKept
<1>11. Released(n, j, lo, e, c, W)
  <2>1. p \in X /\ a = c[p] /\ j.base \in Nat /\ j.base <= lo
    BY <1>9, <1>10
  <2>2. n = dispose_chunk(j, p, a)
    BY DEF j
  <2> HIDE DEF X
  <2>3. Released(dispose_chunk(j, p, a), j, lo, e, c, X \ {p})
    BY <1>9, <2>1, DisposeReleases
  <2>4. QED
    BY <2>2, <2>3
<1>12. PICK u : Freed(n, j, lo, e, u, W) /\ Keeps(u, c, W)
  BY <1>11 DEF Released
<1>13. q \in W /\ V \ {p} \subseteq W
  BY <1>9
<1> HIDE DEF X
<1>14. u[q] = b /\ Keeps(u, sz, V \ {p})
  <2> HIDE DEF W
  <2>1. QED
    BY <1>9, <1>12, <1>13 DEF Keeps
<1>15. Freed(n, k, lo, e, u, W)
  BY <1>9, <1>12, OnlyTransitive DEF Freed
<1>16. QED
  BY <1>9, <1>14, <1>15 DEF X, LeaderGone

LEMMA LeaderObtains ==
  ASSUME NEW h, NEW k, NEW p, NEW need, NEW sz, NEW U, Obtains(h, k, p, need, sz, U),
         NEW q \in Nat, NEW nb \in Nat, nb >= 16, NEW a \in Nat, a = q - p, a >= 16, a % 8 = 0,
         need \in Nat, need >= nb + a
  PROVE  Obtains(h, GiveBackLeader(k, p, q), q, nb, sz, U)
<1> DEFINE V == U \cup {p}
           n == GiveBackLeader(k, p, q)
           W == (V \cup {q}) \ {p}
<1>1. p \in Nat /\ p \notin U /\ Params(k) /\ k.enomem = h.enomem /\ Growth(h, k)
  BY DEF Obtains
<1>2. PICK t : Heap(k, t, V) /\ t[p] >= need /\ Keeps(t, sz, U)
  BY DEF Obtains
<1>3. p \in V
  OBVIOUS
<1> HIDE DEF V
<1>4. /\ p # 0 /\ k.base \in Nat /\ k.base <= Lo(k) /\ HeapOf(k, Lo(k), End(k), t, V)
      /\ Segment(k)
  BY <1>1, <1>2, <1>3, UsedPlace
<1> DEFINE s == t[p]
           b == s - a
<1>5. s \in Nat /\ chunksize(k, p) = s
  BY <1>3, <1>4, UsedFacts
<1>6. b \in Nat /\ b >= nb /\ b >= 16 /\ a + b = s /\ q = p + a
  BY <1>1, <1>2, <1>5
<1>7. n = dispose_chunk(set_inuse(set_inuse(k, q, b), p, a), p, a)
  BY <1>5 DEF GiveBackLeader
<1> HIDE DEF s, b, n
<1>8. LeaderGone(n, k, Lo(k), End(k), t, V, p, q, b)
  <2>1. s = t[p]
    BY DEF s
  <2>2. QED
    BY <1>3, <1>4, <1>6, <1>7, <2>1, LeaderGoes
<1>9. PICK u : Freed(n, k, Lo(k), End(k), u, W) /\ u[q] = b /\ Keeps(u, t, V \ {p})
  BY <1>8 DEF LeaderGone
<1>10. W = U \cup {q} /\ V \ {p} = U /\ q \notin U
  BY <1>1, <1>8 DEF V, LeaderGone
<1> HIDE DEF W
<1>11. /\ Params(n) /\ Segment(n) /\ Lo(n) = Lo(k) /\ End(n) = End(k)
       /\ n.enomem = k.enomem /\ n.footprint = k.footprint
  BY <1>1, <1>4, <1>9, ChunksOnly DEF Freed
<1>12. Heap(n, u, U \cup {q})
  BY <1>9, <1>10, <1>11 DEF Freed, Heap
<1>13. Growth(h, n)
  BY <1>1, <1>11 DEF Growth
<1>14. Keeps(u, sz, U)
  BY <1>2, <1>9, <1>10 DEF Keeps
<1>15. u[q] >= nb
  BY <1>6, <1>9
<1>16. Obtains(h, n, q, nb, sz, U)
  BY <1>1, <1>10, <1>11, <1>12, <1>13, <1>14, <1>15 DEF Obtains
<1>17. QED
  BY <1>16 DEF n

LEMMA FailedFails ==
  ASSUME NEW h, NEW sz, NEW U, Mem(h, sz, U)
  PROVE  Fails(h, Failed(h), sz, U)
<1>1. CASE Heap(h, sz, U)
  BY <1>1, RefusedFails DEF Mem
<1>2. CASE NoHeap(h) /\ U = {}
  <2> DEFINE n == EnomemSet(h, TRUE)
  <2>1. Failed(h) = Result(n, 0)
    BY DEF Failed, MALLOC_FAILURE_ACTION, EnomemSet
  <2>2. IsState(h)
    BY <1>2 DEF NoHeap, WellFormed
  <2>3. Only(n, h, {"contiguous", "enomem"}) /\ n.enomem /\ n.contiguous = h.contiguous
    BY <2>2, WithEnomem
  <2> HIDE DEF n
  <2>4. Only(n, h, {"contiguous", "enomem", "footprint_limit", "trim_check", "trim_threshold",
                    "granularity"})
    BY <2>3 DEF Only
  <2>5. NoHeap(n)
    BY <1>2, <2>4, NoHeapFrame
  <2>6. Params(n) /\ n.brk = h.brk /\ n.footprint = h.footprint
    BY <2>3 DEF Only, FieldNames, Params, Mem
  <2>7. Mem(n, sz, U) /\ Keeps(sz, sz, U)
    BY <1>2, <2>5, <2>6 DEF Mem, Keeps
  <2>8. Growth(h, n)
    BY <1>2, <2>6, NoGrowth DEF NoHeap
  <2>9. Fails(h, Result(n, 0), sz, U)
    BY <2>3, <2>6, <2>7, <2>8 DEF Fails, Result
  <2>10. QED
    BY <2>1, <2>9
<1>3. QED
  BY <1>1, <1>2 DEF Mem

(* What is behind the block is given back.                                 *)
LEMMA TrailerObtains ==
  ASSUME NEW h, NEW k, NEW p, NEW nb \in Nat, nb >= 16, nb % 8 = 0, NEW sz, NEW U,
         Obtains(h, k, p, nb, sz, U), NEW r, r = WithoutTrailer(k, p, nb)
  PROVE  r.mem = chunk2mem(p) /\ Obtains(h, r.m, p, nb, sz, U)
<1> DEFINE V == U \cup {p}
<1>1. p \in Nat /\ p \notin U /\ Params(k) /\ k.enomem = h.enomem /\ Growth(h, k)
  BY DEF Obtains
<1>2. PICK t : Heap(k, t, V) /\ t[p] >= nb /\ Keeps(t, sz, U)
  BY DEF Obtains
<1>3. p \in V /\ V \ {p} = U
  BY <1>1
<1> HIDE DEF V
<1>4. /\ p # 0 /\ k.base \in Nat /\ k.base <= Lo(k) /\ HeapOf(k, Lo(k), End(k), t, V)
      /\ Segment(k)
  BY <1>1, <1>2, <1>3, UsedPlace
<1> DEFINE s == t[p]
           rest == s - nb
           n == IF s > nb + MIN_CHUNK_SIZE THEN GiveBackTail(k, p, nb, rest) ELSE k
<1>5. s \in Nat /\ chunksize(k, p) = s
  BY <1>3, <1>4, UsedFacts
<1>6. r = Result(n, chunk2mem(p))
  BY <1>5 DEF WithoutTrailer
<1>7. ResizedTo(n, k, Lo(k), End(k), t, V, p, nb)
  <2>1. CASE s > nb + MIN_CHUNK_SIZE
    <3>1. rest \in Nat /\ rest >= 16 /\ nb + rest = s
      BY <1>5, <2>1, MinChunkSize
    <3>2. Keeps(t, t, V \ {p})
      BY DEF Keeps
    <3>3. Spread(k, k, p, s, Lo(k), End(k), t, V)
      BY <1>3, <1>4, SpreadOpens
    <3> HIDE DEF rest, s
    <3>4. ResizedTo(GiveBackTail(k, p, nb, rest), k, Lo(k), End(k), t, V, p, nb)
      BY <1>4, <3>1, <3>2, <3>3, GiveBackTailResizes
    <3>5. QED
      BY <2>1, <3>4
  <2>2. CASE ~(s > nb + MIN_CHUNK_SIZE)
    BY <1>2, <1>3, <1>4, <2>2, ResizedByNothing
  <2>3. QED
    BY <2>1, <2>2
<1> HIDE DEF n
<1>8. PICK u : Freed(n, k, Lo(k), End(k), u, V) /\ u[p] >= nb /\ Keeps(u, t, V \ {p})
  BY <1>7 DEF ResizedTo
<1>9. /\ Params(n) /\ Segment(n) /\ Lo(n) = Lo(k) /\ End(n) = End(k)
      /\ n.enomem = k.enomem /\ n.footprint = k.footprint
  BY <1>1, <1>4, <1>8, ChunksOnly DEF Freed
<1>10. Heap(n, u, V)
  BY <1>8, <1>9 DEF Freed, Heap
<1>11. Growth(h, n)
  BY <1>1, <1>9 DEF Growth
<1>12. Keeps(u, sz, U)
  BY <1>2, <1>3, <1>8 DEF Keeps
<1>13. Obtains(h, n, p, nb, sz, U)
  BY <1>1, <1>8, <1>9, <1>10, <1>11, <1>12 DEF Obtains, V
<1>14. QED
  BY <1>6, <1>13 DEF Result

LEMMA ObtainsLess ==
  ASSUME NEW h, NEW n, NEW p, NEW a \in Int, NEW b \in Int, b <= a, NEW sz, NEW U, Obtains(h, n, p, a, sz, U)
  PROVE  Obtains(h, n, p, b, sz, U)
<1>1. PICK t : Heap(n, t, U \cup {p}) /\ t[p] >= a /\ Keeps(t, sz, U)
  BY DEF Obtains
<1>2. t[p] \in Nat
  <2>1. Params(n)
    BY DEF Obtains
  <2>2. p \in U \cup {p}
    OBVIOUS
  <2> DEFINE V == U \cup {p}
  <2> HIDE DEF V
  <2>3. Heap(n, t, V) /\ p \in V
    BY <1>1, <2>2 DEF V
  <2>4. QED
    BY <2>1, <2>3, EndOfHeap
<1>3. t[p] >= b
  BY <1>1, <1>2
<1>4. QED
  BY <1>1, <1>3 DEF Obtains

(* Where a chunk is that somebody obtains.                                 *)
LEMMA ObtainedPlace ==
  ASSUME NEW h, NEW k, NEW p, NEW a \in Nat, NEW sz, NEW U, Obtains(h, k, p, a, sz, U)
  PROVE  p \in Nat /\ p # 0 /\ p % 8 = 0 /\ p + a < WordSize
<1> DEFINE V == U \cup {p}
<1>1. PICK t : Heap(k, t, V) /\ t[p] >= a
  BY DEF Obtains
<1>2. p \in V /\ Params(k)
  BY DEF Obtains
<1> HIDE DEF V
<1>3. p \in Nat /\ p # 0 /\ p % 8 = 0
  BY <1>1, <1>2, UsedPlace
<1>4. p \in DOMAIN t
  BY <1>1, <1>2, HeapFacts
<1>5. t[p] \in Nat /\ p + t[p] <= End(k) /\ End(k) \in Nat /\ End(k) < MAX_SIZE_T
  BY <1>1, <1>2, <1>4, HeapFacts
<1>6. MAX_SIZE_T = WordSize - 1 /\ WordSize \in Nat
  BY Requests DEF MAX_SIZE_T
<1>7. QED
  BY <1>1, <1>3, <1>5, <1>6

(* The block starts at a multiple of the alignment.                        *)
Aligns(h, r, nb, a, sz, U) ==
  \E q : r.mem = q /\ chunk2mem(q) % a = 0 /\ Obtains(h, r.m, q, nb, sz, U)

LEMMA LeaderAligns ==
  ASSUME NEW h, NEW k, NEW p, NEW need \in Nat, NEW sz, NEW U, Obtains(h, k, p, need, sz, U),
         NEW nb \in Nat, nb >= 16, nb % 8 = 0, NEW a, IsAlignment(a), need >= nb + (a + 16)
  PROVE  Aligns(h, WithoutLeader(k, p, a), nb, a, sz, U)
<1>1. p \in Nat /\ p # 0 /\ p % 8 = 0 /\ p + need < WordSize
  BY ObtainedPlace
<1>2. a \in Nat /\ a >= 16 /\ a % 8 = 0
  BY DEF IsAlignment
<1>3. CASE chunk2mem(p) % a = 0
  <2>1. WithoutLeader(k, p, a) = Result(k, p)
    BY <1>3 DEF WithoutLeader
  <2>2. Obtains(h, k, p, nb, sz, U)
    <3>1. need \in Int /\ nb \in Int /\ nb <= need
      BY <1>2
    <3>2. QED
      BY <3>1, ObtainsLess
  <2>3. QED
    BY <1>3, <2>1, <2>2 DEF Aligns, Result
<1>4. CASE chunk2mem(p) % a # 0
  <2> DEFINE q == AlignedSpot(p, a)
             d == q - p
  <2>1. WithoutLeader(k, p, a) = Result(GiveBackLeader(k, p, q), q)
    BY <1>4 DEF WithoutLeader
  <2>2. p + 8 + a - 1 < WordSize /\ WordSize \in Nat
    BY <1>1, <1>2, Requests
  <2>3. q \in Nat /\ q % 8 = 0 /\ q >= p + 16 /\ q <= p + (a + 8) /\ chunk2mem(q) % a = 0
    BY <1>1, <1>4, <2>2, AlignedSpotIs
  <2> HIDE DEF q
  <2>4. d \in Nat /\ d >= 16 /\ d <= a + 8 /\ d = q - p
    BY <1>1, <1>2, <2>3
  <2>5. d % 8 = 0
    BY <1>1, <2>3, <2>4
  <2> HIDE DEF d
  <2>6. need >= nb + d
    BY <1>2, <2>4
  <2>7. Obtains(h, GiveBackLeader(k, p, q), q, nb, sz, U)
    BY <2>3, <2>4, <2>5, <2>6, LeaderObtains
  <2>8. QED
    BY <2>1, <2>3, <2>7 DEF Aligns, Result
<1>5. QED
  BY <1>3, <1>4

-----------------------------------------------------------------------------
(* memalign.                                                               *)

Memaligns(h, r, a, nb, sz, U) ==
  \E q : r.mem = chunk2mem(q) /\ r.mem % a = 0 /\ Obtains(h, r.m, q, nb, sz, U)

LEMMA CutOutMemaligns ==
  ASSUME NEW h, NEW got, NEW sz, NEW U, NEW nb \in Nat, nb >= 16, nb % 8 = 0,
         NEW a, IsAlignment(a), NEW req \in Nat, req = nb + (a + 12),
         NEW size, size = ChunkSizeFor(req), Grants(h, got, size, sz, U),
         NEW r, r = LET w == WithoutLeader(got.m, mem2chunk(got.mem), a)
                    IN  WithoutTrailer(w.m, w.mem, nb)
  PROVE  got.mem # 0 /\ Memaligns(h, r, a, nb, sz, U)
<1>1. PICK p : /\ got.mem = chunk2mem(p) /\ Obtains(h, got.m, p, size, sz, U)
               /\ size \in Nat /\ size >= req + 4
  BY GrantsObtain
<1>2. p \in Nat /\ a \in Nat
  BY <1>1 DEF Obtains, IsAlignment
<1>3. got.mem # 0 /\ mem2chunk(got.mem) = p
  BY <1>1, <1>2 DEF chunk2mem, mem2chunk, TWO_SIZE_T_SIZES
<1>4. size >= nb + (a + 16)
  BY <1>1, <1>2
<1>5. Aligns(h, WithoutLeader(got.m, p, a), nb, a, sz, U)
  BY <1>1, <1>4, LeaderAligns
<1> DEFINE w == WithoutLeader(got.m, p, a)
<1>6. r = WithoutTrailer(w.m, w.mem, nb)
  BY <1>3
<1> HIDE DEF w
<1>7. PICK q : w.mem = q /\ chunk2mem(q) % a = 0 /\ Obtains(h, w.m, q, nb, sz, U)
  BY <1>5 DEF Aligns, w
<1>8. r.mem = chunk2mem(q) /\ Obtains(h, r.m, q, nb, sz, U)
  BY <1>6, <1>7, TrailerObtains
<1>9. QED
  BY <1>3, <1>7, <1>8 DEF Memaligns

LEMMA MemalignOutcome ==
  ASSUME NEW h, NEW sz, NEW U, Mem(h, sz, U), NEW a \in Nat, \E x \in PowersOfTwo : a <= x,
         NEW bytes \in Nat, NEW env, NEW r, r = internal_memalign(h, a, bytes, env)
  PROVE  \/ bytes < MAX_REQUEST /\ Memaligns(h, r, Alignment(a), request2size(bytes), sz, U)
         \/ Fails(h, r, sz, U)
<1> DEFINE al == Alignment(a)
           nb == request2size(bytes)
           req == RequestWithLeader(nb, al)
           got == dlmalloc(h, req, env)
           w == WithoutLeader(got.m, mem2chunk(got.mem), al)
           cut == WithoutTrailer(w.m, w.mem, nb)
<1>1. IsAlignment(al) /\ al \in Nat
  BY AlignmentIs DEF IsAlignment
<1>2. r = IF bytes >= MAX_REQUEST - al THEN Failed(h) ELSE IF got.mem = 0 THEN got ELSE cut
  BY DEF internal_memalign
<1> HIDE DEF al
<1>3. CASE bytes >= MAX_REQUEST - al
  BY <1>2, <1>3, FailedFails
<1>4. CASE ~(bytes >= MAX_REQUEST - al)
  <2>1. bytes < MAX_REQUEST
    BY <1>1, <1>4, Requests
  <2>2. nb \in Nat /\ nb >= 16 /\ nb % 8 = 0
    BY <2>1, RequestSizes
  <2> HIDE DEF nb
  <2>3. req = nb + (al + 12) /\ req \in Nat
    BY <1>1, <2>2, MinChunkSize DEF RequestWithLeader, CHUNK_OVERHEAD, SIZE_T_SIZE
  <2> HIDE DEF req
  <2> DEFINE size == ChunkSizeFor(req)
  <2>4. Grants(h, got, size, sz, U) \/ Fails(h, got, sz, U)
    BY <2>3, MallocOutcome
  <2> HIDE DEF size
  <2>5. size = ChunkSizeFor(req)
    BY DEF size
  <2> HIDE DEF got
  <2>6. CASE Grants(h, got, size, sz, U)
    <3>1. got.mem # 0 /\ Memaligns(h, cut, al, nb, sz, U)
      BY <1>1, <2>2, <2>3, <2>5, <2>6, CutOutMemaligns
    <3>2. QED
      BY <1>2, <1>4, <2>1, <3>1 DEF al, nb
  <2>7. CASE Fails(h, got, sz, U)
    <3>1. got.mem = 0
      BY <2>7 DEF Fails
    <3>2. QED
      BY <1>2, <1>4, <2>7, <3>1
  <2>8. QED
    BY <2>4, <2>6, <2>7
<1>5. QED
  BY <1>3, <1>4

(* What a call that allocates comes to: a block, or none and errno, or none. *)
Delivers(h, r, bytes, a, sz, U) ==
  \E q : r.mem = chunk2mem(q) /\ r.mem % a = 0 /\ Obtains(h, r.m, q, bytes + 4, sz, U)
Declines(h, r, sz, U) ==
  r.mem = 0 /\ r.m.enomem = h.enomem /\ Growth(h, r.m) /\ Mem(r.m, sz, U)
Outcome(h, r, bytes, a, sz, U) ==
  Delivers(h, r, bytes, a, sz, U) \/ Fails(h, r, sz, U) \/ Declines(h, r, sz, U)

LEMMA MallocDelivers ==
  ASSUME NEW h, NEW sz, NEW U, Mem(h, sz, U), NEW bytes \in Nat, NEW env,
         NEW r, r = dlmalloc(h, bytes, env)
  PROVE  /\ Delivers(h, r, bytes, 8, sz, U) \/ Fails(h, r, sz, U)
         /\ bytes = MAX_SIZE_T => Fails(h, r, sz, U)
<1> DEFINE nb == ChunkSizeFor(bytes)
<1>1. Grants(h, r, nb, sz, U) \/ Fails(h, r, sz, U)
  BY MallocOutcome
<1>2. CASE Grants(h, r, nb, sz, U)
  <2>1. PICK p : /\ r.mem = chunk2mem(p) /\ Obtains(h, r.m, p, nb, sz, U)
                 /\ nb \in Nat /\ nb >= bytes + 4
    BY <1>2, GrantsObtain
  <2> HIDE DEF nb
  <2>2. p \in Nat /\ p # 0 /\ p % 8 = 0 /\ p + nb < WordSize
    BY <2>1, ObtainedPlace
  <2>3. Obtains(h, r.m, p, bytes + 4, sz, U)
    <3>1. nb \in Int /\ bytes + 4 \in Int /\ bytes + 4 <= nb
      BY <2>1
    <3>2. QED
      BY <2>1, <3>1, ObtainsLess
  <2>4. r.mem % 8 = 0
    BY <2>1, <2>2 DEF chunk2mem, TWO_SIZE_T_SIZES
  <2>5. Delivers(h, r, bytes, 8, sz, U)
    BY <2>1, <2>3, <2>4 DEF Delivers
  <2>6. bytes # MAX_SIZE_T
    BY <2>1, <2>2, Requests DEF MAX_SIZE_T
  <2>7. QED
    BY <2>5, <2>6
<1>3. QED
  BY <1>1, <1>2

LEMMA MemalignsDelivers ==
  ASSUME NEW h, NEW r, NEW sz, NEW U, NEW bytes \in Nat, bytes < MAX_REQUEST, NEW a,
         Memaligns(h, r, a, request2size(bytes), sz, U)
  PROVE  Delivers(h, r, bytes, a, sz, U)
<1> DEFINE nb == request2size(bytes)
<1>1. PICK q : r.mem = chunk2mem(q) /\ r.mem % a = 0 /\ Obtains(h, r.m, q, nb, sz, U)
  BY DEF Memaligns
<1>2. nb \in Nat /\ nb >= bytes + 4
  BY RequestSizes
<1> HIDE DEF nb
<1>3. Obtains(h, r.m, q, bytes + 4, sz, U)
  <2>1. nb \in Int /\ bytes + 4 \in Int /\ bytes + 4 <= nb
    BY <1>2
  <2>2. QED
    BY <1>1, <2>1, ObtainsLess
<1>4. QED
  BY <1>1, <1>3 DEF Delivers

LEMMA InternalMemalignDelivers ==
  ASSUME NEW h, NEW sz, NEW U, Mem(h, sz, U), NEW a \in Nat, \E x \in PowersOfTwo : a <= x,
         NEW bytes \in Nat, NEW env, NEW r, r = internal_memalign(h, a, bytes, env)
  PROVE  Delivers(h, r, bytes, Alignment(a), sz, U) \/ Fails(h, r, sz, U)
BY MemalignOutcome, MemalignsDelivers

(* The alignment a user relies on.                                         *)
AlignFor(a) == IF a <= MALLOC_ALIGNMENT THEN MALLOC_ALIGNMENT ELSE Alignment(a)

LEMMA MemalignDelivers ==
  ASSUME NEW h, NEW sz, NEW U, Mem(h, sz, U), NEW a \in Nat, \E x \in PowersOfTwo : a <= x,
         NEW bytes \in Nat, NEW env, NEW r, r = dlmemalign(h, a, bytes, env)
  PROVE  Delivers(h, r, bytes, AlignFor(a), sz, U) \/ Fails(h, r, sz, U)
<1>1. CASE a <= MALLOC_ALIGNMENT
  <2>1. r = dlmalloc(h, bytes, env) /\ AlignFor(a) = 8
    BY <1>1 DEF dlmemalign, AlignFor, MALLOC_ALIGNMENT
  <2>2. QED
    BY <2>1, MallocDelivers
<1>2. CASE ~(a <= MALLOC_ALIGNMENT)
  <2>1. r = internal_memalign(h, a, bytes, env) /\ AlignFor(a) = Alignment(a)
    BY <1>2 DEF dlmemalign, AlignFor
  <2>2. QED
    BY <2>1, InternalMemalignDelivers
<1>3. QED
  BY <1>1, <1>2

LEMMA NothingDone ==
  ASSUME NEW h, NEW sz, NEW U, Mem(h, sz, U), NEW r, r.m = h, r.mem = 0
  PROVE  Declines(h, r, sz, U)
<1>1. h.footprint \in Nat
  BY DEF Mem, Heap, Segment, NoHeap
<1>2. Growth(h, h)
  BY <1>1, NoGrowth
<1>3. QED
  BY <1>2 DEF Declines

(* What is known of r is known of a result with the same state and address. *)
LEMMA SameOutcome ==
  ASSUME NEW h, NEW r, NEW q, r.m = q.m, r.mem = q.mem, NEW bytes, NEW a, NEW sz, NEW U,
         Outcome(h, q, bytes, a, sz, U)
  PROVE  Outcome(h, r, bytes, a, sz, U)
<1>1. CASE Delivers(h, q, bytes, a, sz, U)
  BY <1>1 DEF Delivers, Outcome
<1>2. CASE Fails(h, q, sz, U)
  BY <1>2 DEF Fails, Outcome
<1>3. CASE Declines(h, q, sz, U)
  BY <1>3 DEF Declines, Outcome
<1>4. QED
  BY <1>1, <1>2, <1>3 DEF Outcome

LEMMA PosixMemalignOutcome ==
  ASSUME NEW h, NEW sz, NEW U, Mem(h, sz, U), NEW a \in Nat, \E x \in PowersOfTwo : a <= x,
         NEW bytes \in Nat, NEW env, NEW r, r = dlposix_memalign(h, a, bytes, env)
  PROVE  Outcome(h, r, bytes, AlignFor(a), sz, U)
<1> DEFINE d == a \div SIZE_T_SIZE
           bad == a # MALLOC_ALIGNMENT /\ (a % SIZE_T_SIZE # 0 \/ d \notin PowersOfTwo)
           q == IF a = MALLOC_ALIGNMENT THEN dlmalloc(h, bytes, env)
                ELSE IF bytes <= MAX_REQUEST - a THEN internal_memalign(h, a, bytes, env)
                ELSE Result(h, 0)
<1>1. CASE bad
  <2>1. r.m = h /\ r.mem = 0
    BY <1>1 DEF dlposix_memalign
  <2>2. QED
    BY <2>1, NothingDone DEF Outcome
<1>2. CASE ~bad
  <2>1. r.m = q.m /\ r.mem = q.mem
    <3>1. r = [m |-> q.m, mem |-> q.mem, error |-> IF q.mem = 0 THEN ENOMEM ELSE "0"]
      BY <1>2 DEF dlposix_memalign
    <3> HIDE DEF q
    <3>2. QED
      BY <3>1
  <2>2. Outcome(h, q, bytes, AlignFor(a), sz, U)
    <3>1. CASE a = MALLOC_ALIGNMENT
      <4>1. q = dlmalloc(h, bytes, env) /\ AlignFor(a) = 8
        BY <3>1 DEF AlignFor, MALLOC_ALIGNMENT
      <4>2. QED
        BY <4>1, MallocDelivers DEF Outcome
    <3>2. CASE a # MALLOC_ALIGNMENT /\ bytes <= MAX_REQUEST - a
      <4>1. q = internal_memalign(h, a, bytes, env)
        BY <3>2
      <4> HIDE DEF q
      <4>2. Delivers(h, q, bytes, Alignment(a), sz, U) \/ Fails(h, q, sz, U)
        BY <4>1, InternalMemalignDelivers
      <4>3. AlignFor(a) = Alignment(a) \/ (AlignFor(a) = 8 /\ Alignment(a) % 8 = 0)
        BY AlignmentIs DEF AlignFor, IsAlignment, MALLOC_ALIGNMENT
      <4>4. CASE Delivers(h, q, bytes, Alignment(a), sz, U) /\ AlignFor(a) = 8
        <5>1. PICK p : q.mem = chunk2mem(p) /\ Obtains(h, q.m, p, bytes + 4, sz, U)
          BY <4>4 DEF Delivers
        <5>2. bytes + 4 \in Nat
          OBVIOUS
        <5>3. p \in Nat /\ p % 8 = 0
          BY <5>1, <5>2, ObtainedPlace
        <5>4. q.mem % 8 = 0
          BY <5>1, <5>3 DEF chunk2mem, TWO_SIZE_T_SIZES
        <5>5. Delivers(h, q, bytes, AlignFor(a), sz, U)
          BY <4>4, <5>1, <5>4 DEF Delivers
        <5>6. QED
          BY <5>5 DEF Outcome
      <4>5. QED
        BY <4>2, <4>3, <4>4 DEF Outcome
    <3>3. CASE a # MALLOC_ALIGNMENT /\ ~(bytes <= MAX_REQUEST - a)
      <4>1. q = Result(h, 0)
        BY <3>3
      <4>2. q.m = h /\ q.mem = 0
        BY <4>1 DEF Result
      <4>3. QED
        BY <4>2, NothingDone DEF Outcome
    <3>4. QED
      BY <3>1, <3>2, <3>3
  <2>3. QED
    BY <2>1, <2>2, SameOutcome
<1>3. QED
  BY <1>1, <1>2

LEMMA AlignmentOfPage == Alignment(PageSize) = PageSize /\ AlignFor(PageSize) = PageSize
<1> DEFINE S == {x \in PowersOfTwo : x >= PageSize /\ x >= MIN_CHUNK_SIZE}
<1>1. PageSize \in S
  BY Pages, MinChunkSize
<1>2. S \subseteq Nat
  BY PowersOfTwoAre
<1>3. Alignment(PageSize) = Min(S)
  BY DEF Alignment
<1>4. \A y \in S : y >= PageSize
  OBVIOUS
<1> HIDE DEF S
<1>5. Min(S) \in S /\ Min(S) <= PageSize
  BY <1>1, <1>2, MinIs
<1> DEFINE x == Min(S)
<1> HIDE DEF x
<1>51. x \in Nat /\ x <= PageSize /\ x >= PageSize
  BY <1>2, <1>4, <1>5 DEF x
<1>6. x = PageSize
  BY <1>51, Pages
<1>7. ~(PageSize <= MALLOC_ALIGNMENT)
  BY Pages DEF MALLOC_ALIGNMENT
<1>8. QED
  BY <1>3, <1>6, <1>7 DEF AlignFor, x

LEMMA DeliversFrom ==
  ASSUME NEW h, NEW k, k.enomem = h.enomem, k.footprint = h.footprint,
         k.footprint_limit = h.footprint_limit, is_initialized(k) <=> is_initialized(h),
         NEW r, NEW bytes, NEW a, NEW sz, NEW U, Delivers(k, r, bytes, a, sz, U)
  PROVE  Delivers(h, r, bytes, a, sz, U)
<1>1. PICK q : r.mem = chunk2mem(q) /\ r.mem % a = 0 /\ Obtains(k, r.m, q, bytes + 4, sz, U)
  BY DEF Delivers
<1>2. Growth(k, r.m) => Growth(h, r.m)
  BY DEF Growth
<1>3. Obtains(h, r.m, q, bytes + 4, sz, U)
  BY <1>1, <1>2 DEF Obtains
<1>4. QED
  BY <1>1, <1>3 DEF Delivers

LEMMA FailsFrom ==
  ASSUME NEW h, NEW k, k.brk = h.brk, k.footprint = h.footprint,
         k.footprint_limit = h.footprint_limit, is_initialized(k) <=> is_initialized(h),
         is_initialized(h) => k = h,
         NEW r, NEW sz, NEW U, Fails(k, r, sz, U)
  PROVE  Fails(h, r, sz, U)
<1>1. Growth(k, r.m) => Growth(h, r.m)
  BY DEF Growth
<1>2. QED
  BY <1>1 DEF Fails

LEMMA AfterInitialization ==
  ASSUME NEW h, NEW sz, NEW U, Mem(h, sz, U), NEW k, k = ensure_initialization(h)
  PROVE  /\ Mem(k, sz, U)
         /\ \A r, bytes, a : Delivers(k, r, bytes, a, sz, U) => Delivers(h, r, bytes, a, sz, U)
         /\ \A r : Fails(k, r, sz, U) => Fails(h, r, sz, U)
         /\ Growth(h, k) /\ k.enomem = h.enomem
<1>1. IsState(h) /\ Params(h) /\ (is_initialized(h) <=> Heap(h, sz, U))
  BY MemIsState
<1>2. Ensured(k, h)
  BY <1>1, EnsureInitializes
<1>3. /\ k.brk = h.brk /\ k.enomem = h.enomem /\ (is_initialized(k) <=> is_initialized(h))
      /\ k.footprint = h.footprint /\ k.footprint_limit = h.footprint_limit
      /\ Heap(h, sz, U) => k = h
      /\ Mem(k, sz, U)
  BY <1>1, <1>2, EnsuredMem
<1>4. h.footprint \in Nat
  BY DEF Mem, Heap, Segment, NoHeap
<1>5. Growth(h, k)
  BY <1>3, <1>4, NoGrowth
<1>6. \A r, bytes, a : Delivers(k, r, bytes, a, sz, U) => Delivers(h, r, bytes, a, sz, U)
  BY <1>3, DeliversFrom
<1>7. \A r : Fails(k, r, sz, U) => Fails(h, r, sz, U)
  BY <1>1, <1>3, FailsFrom
<1>8. QED
  BY <1>3, <1>5, <1>6, <1>7

LEMMA PageHasPower == \E x \in PowersOfTwo : PageSize <= x
BY Pages

LEMMA VallocDelivers ==
  ASSUME NEW h, NEW sz, NEW U, Mem(h, sz, U), NEW bytes \in Nat, NEW env,
         NEW r, r = dlmemalign(ensure_initialization(h), PageSize, bytes, env)
  PROVE  Delivers(h, r, bytes, PageSize, sz, U) \/ Fails(h, r, sz, U)
<1> DEFINE k == ensure_initialization(h)
<1>1. /\ Mem(k, sz, U)
      /\ Delivers(k, r, bytes, PageSize, sz, U) => Delivers(h, r, bytes, PageSize, sz, U)
      /\ Fails(k, r, sz, U) => Fails(h, r, sz, U)
  BY AfterInitialization
<1> HIDE DEF k
<1>2. r = dlmemalign(k, PageSize, bytes, env)
  BY DEF k
<1>3. Delivers(k, r, bytes, AlignFor(PageSize), sz, U) \/ Fails(k, r, sz, U)
  BY <1>1, <1>2, Pages, PageHasPower, MemalignDelivers
<1>4. QED
  BY <1>1, <1>3, AlignmentOfPage

LEMMA DeliversLess ==
  ASSUME NEW h, NEW r, NEW more \in Nat, NEW bytes \in Nat, bytes <= more, NEW a, NEW sz, NEW U,
         Delivers(h, r, more, a, sz, U)
  PROVE  Delivers(h, r, bytes, a, sz, U)
<1>1. PICK q : r.mem = chunk2mem(q) /\ r.mem % a = 0 /\ Obtains(h, r.m, q, more + 4, sz, U)
  BY DEF Delivers
<1>2. more + 4 \in Int /\ bytes + 4 \in Int /\ bytes + 4 <= more + 4
  OBVIOUS
<1>3. Obtains(h, r.m, q, bytes + 4, sz, U)
  BY <1>1, <1>2, ObtainsLess
<1>4. QED
  BY <1>1, <1>3 DEF Delivers

LEMMA PvallocDelivers ==
  ASSUME NEW h, NEW sz, NEW U, Mem(h, sz, U), NEW bytes \in Nat, bytes + PageSize <= WordSize,
         NEW env, NEW r, r = dlpvalloc(h, bytes, env)
  PROVE  Delivers(h, r, bytes, PageSize, sz, U) \/ Fails(h, r, sz, U)
<1> DEFINE more == AlignUp(bytes, PageSize)
<1>1. more \in Nat /\ bytes <= more
  <2>1. PageSize \in Nat \ {0} /\ bytes + PageSize - 1 < WordSize
    BY Pages, Requests
  <2>2. QED
    BY <2>1, AlignUpIs
<1>2. r = dlmemalign(ensure_initialization(h), PageSize, more, env)
  BY DEF dlpvalloc
<1> HIDE DEF more
<1>3. Delivers(h, r, more, PageSize, sz, U) \/ Fails(h, r, sz, U)
  BY <1>1, <1>2, VallocDelivers
<1>4. QED
  BY <1>1, <1>3, DeliversLess

-----------------------------------------------------------------------------
(* calloc.                                                                 *)

(* A product that the test lets pass has not wrapped. *)
LEMMA SmallProduct ==
  ASSUME NEW n \in Nat, NEW size \in Nat, NEW half \in Nat, n < half, size < half,
         half * half <= WordSize
  PROVE  n * size < WordSize
<1>1. n * size \in Nat /\ half * half \in Nat /\ n * half \in Nat /\ half * n \in Nat /\ size * n \in Nat
  OBVIOUS
<1>2. CASE n = 0
  BY <1>2, Requests
<1>3. CASE n > 0
  <2>1. size * n + n <= half * n
    BY <1>3, ScaleUp
  <2>2. n * half <= half * half
    BY ScaleMonotone
  <2>3. half * n = n * half /\ size * n = n * size
    OBVIOUS
  <2>4. QED
    BY <1>1, <1>3, <2>1, <2>2, <2>3, Requests
<1>4. QED
  BY <1>2, <1>3

LEMMA WordIsLess ==
  ASSUME NEW n \in Nat
  PROVE  Word(n) \in Nat /\ Word(n) <= n /\ (n < WordSize => Word(n) = n)
<1>1. WordSize \in Nat \ {0}
  BY Requests
<1>2. n < WordSize => Word(n) = n
  <2>1. n < WordSize => n \in 0 .. WordSize - 1
    BY <1>1
  <2>2. QED
    BY <1>1, <2>1, WordOfSmall DEF Word
<1>3. Word(n) \in 0 .. WordSize - 1
  BY <1>1, QuotientRemainder DEF Word
<1>4. QED
  BY <1>1, <1>2, <1>3

LEMMA ExactProduct ==
  ASSUME NEW n \in Nat, n # 0, NEW size \in Nat, NEW req, req = Word(n * size),
         req \div n = size
  PROVE  req = n * size
<1>1. n * size \in Nat
  OBVIOUS
<1>2. req \in Nat /\ req <= n * size
  BY <1>1, WordIsLess
<1>3. (req \div n) * n <= req
  BY <1>2, QuotientBounds
<1>4. size * n <= req
  BY <1>3
<1>5. size * n = n * size
  OBVIOUS
<1>6. QED
  BY <1>1, <1>2, <1>4, <1>5

LEMMA CallocRequestIs ==
  ASSUME NEW n \in Nat, NEW size \in Nat, NEW req, req = CallocRequest(n, size)
  PROVE  req \in Nat /\ (req = n * size \/ req = MAX_SIZE_T)
<1> DEFINE half == 2 ^ (SIZE_T_BITSIZE \div 2)
           prod == n * size
<1>1. half \in Nat /\ half * half <= WordSize
  BY WordAssumption
<1>2. req = IF /\ n # 0
               /\ n >= half \/ size >= half
               /\ Word(prod) \div n # size
            THEN MAX_SIZE_T ELSE Word(prod)
  BY DEF CallocRequest
<1> HIDE DEF half
<1>3. prod \in Nat /\ (n = 0 => prod = 0)
  OBVIOUS
<1>4. CASE req = MAX_SIZE_T
  BY <1>4, Requests
<1>5. CASE req = Word(prod) /\ (n = 0 \/ (n < half /\ size < half))
  <2>1. prod < WordSize
    BY <1>1, <1>3, <1>5, SmallProduct, Requests
  <2> HIDE DEF prod
  <2>2. req = prod
    BY <1>3, <1>5, <2>1, WordIsLess
  <2>3. QED
    BY <1>3, <2>2 DEF prod
<1>6. CASE req = Word(prod) /\ n # 0 /\ Word(prod) \div n = size
  BY <1>3, <1>6, ExactProduct
<1>7. QED
  BY <1>1, <1>2, <1>4, <1>5, <1>6

LEMMA CallocDelivers ==
  ASSUME NEW h, NEW sz, NEW U, Mem(h, sz, U), NEW n \in Nat, NEW size \in Nat, NEW env,
         NEW r, r = dlcalloc(h, n, size, env)
  PROVE  Delivers(h, r, n * size, 8, sz, U) \/ Fails(h, r, sz, U)
<1> DEFINE req == CallocRequest(n, size)
<1>1. req \in Nat /\ (req = n * size \/ req = MAX_SIZE_T)
  BY CallocRequestIs
<1>2. r = dlmalloc(h, req, env)
  BY DEF dlcalloc
<1> HIDE DEF req
<1>3. /\ Delivers(h, r, req, 8, sz, U) \/ Fails(h, r, sz, U)
      /\ req = MAX_SIZE_T => Fails(h, r, sz, U)
  BY <1>1, <1>2, MallocDelivers
<1>4. QED
  BY <1>1, <1>3

-----------------------------------------------------------------------------
(* Chunks one behind the other.                                            *)

LEMMA StartsExist ==
  ASSUME NEW n \in Nat, NEW p, NEW sizes
  PROVE  \E f : f = [i \in 1 .. n + 1 |-> IF i = 1 THEN p ELSE f[i - 1] + sizes[i - 1]]
<1> DEFINE P(k) == \E f : f = [i \in 1 .. k + 1 |-> IF i = 1 THEN p ELSE f[i - 1] + sizes[i - 1]]
           T == {k \in Nat : P(k)}
<1>1. P(0)
  <2> DEFINE f == [i \in 1 .. 0 + 1 |-> p]
  <2>1. f = [i \in 1 .. 0 + 1 |-> IF i = 1 THEN p ELSE f[i - 1] + sizes[i - 1]]
    <3>1. \A i \in 1 .. 0 + 1 : i = 1
      OBVIOUS
    <3>2. QED
      BY <3>1
  <2>2. QED
    BY <2>1
<1>2. ASSUME NEW k \in Nat, P(k)
      PROVE  P(k + 1)
  <2>1. PICK f : f = [i \in 1 .. k + 1 |-> IF i = 1 THEN p ELSE f[i - 1] + sizes[i - 1]]
    BY <1>2
  <2> DEFINE g == [i \in 1 .. (k + 1) + 1 |-> IF i = 1 THEN p ELSE f[i - 1] + sizes[i - 1]]
  <2>2. \A i \in 1 .. k + 1 : g[i] = f[i]
    <3>1. \A i \in 1 .. k + 1 : i \in 1 .. (k + 1) + 1
      OBVIOUS
    <3>2. QED
      BY <2>1, <3>1
  <2>3. g = [i \in 1 .. (k + 1) + 1 |-> IF i = 1 THEN p ELSE g[i - 1] + sizes[i - 1]]
    <3>1. \A i \in 1 .. (k + 1) + 1 : i # 1 => i - 1 \in 1 .. k + 1
      OBVIOUS
    <3>2. \A i \in 1 .. (k + 1) + 1 : (IF i = 1 THEN p ELSE f[i - 1] + sizes[i - 1])
                                = (IF i = 1 THEN p ELSE g[i - 1] + sizes[i - 1])
      <4> HIDE DEF g
      <4>1. QED
        BY <2>2, <3>1
    <3>3. QED
      BY <3>2
  <2>4. QED
    BY <2>3
<1>3. 0 \in T /\ \A k \in Nat : k \in T => k + 1 \in T
  <2> HIDE DEF P
  <2>1. QED
    BY <1>1, <1>2
<1>4. Nat \subseteq T
  <2> HIDE DEF T
  <2>1. QED
    BY <1>3, Induction
<1>5. QED
  BY <1>4

(* Sizes that chunks can have. *)
ChunkSeq(sizes) ==
  \A i \in 1 .. Len(sizes) : sizes[i] \in Nat /\ sizes[i] >= 16 /\ sizes[i] % 8 = 0

(* Where they are. *)
StartsAt(at, p, sizes, n) ==
  /\ \A i \in 1 .. n + 1 : at[i] \in Nat /\ at[i] >= p
  /\ at[1] = p
  /\ \A i \in 1 .. n : at[i + 1] = at[i] + sizes[i]
  /\ \A i \in 1 .. n + 1, j \in 1 .. n + 1 : i < j => at[i] + sizes[i] <= at[j]

LEMMA StartsAre ==
  ASSUME NEW p \in Nat, NEW sizes, ChunkSeq(sizes), NEW n \in Nat, n = Len(sizes),
         NEW at, at = Starts(p, sizes)
  PROVE  StartsAt(at, p, sizes, n)
<1>1. at = [i \in 1 .. n + 1 |-> IF i = 1 THEN p ELSE at[i - 1] + sizes[i - 1]]
  BY StartsExist DEF Starts
<1>2. at[1] = p
  <2>1. 1 \in 1 .. n + 1
    OBVIOUS
  <2>2. QED
    BY <1>1, <2>1
<1>3. \A i \in 1 .. n : at[i + 1] = at[i] + sizes[i]
  <2>1. ASSUME NEW i \in 1 .. n
        PROVE  at[i + 1] = at[i] + sizes[i]
    <3>1. i + 1 \in 1 .. n + 1 /\ i + 1 # 1 /\ (i + 1) - 1 = i
      OBVIOUS
    <3>2. at[i + 1] = IF i + 1 = 1 THEN p ELSE at[(i + 1) - 1] + sizes[(i + 1) - 1]
      BY <1>1, <3>1
    <3>3. QED
      BY <3>1, <3>2
  <2>2. QED
    BY <2>1
<1>4. \A i \in 1 .. n : sizes[i] \in Nat
  BY DEF ChunkSeq
<1> DEFINE Typed(k) == k <= n => at[k + 1] \in Nat /\ at[k + 1] >= p
           TT == {k \in Nat : Typed(k)}
<1>5. Typed(0)
  BY <1>2
<1>6. ASSUME NEW k \in Nat, Typed(k)
      PROVE  Typed(k + 1)
  <2>1. SUFFICES ASSUME k + 1 <= n
                 PROVE  at[(k + 1) + 1] \in Nat /\ at[(k + 1) + 1] >= p
    OBVIOUS
  <2>2. at[k + 1] \in Nat /\ at[k + 1] >= p
    BY <1>6, <2>1
  <2>3. k + 1 \in 1 .. n
    BY <2>1
  <2>4. at[(k + 1) + 1] = at[k + 1] + sizes[k + 1] /\ sizes[k + 1] \in Nat
    BY <1>3, <1>4, <2>3
  <2>5. QED
    BY <2>2, <2>4
<1>7. 0 \in TT /\ \A k \in Nat : k \in TT => k + 1 \in TT
  <2> HIDE DEF Typed
  <2>1. QED
    BY <1>5, <1>6
<1>8. Nat \subseteq TT
  <2> HIDE DEF TT
  <2>1. QED
    BY <1>7, Induction
<1>10. \A i \in 1 .. n + 1 : at[i] \in Nat /\ at[i] >= p
  <2>1. ASSUME NEW i \in 1 .. n + 1
        PROVE  at[i] \in Nat /\ at[i] >= p
    <3>1. i - 1 \in Nat /\ i - 1 <= n /\ (i - 1) + 1 = i
      OBVIOUS
    <3>2. Typed(i - 1)
      BY <1>8, <3>1
    <3>3. QED
      BY <3>1, <3>2
  <2>2. QED
    BY <2>1
<1> DEFINE P(k) == k <= n => \A i \in 1 .. k : at[i] + sizes[i] <= at[k + 1]
           T == {k \in Nat : P(k)}
<1>12. P(0)
  OBVIOUS
<1>13. ASSUME NEW k \in Nat, P(k)
       PROVE  P(k + 1)
  <2>1. SUFFICES ASSUME k + 1 <= n, NEW i \in 1 .. k + 1
                 PROVE  at[i] + sizes[i] <= at[(k + 1) + 1]
    OBVIOUS
  <2>2. k + 1 \in 1 .. n /\ k + 1 \in 1 .. n + 1 /\ i \in 1 .. n
    BY <2>1
  <2>3. at[(k + 1) + 1] = at[k + 1] + sizes[k + 1] /\ sizes[k + 1] \in Nat /\ at[k + 1] \in Nat
    BY <1>3, <1>4, <1>10, <2>2
  <2>4. at[i] \in Nat /\ sizes[i] \in Nat
    <3>1. i \in 1 .. n + 1
      BY <2>2
    <3>2. QED
      BY <1>4, <1>10, <2>2, <3>1
  <2>5. CASE i = k + 1
    BY <2>3, <2>5
  <2>6. CASE i # k + 1
    <3>1. i \in 1 .. k
      BY <2>6
    <3>2. at[i] + sizes[i] <= at[k + 1]
      BY <1>13, <2>1, <3>1
    <3>3. QED
      BY <2>3, <2>4, <3>2
  <2>7. QED
    BY <2>5, <2>6
<1>14. 0 \in T /\ \A k \in Nat : k \in T => k + 1 \in T
  <2> HIDE DEF P
  <2>1. QED
    BY <1>12, <1>13
<1>15. Nat \subseteq T
  <2> HIDE DEF T
  <2>1. QED
    BY <1>14, Induction
<1>9. \A k \in Nat : P(k)
  BY <1>15
<1>11. \A i \in 1 .. n + 1, j \in 1 .. n + 1 : i < j => at[i] + sizes[i] <= at[j]
  <2>1. ASSUME NEW i \in 1 .. n + 1, NEW j \in 1 .. n + 1, i < j
        PROVE  at[i] + sizes[i] <= at[j]
    <3>1. j - 1 \in Nat /\ j - 1 <= n /\ (j - 1) + 1 = j /\ i \in 1 .. j - 1
      BY <2>1
    <3>2. P(j - 1)
      BY <1>9, <3>1
    <3>3. QED
      BY <3>1, <3>2
  <2>2. QED
    BY <2>1
<1>16. QED
  BY <1>2, <1>3, <1>10, <1>11 DEF StartsAt

LEMMA SumIs ==
  ASSUME NEW p \in Nat, NEW sizes, ChunkSeq(sizes), NEW n \in Nat, n = Len(sizes),
         NEW at, at = Starts(p, sizes), NEW sum, sum = SumOf(sizes)
  PROVE  sum \in Nat /\ at[n + 1] = p + sum
<1> DEFINE o == Starts(0, sizes)
<1>1. sum = o[n + 1]
  BY DEF SumOf
<1>2. StartsAt(o, 0, sizes, n)
  BY StartsAre
<1>3. StartsAt(at, p, sizes, n)
  BY StartsAre
<1> HIDE DEF o
<1> DEFINE P(k) == k <= n => at[k + 1] = p + o[k + 1]
           T == {k \in Nat : P(k)}
<1>4. P(0)
  BY <1>2, <1>3 DEF StartsAt
<1>5. ASSUME NEW k \in Nat, P(k)
      PROVE  P(k + 1)
  <2>1. SUFFICES ASSUME k + 1 <= n
                 PROVE  at[(k + 1) + 1] = p + o[(k + 1) + 1]
    OBVIOUS
  <2>2. k + 1 \in 1 .. n /\ k + 1 \in 1 .. n + 1
    BY <2>1
  <2>3. at[(k + 1) + 1] = at[k + 1] + sizes[k + 1] /\ at[k + 1] \in Nat
    BY <1>3, <2>2 DEF StartsAt
  <2>4. o[(k + 1) + 1] = o[k + 1] + sizes[k + 1] /\ o[k + 1] \in Nat
    BY <1>2, <2>2 DEF StartsAt
  <2>5. sizes[k + 1] \in Nat
    BY <2>2 DEF ChunkSeq
  <2>6. at[k + 1] = p + o[k + 1]
    BY <1>5, <2>1
  <2>7. QED
    BY <2>3, <2>4, <2>5, <2>6
<1>6. 0 \in T /\ \A k \in Nat : k \in T => k + 1 \in T
  <2> HIDE DEF P
  <2>1. QED
    BY <1>4, <1>5
<1>7. Nat \subseteq T
  <2> HIDE DEF T
  <2>1. QED
    BY <1>6, Induction
<1>8. P(n)
  BY <1>7
<1>9. o[n + 1] \in Nat
  <2>1. n + 1 \in 1 .. n + 1
    OBVIOUS
  <2>2. QED
    BY <1>2, <2>1 DEF StartsAt
<1>10. QED
  BY <1>1, <1>8, <1>9

(* The i-th chunk is as large as was asked for, or all that is left.       *)
CutSize(at, p, sizes, room, n, i) == IF i = n THEN p + room - at[n] ELSE sizes[i]

CutsBy(f, k, at, z, n) ==
  f = [i \in 0 .. n |-> IF i = 0 THEN k ELSE set_size_and_pinuse_of_inuse_chunk(f[i - 1], at[i], z[i])]

LEMMA CutUpExists ==
  ASSUME NEW n \in Nat, NEW k, NEW at, NEW z
  PROVE  \E f : CutsBy(f, k, at, z, n)
<1> DEFINE Step(s, i) == set_size_and_pinuse_of_inuse_chunk(s, at[i], z[i])
           P(c) == \E f : f = [i \in 0 .. c |-> IF i = 0 THEN k ELSE Step(f[i - 1], i)]
           T == {c \in Nat : P(c)}
<1>1. P(0)
  <2> DEFINE f == [i \in 0 .. 0 |-> k]
  <2>1. f = [i \in 0 .. 0 |-> IF i = 0 THEN k ELSE Step(f[i - 1], i)]
    <3> HIDE DEF Step
    <3>1. \A i \in 0 .. 0 : i = 0
      OBVIOUS
    <3>2. QED
      BY <3>1
  <2>2. QED
    BY <2>1
<1>2. ASSUME NEW c \in Nat, P(c)
      PROVE  P(c + 1)
  <2> HIDE DEF Step
  <2>1. PICK f : f = [i \in 0 .. c |-> IF i = 0 THEN k ELSE Step(f[i - 1], i)]
    BY <1>2
  <2> DEFINE g == [i \in 0 .. c + 1 |-> IF i = 0 THEN k ELSE Step(f[i - 1], i)]
  <2>2. \A i \in 0 .. c : g[i] = f[i]
    <3>1. \A i \in 0 .. c : i \in 0 .. c + 1
      OBVIOUS
    <3>2. QED
      BY <2>1, <3>1
  <2>3. g = [i \in 0 .. c + 1 |-> IF i = 0 THEN k ELSE Step(g[i - 1], i)]
    <3>1. \A i \in 0 .. c + 1 : i # 0 => i - 1 \in 0 .. c
      OBVIOUS
    <3>2. \A i \in 0 .. c + 1 : (IF i = 0 THEN k ELSE Step(f[i - 1], i))
                                = (IF i = 0 THEN k ELSE Step(g[i - 1], i))
      <4> HIDE DEF g
      <4>1. QED
        BY <2>2, <3>1
    <3>3. QED
      BY <3>2
  <2>4. QED
    BY <2>3
<1>3. 0 \in T /\ \A c \in Nat : c \in T => c + 1 \in T
  <2> HIDE DEF P
  <2>1. QED
    BY <1>1, <1>2
<1>4. Nat \subseteq T
  <2> HIDE DEF T
  <2>1. QED
    BY <1>3, Induction
<1>5. QED
  BY <1>4 DEF CutsBy

CutsFrom(cut, k, at, p, sizes, room, n) ==
  /\ cut[0] = k
  /\ \A i \in 1 .. n :
       cut[i] = set_size_and_pinuse_of_inuse_chunk(cut[i - 1], at[i], CutSize(at, p, sizes, room, n, i))

LEMMA CutUpIs ==
  ASSUME NEW k, NEW p, NEW sizes, NEW n \in Nat, n = Len(sizes), NEW room,
         NEW at, at = Starts(p, sizes), NEW cut, cut = CutUp(k, p, sizes, room)
  PROVE  CutsFrom(cut, k, at, p, sizes, room, n)
<1> DEFINE z == [i \in 0 .. n |-> CutSize(at, p, sizes, room, n, i)]
           f == CHOOSE f : f = [i \in 0 .. n |-> IF i = 0 THEN k
                             ELSE set_size_and_pinuse_of_inuse_chunk(f[i - 1], at[i], CutSize(at, p, sizes, room, n, i))]
<1>1. cut = f
  BY DEF CutUp, CutSize
<1>2. \E g : g = [i \in 0 .. n |-> IF i = 0 THEN k
                    ELSE set_size_and_pinuse_of_inuse_chunk(g[i - 1], at[i], CutSize(at, p, sizes, room, n, i))]
  <2>1. PICK g : g = [i \in 0 .. n |-> IF i = 0 THEN k
                    ELSE set_size_and_pinuse_of_inuse_chunk(g[i - 1], at[i], z[i])]
    <3> HIDE DEF z
    <3>1. \E g : CutsBy(g, k, at, z, n)
      BY CutUpExists
    <3>2. QED
      BY <3>1 DEF CutsBy
  <2>2. \A i \in 0 .. n : z[i] = CutSize(at, p, sizes, room, n, i)
    OBVIOUS
  <2> HIDE DEF z
  <2>3. \A i \in 0 .. n : (IF i = 0 THEN k
                ELSE set_size_and_pinuse_of_inuse_chunk(g[i - 1], at[i], z[i]))
             = (IF i = 0 THEN k
                ELSE set_size_and_pinuse_of_inuse_chunk(g[i - 1], at[i], CutSize(at, p, sizes, room, n, i)))
    BY <2>2
  <2>4. QED
    BY <2>1, <2>3
<1>3. f = [i \in 0 .. n |-> IF i = 0 THEN k
             ELSE set_size_and_pinuse_of_inuse_chunk(f[i - 1], at[i], CutSize(at, p, sizes, room, n, i))]
  BY <1>2
<1> HIDE DEF f
<1>4. 0 \in 0 .. n /\ \A i \in 1 .. n : i \in 0 .. n /\ i # 0
  OBVIOUS
<1>5. QED
  BY <1>1, <1>3, <1>4 DEF CutsFrom

(* What is in front of the hole at q has been cut out of the chunk that    *)
(* ends at end; the rest of it is as it was in k.                          *)
Ahead(c, k, q) ==
  /\ \A x \in DOMAIN k.head : x >= q => x \in DOMAIN c.head /\ c.head[x] = k.head[x]
  /\ \A x \in DOMAIN c.head : x > q => x \in DOMAIN k.head
AtHole(c, k, q, end, lo, e, u, V) ==
  /\ WellFormed(k) /\ WellFormed(c) /\ Only(c, k, {"head", "foot"}) /\ Ahead(c, k, q)
  /\ Layout(c.head, c.foot, k.bins, k.dv, k.dvsize, lo, e, k.top, u, V, q)
  /\ q \in DOMAIN u /\ q + u[q] = end /\ q # k.top /\ PredUsed(lo, u, V, q)

HoleMoved(c, k, q, a, r, end, lo, e, u, t, V, W) ==
  /\ AtHole(c, k, r, end, lo, e, t, W) /\ t[q] = a /\ r \notin DOMAIN u
  /\ \A x \in DOMAIN u : x # q => t[x] = u[x]

LEMMA HoleMoves ==
  ASSUME NEW c, NEW k, NEW q, NEW end, NEW lo, NEW e, NEW u, NEW V, AtHole(c, k, q, end, lo, e, u, V),
         NEW a \in Nat, a >= 16, a % 8 = 0, NEW r, r = q + a, r < end,
         NEW n, n = set_size_and_pinuse_of_inuse_chunk(c, q, a)
  PROVE  HoleMoved(n, k, q, a, r, end, lo, e, u, CutChunk(u, q, a), V, V \cup {r})
<1> DEFINE t == CutChunk(u, q, a)
           s == u[q]
<1>1. /\ WellFormed(c) /\ Only(c, k, {"head", "foot"})
      /\ Layout(c.head, c.foot, k.bins, k.dv, k.dvsize, lo, e, k.top, u, V, q)
      /\ q \in DOMAIN u /\ q + s = end /\ q # k.top /\ PredUsed(lo, u, V, q)
  BY DEF AtHole
<1>2. Tiling(lo, e, u) /\ V \subseteq DOMAIN u /\ k.top \in DOMAIN u /\ q \in V
  BY <1>1, LayoutHole DEF Layout
<1>3. q \in Nat /\ s \in Nat /\ s > 0
  BY <1>1, <1>2, TilingFacts DEF Tiling
<1>4. a < s /\ r \in Nat /\ q < r
  BY <1>1, <1>3
<1>5. Within(q, a, q, s)
  BY <1>3, <1>4 DEF Within
<1>6. WritesTo(c, n, e, q, s) /\ HeadStored(c, n, q, a, TRUE, TRUE)
  BY <1>1, <1>5, StoreHeadIn DEF set_size_and_pinuse_of_inuse_chunk
<1>7. WellFormed(n) /\ Only(n, c, {"head", "foot"})
  BY <1>6 DEF WritesTo
<1>8. Only(n, k, {"head", "foot"})
  BY <1>1, <1>7, OnlyTransitive
<1>9. Layout(n.head, n.foot, k.bins, k.dv, k.dvsize, lo, e, k.top, u, V, q)
  BY <1>1, <1>6, LayoutFrame DEF WritesTo
<1>10. /\ q \in DOMAIN n.head /\ n.head[q] = [size |-> a, pinuse |-> TRUE, cinuse |-> TRUE]
       /\ \A x \in DOMAIN n.head : x # q => x \in DOMAIN c.head /\ (x < q \/ x >= q + a)
  BY <1>6 DEF HeadStored
<1>11. NoHeads(n.head, q, a)
  <2>1. \A x \in DOMAIN n.head : x \in Nat
    BY <1>7 DEF WellFormed
  <2>2. QED
    BY <1>3, <1>10, <2>1 DEF NoHeads
<1>12. n.head[q] \in HeadRecords /\ n.head[q].size = a /\ n.head[q].cinuse
       /\ (n.head[q].pinuse <=> PredUsed(lo, u, V, q))
  <2>1. n.head[q] \in HeadRecords
    BY <1>7, <1>10 DEF WellFormed
  <2>2. QED
    BY <1>1, <1>10, <2>1
<1>13. Layout(n.head, n.foot, k.bins, k.dv, k.dvsize, lo, e, k.top, t, V \cup {r}, r)
  BY <1>1, <1>4, <1>9, <1>10, <1>11, <1>12, LayoutAdvance
<1>14. /\ DOMAIN t = DOMAIN u \cup {r} /\ t[q] = a /\ r \notin DOMAIN u /\ r # q
       /\ r + t[r] = q + u[q] /\ \A x \in DOMAIN u : x # q => t[x] = u[x]
  <2> DEFINE b == s - a
  <2>1. b \in Nat /\ b > 0 /\ a + b = u[q] /\ a > 0
    BY <1>3, <1>4
  <2> HIDE DEF b
  <2>2. IsCut(CutChunk(u, q, a), u, q, a, b, r, e)
    BY <1>1, <1>2, <2>1, CutInTwo
  <2>3. IsCut(t, u, q, a, b, r, e)
    BY <2>2
  <2> HIDE DEF t
  <2>4. QED
    BY <2>3 DEF IsCut
<1> HIDE DEF t, s
<1>15. PredUsed(lo, t, V \cup {r}, r)
  BY <1>2, <1>14 DEF PredUsed
<1>16. Ahead(n, k, r)
  <2>1. ASSUME NEW x \in DOMAIN k.head, x >= r
        PROVE  x \in DOMAIN n.head /\ n.head[x] = k.head[x]
    <3>1. q \in Int /\ r \in Int /\ q < r
      BY <1>3, <1>4
    <3>2. x \in Nat
      BY DEF AtHole, WellFormed
    <3>3. x >= q => x \in DOMAIN c.head /\ c.head[x] = k.head[x]
      BY DEF AtHole, Ahead
    <3>4. x \in DOMAIN c.head /\ c.head[x] = k.head[x]
      BY <2>1, <3>1, <3>2, <3>3
    <3>5. x >= q + a
      BY <2>1
    <3>6. QED
      BY <1>6, <3>4, <3>5 DEF HeadStored
  <2>2. ASSUME NEW x \in DOMAIN n.head, x > r
        PROVE  x \in DOMAIN k.head
    <3>1. x \in Nat
      BY <1>7 DEF WellFormed
    <3>2. x > q /\ x # q
      BY <1>3, <1>4, <2>2, <3>1
    <3>3. x \in DOMAIN c.head
      BY <1>10, <3>2
    <3>4. QED
      BY <3>2, <3>3 DEF AtHole, Ahead
  <2>3. QED
    BY <2>1, <2>2 DEF Ahead
<1>17. AtHole(n, k, r, end, lo, e, t, V \cup {r})
  <2>0. WellFormed(k)
    BY DEF AtHole
  <2>1. r # k.top
    BY <1>2, <1>14
  <2>2. r \in DOMAIN t /\ r + t[r] = end
    BY <1>1, <1>14 DEF s
  <2>3. QED
    BY <1>7, <1>8, <1>13, <1>15, <1>16, <2>0, <2>1, <2>2 DEF AtHole
<1>18. QED
  BY <1>14, <1>17 DEF HoleMoved, t

(* The rest has its head, and was in use all along. *)
LEMMA HoleCloses ==
  ASSUME NEW c, NEW k, NEW q, NEW end, NEW lo, NEW e, NEW u, NEW V, AtHole(c, k, q, end, lo, e, u, V),
         NEW s, s = u[q], s >= 16, q \in DOMAIN c.head,
         c.head[q] = [size |-> s, pinuse |-> TRUE, cinuse |-> TRUE],
         NoHeads(c.head, q, s), c.head[end].pinuse
  PROVE  Layout(c.head, c.foot, k.bins, k.dv, k.dvsize, lo, e, k.top, u, V, e)
<1>1. /\ WellFormed(c)
      /\ Layout(c.head, c.foot, k.bins, k.dv, k.dvsize, lo, e, k.top, u, V, q)
      /\ q \in DOMAIN u /\ q + s = end /\ q # k.top /\ PredUsed(lo, u, V, q)
  BY DEF AtHole
<1>2. c.head[q] \in HeadRecords /\ c.head[q].size = s /\ c.head[q].cinuse
      /\ (c.head[q].pinuse <=> PredUsed(lo, u, V, q))
  BY <1>1 DEF WellFormed
<1>3. QED
  BY <1>1, <1>2, LayoutCloseUsed

Taken(at, i) == {at[j] : j \in 1 .. i + 1}

(* The first i chunks have been cut out of the one at p, and the rest of   *)
(* it is the hole.                                                         *)
CutTo(c, k, at, sizes, i, end, lo, e, u, t, U) ==
  /\ AtHole(c, k, at[i + 1], end, lo, e, u, U \cup Taken(at, i))
  /\ \A j \in 1 .. i : u[at[j]] = sizes[j]
  /\ Keeps(u, t, U) /\ u[k.top] = t[k.top]
  /\ \A j \in 1 .. i + 1 : at[j] \notin U

LEMMA CutOneMore ==
  ASSUME NEW c, NEW k, NEW at, NEW sizes, NEW i \in Nat, NEW end, NEW lo, NEW e, NEW u, NEW t, NEW U,
         CutTo(c, k, at, sizes, i, end, lo, e, u, t, U),
         NEW a, a = sizes[i + 1], a \in Nat, a >= 16, a % 8 = 0,
         NEW q, q = at[i + 1], NEW r, r = at[(i + 1) + 1], r = q + a, r < end,
         \A j \in 1 .. i : at[j] # q,
         NEW n, n = set_size_and_pinuse_of_inuse_chunk(c, q, a),
         NEW v, v = CutChunk(u, q, a)
  PROVE  CutTo(n, k, at, sizes, i + 1, end, lo, e, v, t, U)
<1> DEFINE V == U \cup Taken(at, i)
           W == V \cup {r}
<1>1. AtHole(c, k, q, end, lo, e, u, V)
  BY DEF CutTo
<1> HIDE DEF V
<1>2. HoleMoved(n, k, q, a, r, end, lo, e, u, CutChunk(u, q, a), V, W)
  BY <1>1, HoleMoves
<1>3. /\ AtHole(n, k, r, end, lo, e, v, W) /\ v[q] = a /\ r \notin DOMAIN u
      /\ \A x \in DOMAIN u : x # q => v[x] = u[x]
  BY <1>2 DEF HoleMoved
<1>4. V \subseteq DOMAIN u /\ k.top \in DOMAIN u /\ q # k.top
  BY <1>1, LayoutHole DEF AtHole
<1>5. 1 .. (i + 1) + 1 = (1 .. i + 1) \cup {(i + 1) + 1} /\ 1 .. i + 1 = (1 .. i) \cup {i + 1}
  OBVIOUS
<1>6. W = U \cup Taken(at, i + 1)
  BY <1>5 DEF W, V, Taken
<1> HIDE DEF W
<1>7. \A j \in 1 .. i + 1 : at[j] \in V
  BY DEF V, Taken
<1>8. \A j \in 1 .. i + 1 : v[at[j]] = sizes[j]
  <2>1. ASSUME NEW j \in 1 .. i
        PROVE  v[at[j]] = sizes[j]
    <3>1. at[j] \in DOMAIN u /\ at[j] # q
      BY <1>4, <1>5, <1>7
    <3>2. u[at[j]] = sizes[j]
      BY DEF CutTo
    <3>3. QED
      BY <1>3, <3>1, <3>2
  <2>2. v[at[i + 1]] = sizes[i + 1]
    BY <1>3
  <2>3. QED
    BY <1>5, <2>1, <2>2
<1>9. q \notin U /\ U \subseteq DOMAIN u
  <2>1. i + 1 \in 1 .. i + 1
    OBVIOUS
  <2>2. QED
    BY <1>4, <2>1 DEF CutTo, V
<1>10. Keeps(v, t, U) /\ v[k.top] = t[k.top]
  <2>1. Keeps(u, t, U) /\ u[k.top] = t[k.top]
    BY DEF CutTo
  <2>2. QED
    BY <1>3, <1>4, <1>9, <2>1 DEF Keeps
<1>11. \A j \in 1 .. (i + 1) + 1 : at[j] \notin U
  <2>1. r \notin U
    BY <1>3, <1>9
  <2>2. \A j \in 1 .. i + 1 : at[j] \notin U
    BY DEF CutTo
  <2>3. QED
    BY <1>5, <2>1, <2>2
<1>12. AtHole(n, k, at[(i + 1) + 1], end, lo, e, v, U \cup Taken(at, i + 1))
  BY <1>3, <1>6
<1>13. QED
  BY <1>8, <1>10, <1>11, <1>12 DEF CutTo

LEMMA CutsAdvance ==
  ASSUME NEW k, NEW p \in Nat, NEW sizes, ChunkSeq(sizes), NEW n \in Nat, n = Len(sizes),
         NEW room \in Nat, NEW at, StartsAt(at, p, sizes, n),
         NEW cut, CutsFrom(cut, k, at, p, sizes, room, n),
         NEW end \in Nat, NEW lo, NEW e, NEW t, NEW U, NEW V, V = U \cup {p}, p \notin U,
         AtHole(k, k, p, end, lo, e, t, V),
         NEW N \in Nat, N <= n, N < n \/ p + room = at[n + 1], at[N + 1] < end
  PROVE  \E u : CutTo(cut[N], k, at, sizes, N, end, lo, e, u, t, U)
<1> DEFINE P(i) == i <= N => \E u : CutTo(cut[i], k, at, sizes, i, end, lo, e, u, t, U)
           T == {i \in Nat : P(i)}
<1>1. P(0)
  <2>1. cut[0] = k /\ at[0 + 1] = p
    BY DEF CutsFrom, StartsAt
  <2>2. Taken(at, 0) = {p}
    <3>1. 1 .. 0 + 1 = {1}
      OBVIOUS
    <3>2. QED
      BY <2>1, <3>1 DEF Taken
  <2>3. \A j \in 1 .. 0 + 1 : at[j] \notin U
    <3>1. \A j \in 1 .. 0 + 1 : j = 0 + 1
      OBVIOUS
    <3>2. QED
      BY <2>1, <3>1
  <2>4. \A j \in 1 .. 0 : t[at[j]] = sizes[j]
    OBVIOUS
  <2>5. Keeps(t, t, U)
    BY DEF Keeps
  <2>6. CutTo(cut[0], k, at, sizes, 0, end, lo, e, t, t, U)
    BY <2>1, <2>2, <2>3, <2>4, <2>5 DEF CutTo
  <2>7. QED
    BY <2>6
<1>2. ASSUME NEW i \in Nat, P(i)
      PROVE  P(i + 1)
  <2>1. SUFFICES ASSUME i + 1 <= N
                 PROVE  \E u : CutTo(cut[i + 1], k, at, sizes, i + 1, end, lo, e, u, t, U)
    OBVIOUS
  <2>2. PICK u : CutTo(cut[i], k, at, sizes, i, end, lo, e, u, t, U)
    BY <1>2, <2>1
  <2>3. /\ i + 1 \in 1 .. n /\ i + 1 \in 1 .. n + 1 /\ (i + 1) + 1 \in 1 .. n + 1
        /\ N + 1 \in 1 .. n + 1 /\ i + 1 <= n /\ (i + 1) - 1 = i
        /\ (i + 1) + 1 = N + 1 \/ (i + 1) + 1 < N + 1
    BY <2>1
  <2> DEFINE a == sizes[i + 1]
             q == at[i + 1]
             r == at[(i + 1) + 1]
             c == cut[i]
             v == CutChunk(u, q, a)
             w == cut[i + 1]
  <2>4. a \in Nat /\ a >= 16 /\ a % 8 = 0
    BY <2>3 DEF ChunkSeq
  <2>5. r = q + a /\ q \in Nat /\ r \in Nat
    BY <2>3 DEF StartsAt
  <2>6. r < end
    <3>1. at[N + 1] \in Nat
      BY <2>3 DEF StartsAt
    <3>2. CASE (i + 1) + 1 = N + 1
      BY <3>2
    <3>3. CASE (i + 1) + 1 < N + 1
      <4>1. r + sizes[(i + 1) + 1] <= at[N + 1]
        BY <2>3, <3>3 DEF StartsAt
      <4>2. (i + 1) + 1 \in 1 .. n
        BY <2>3, <3>3
      <4>3. sizes[(i + 1) + 1] \in Nat
        BY <4>2 DEF ChunkSeq
      <4>4. QED
        BY <2>5, <3>1, <4>1, <4>3
    <3>4. QED
      BY <2>3, <3>2, <3>3
  <2>7. \A j \in 1 .. i : at[j] # q
    <3>1. ASSUME NEW j \in 1 .. i
          PROVE  at[j] # q
      <4>1. j \in 1 .. n /\ j \in 1 .. n + 1 /\ j < i + 1
        BY <2>3
      <4>2. at[j] + sizes[j] <= q /\ at[j] \in Nat
        BY <2>3, <4>1 DEF StartsAt
      <4>3. sizes[j] \in Nat /\ sizes[j] >= 16
        BY <4>1 DEF ChunkSeq
      <4>4. QED
        BY <2>5, <4>2, <4>3
    <3>2. QED
      BY <3>1
  <2>8. CutSize(at, p, sizes, room, n, i + 1) = a
    <3>1. CASE i + 1 = n
      <4>1. N = n
        BY <2>1, <3>1
      <4>2. p + room = r
        BY <3>1, <4>1
      <4>3. p + room - q = a
        <5> HIDE DEF a, q, r
        <5>1. a \in Int /\ q \in Int /\ p \in Int /\ room \in Int /\ p + room = q + a
          BY <2>4, <2>5, <4>2
        <5>2. QED
          BY <5>1
      <4>4. QED
        BY <3>1, <4>3 DEF CutSize
    <3>2. CASE i + 1 # n
      BY <3>2 DEF CutSize
    <3>3. QED
      BY <3>1, <3>2
  <2>9. w = set_size_and_pinuse_of_inuse_chunk(c, q, a)
    <3>1. cut[i + 1] = set_size_and_pinuse_of_inuse_chunk(cut[(i + 1) - 1], at[i + 1],
                                        CutSize(at, p, sizes, room, n, i + 1))
      BY <2>3 DEF CutsFrom
    <3>2. QED
      BY <2>3, <2>8, <3>1
  <2>10. CutTo(c, k, at, sizes, i, end, lo, e, u, t, U)
    BY <2>2
  <2>11. a = sizes[i + 1] /\ q = at[i + 1] /\ r = at[(i + 1) + 1] /\ v = CutChunk(u, q, a)
    OBVIOUS
  <2>12. SUFFICES \E x : CutTo(w, k, at, sizes, i + 1, end, lo, e, x, t, U)
    OBVIOUS
  <2> HIDE DEF a, q, r, c, v, w
  <2>13. CutTo(w, k, at, sizes, i + 1, end, lo, e, v, t, U)
    BY <2>4, <2>5, <2>6, <2>7, <2>9, <2>10, <2>11, CutOneMore
  <2>14. QED
    BY <2>13
<1>3. 0 \in T /\ \A i \in Nat : i \in T => i + 1 \in T
  <2> HIDE DEF P
  <2>1. QED
    BY <1>1, <1>2
<1>4. Nat \subseteq T
  <2> HIDE DEF T
  <2>1. QED
    BY <1>3, Induction
<1>5. QED
  BY <1>4

(* The rest of it gets its head, and is in use. *)
Filled(n, k, lo, e, u, V) ==
  /\ WellFormed(n) /\ Only(n, k, {"head", "foot"})
  /\ Layout(n.head, n.foot, k.bins, k.dv, k.dvsize, lo, e, k.top, u, V, e)
UsedBehind(k, end) == end \in DOMAIN k.head /\ k.head[end].pinuse

LEMMA HoleFilled ==
  ASSUME NEW c, NEW k, NEW q, NEW end, NEW lo, NEW e, NEW u, NEW V, AtHole(c, k, q, end, lo, e, u, V),
         NEW s, s = u[q], s >= 16, UsedBehind(k, end),
         NEW n, n = set_size_and_pinuse_of_inuse_chunk(c, q, s)
  PROVE  Filled(n, k, lo, e, u, V)
<1>1. /\ WellFormed(c) /\ Only(c, k, {"head", "foot"}) /\ Ahead(c, k, q)
      /\ Layout(c.head, c.foot, k.bins, k.dv, k.dvsize, lo, e, k.top, u, V, q)
      /\ q \in DOMAIN u /\ q + s = end /\ q # k.top /\ PredUsed(lo, u, V, q)
  BY DEF AtHole
<1>2. Tiling(lo, e, u)
  BY <1>1 DEF Layout
<1>3. q \in Nat /\ s \in Nat /\ s > 0
  BY <1>1, <1>2, TilingFacts DEF Tiling
<1>4. Within(q, s, q, s)
  BY <1>3 DEF Within
<1>5. WritesTo(c, n, e, q, s) /\ HeadStored(c, n, q, s, TRUE, TRUE)
  BY <1>1, <1>4, StoreHeadIn DEF set_size_and_pinuse_of_inuse_chunk
<1>6. WellFormed(n) /\ Only(n, c, {"head", "foot"})
  BY <1>5 DEF WritesTo
<1>7. Only(n, k, {"head", "foot"})
  BY <1>1, <1>6, OnlyTransitive
<1>8. Layout(n.head, n.foot, k.bins, k.dv, k.dvsize, lo, e, k.top, u, V, q)
  BY <1>1, <1>5, LayoutFrame DEF WritesTo
<1>9. /\ q \in DOMAIN n.head /\ n.head[q] = [size |-> s, pinuse |-> TRUE, cinuse |-> TRUE]
      /\ \A x \in DOMAIN n.head : x # q => x \in DOMAIN c.head /\ (x < q \/ x >= q + s)
  BY <1>5 DEF HeadStored
<1>10. NoHeads(n.head, q, s)
  <2>1. \A x \in DOMAIN n.head : x \in Nat
    BY <1>6 DEF WellFormed
  <2>2. QED
    BY <1>3, <1>9, <2>1 DEF NoHeads
<1>11. n.head[q] \in HeadRecords /\ n.head[q].size = s /\ n.head[q].cinuse
       /\ (n.head[q].pinuse <=> PredUsed(lo, u, V, q))
  <2>1. n.head[q] \in HeadRecords
    BY <1>6, <1>9 DEF WellFormed
  <2>2. QED
    BY <1>1, <1>9, <2>1
<1>12. n.head[end].pinuse
  <2>1. end >= q /\ end >= q + s
    BY <1>1, <1>3
  <2>2. end \in DOMAIN c.head /\ c.head[end] = k.head[end]
    BY <1>1, <2>1 DEF Ahead, UsedBehind
  <2>3. n.head[end] = c.head[end]
    BY <1>5, <2>1, <2>2 DEF HeadStored
  <2>4. QED
    BY <2>2, <2>3 DEF UsedBehind
<1>13. Layout(n.head, n.foot, k.bins, k.dv, k.dvsize, lo, e, k.top, u, V, e)
  BY <1>1, <1>8, <1>9, <1>10, <1>11, <1>12, LayoutCloseUsed
<1>14. QED
  BY <1>6, <1>7, <1>13 DEF Filled

(* N chunks of the given sizes, and one of all that is left up to end. *)
CutWhole(n, k, at, sizes, N, end, lo, e, u, t, U) ==
  /\ Filled(n, k, lo, e, u, U \cup Taken(at, N))
  /\ \A j \in 1 .. N : u[at[j]] = sizes[j]
  /\ at[N + 1] + u[at[N + 1]] = end
  /\ Keeps(u, t, U) /\ u[k.top] = t[k.top]
  /\ \A j \in 1 .. N + 1 : at[j] \notin U

LEMMA CutsEnd ==
  ASSUME NEW c, NEW k, NEW at, NEW sizes, NEW N \in Nat, NEW end, NEW lo, NEW e, NEW u, NEW t, NEW U,
         CutTo(c, k, at, sizes, N, end, lo, e, u, t, U),
         NEW n, Filled(n, k, lo, e, u, U \cup Taken(at, N))
  PROVE  CutWhole(n, k, at, sizes, N, end, lo, e, u, t, U)
<1>1. at[N + 1] + u[at[N + 1]] = end
  BY DEF CutTo, AtHole
<1>2. QED
  BY <1>1 DEF CutTo, CutWhole

(* The elements, the last of which is all that is left. *)
LEMMA OwnCarve ==
  ASSUME NEW k, NEW p \in Nat, NEW sizes, ChunkSeq(sizes), NEW n \in Nat, n = Len(sizes),
         NEW N \in Nat, N + 1 = n,
         NEW room \in Nat, NEW at, StartsAt(at, p, sizes, n),
         NEW cut, CutsFrom(cut, k, at, p, sizes, room, n),
         NEW end, end = p + room, NEW lo, NEW e, NEW t, NEW U, p \notin U,
         AtHole(k, k, p, end, lo, e, t, U \cup {p}), at[n + 1] <= end, UsedBehind(k, end)
  PROVE  \E u : CutWhole(cut[n], k, at, sizes, N, end, lo, e, u, t, U)
<1> DEFINE q == at[N + 1]
           w == cut[n]
           c == cut[N]
<1>1. /\ n \in 1 .. n /\ n \in 1 .. n + 1 /\ n + 1 \in 1 .. n + 1 /\ N <= n /\ N < n
      /\ n - 1 = N
  OBVIOUS
<1>2. sizes[n] \in Nat /\ sizes[n] >= 16 /\ q \in Nat /\ at[n + 1] = q + sizes[n]
  BY <1>1 DEF ChunkSeq, StartsAt
<1>3. end \in Nat /\ q < end
  BY <1>2
<1>4. PICK u : CutTo(c, k, at, sizes, N, end, lo, e, u, t, U)
  BY <1>1, <1>3, CutsAdvance
<1>5. AtHole(c, k, q, end, lo, e, u, U \cup Taken(at, N))
  BY <1>4 DEF CutTo
<1> DEFINE s == u[q]
<1>6. q + s = end /\ s \in Nat
  <2>1. Tiling(lo, e, u) /\ q \in DOMAIN u /\ q + s = end
    BY <1>5 DEF AtHole, Layout
  <2>2. QED
    BY <2>1, TilingFacts
<1>7. s >= 16
  BY <1>2, <1>6
<1>8. CutSize(at, p, sizes, room, n, n) = s
  <2>1. p + room - q = s
    <3> HIDE DEF q, s
    <3>1. p \in Int /\ room \in Int /\ q \in Int /\ s \in Int /\ p + room = q + s
      BY <1>2, <1>6
    <3>2. QED
      BY <3>1
  <2>2. QED
    BY <2>1 DEF CutSize
<1>9. w = set_size_and_pinuse_of_inuse_chunk(c, q, s)
  <2>1. cut[n] = set_size_and_pinuse_of_inuse_chunk(cut[n - 1], at[n], CutSize(at, p, sizes, room, n, n))
    BY <1>1 DEF CutsFrom
  <2>2. QED
    BY <1>1, <1>8, <2>1
<1>10. SUFFICES \E x : CutWhole(w, k, at, sizes, N, end, lo, e, x, t, U)
  OBVIOUS
<1> HIDE DEF q, w, c, s
<1>11. s = u[q]
  BY DEF s
<1>12. Filled(w, k, lo, e, u, U \cup Taken(at, N))
  BY <1>5, <1>7, <1>9, <1>11, HoleFilled
<1>13. CutWhole(w, k, at, sizes, N, end, lo, e, u, t, U)
  BY <1>4, <1>12, CutsEnd
<1>14. QED
  BY <1>13

(* A chunk for the array behind them has its head first.                   *)
ArrayAhead(k, k0, p, q, end, b, lo, e, t, V) ==
  /\ Only(k, k0, {"head", "foot"}) /\ AtHole(k, k, p, end, lo, e, t, V)
  /\ HeadStored(k0, k, q, b, TRUE, TRUE) /\ UsedBehind(k, end)

LEMMA ArrayGoesAhead ==
  ASSUME NEW k0, NEW p \in Nat, NEW end \in Nat, NEW lo, NEW e, NEW t, NEW V,
         AtHole(k0, k0, p, end, lo, e, t, V), UsedBehind(k0, end),
         NEW q \in Nat, p <= q, NEW b \in Nat, b > 0, q + b = end,
         NEW k, k = set_size_and_pinuse_of_inuse_chunk(k0, q, b)
  PROVE  ArrayAhead(k, k0, p, q, end, b, lo, e, t, V)
<1> DEFINE s == t[p]
<1>1. /\ WellFormed(k0)
      /\ Layout(k0.head, k0.foot, k0.bins, k0.dv, k0.dvsize, lo, e, k0.top, t, V, p)
      /\ p \in DOMAIN t /\ p + s = end /\ p # k0.top /\ PredUsed(lo, t, V, p)
  BY DEF AtHole
<1>2. s \in Nat
  BY <1>1, TilingFacts DEF Layout
<1>3. Within(q, b, p, s)
  BY <1>1, <1>2 DEF Within
<1>4. WritesTo(k0, k, e, p, s) /\ HeadStored(k0, k, q, b, TRUE, TRUE)
  BY <1>1, <1>3, StoreHeadIn DEF set_size_and_pinuse_of_inuse_chunk
<1>5. WellFormed(k) /\ Only(k, k0, {"head", "foot"})
  BY <1>4 DEF WritesTo
<1>6. Layout(k.head, k.foot, k0.bins, k0.dv, k0.dvsize, lo, e, k0.top, t, V, p)
  BY <1>1, <1>4, LayoutFrame DEF WritesTo
<1>7. k.bins = k0.bins /\ k.dv = k0.dv /\ k.dvsize = k0.dvsize /\ k.top = k0.top
  BY <1>1, <1>5, FieldsOf DEF WellFormed
<1>8. Ahead(k, k, p) /\ Only(k, k, {"head", "foot"})
  BY <1>5 DEF Ahead, Only
<1>9. AtHole(k, k, p, end, lo, e, t, V)
  BY <1>1, <1>5, <1>6, <1>7, <1>8 DEF AtHole
<1>10. UsedBehind(k, end)
  <2>1. end \in DOMAIN k0.head /\ end >= q + b
    BY DEF UsedBehind
  <2>2. end \in DOMAIN k.head /\ k.head[end] = k0.head[end]
    BY <1>4, <2>1 DEF HeadStored
  <2>3. QED
    BY <2>2 DEF UsedBehind
<1>11. QED
  BY <1>4, <1>5, <1>9, <1>10 DEF ArrayAhead

LEMMA ArrayCarve ==
  ASSUME NEW k0, NEW p \in Nat, NEW sizes, ChunkSeq(sizes), NEW n \in Nat, n = Len(sizes),
         NEW room \in Nat, NEW at, StartsAt(at, p, sizes, n), p + room = at[n + 1],
         NEW end \in Nat, NEW lo, NEW e, NEW t, NEW U, p \notin U,
         NEW q, q = at[n + 1], NEW b \in Nat, b >= 16, q + b = end,
         NEW k, ArrayAhead(k, k0, p, q, end, b, lo, e, t, U \cup {p}),
         NEW cut, CutsFrom(cut, k, at, p, sizes, room, n)
  PROVE  \E u : CutWhole(cut[n], k, at, sizes, n, end, lo, e, u, t, U)
<1> DEFINE c == cut[n]
           V == U \cup Taken(at, n)
<1>1. q \in Nat /\ q < end
  <2>1. n + 1 \in 1 .. n + 1
    OBVIOUS
  <2>2. q \in Nat
    BY <2>1 DEF StartsAt
  <2>3. QED
    BY <2>2
<1>2. AtHole(k, k, p, end, lo, e, t, U \cup {p}) /\ HeadStored(k0, k, q, b, TRUE, TRUE)
      /\ UsedBehind(k, end)
  BY DEF ArrayAhead
<1>3. PICK u : CutTo(c, k, at, sizes, n, end, lo, e, u, t, U)
  BY <1>1, <1>2, CutsAdvance
<1>4. AtHole(c, k, q, end, lo, e, u, V)
  BY <1>3 DEF CutTo
<1>5. SUFFICES \E x : CutWhole(c, k, at, sizes, n, end, lo, e, x, t, U)
  OBVIOUS
<1> HIDE DEF c
<1>6. b = u[q]
  <2>1. Tiling(lo, e, u) /\ q \in DOMAIN u /\ q + u[q] = end
    BY <1>4 DEF AtHole, Layout
  <2>2. u[q] \in Nat
    BY <2>1, TilingFacts
  <2>3. QED
    BY <1>1, <2>1, <2>2
<1>7. WellFormed(c) /\ Only(c, k, {"head", "foot"}) /\ Ahead(c, k, q) /\ WellFormed(k)
  BY <1>4 DEF AtHole
<1>8. q \in DOMAIN c.head /\ c.head[q] = [size |-> b, pinuse |-> TRUE, cinuse |-> TRUE]
  <2>1. q \in DOMAIN k.head /\ k.head[q] = [size |-> b, pinuse |-> TRUE, cinuse |-> TRUE]
    BY <1>2 DEF HeadStored
  <2>2. q >= q
    BY <1>1
  <2>3. q \in DOMAIN c.head /\ c.head[q] = k.head[q]
    BY <1>7, <2>1, <2>2 DEF Ahead
  <2>4. QED
    BY <2>1, <2>3
<1>9. NoHeads(c.head, q, b)
  <2>1. SUFFICES ASSUME NEW x \in DOMAIN c.head, q < x, x < q + b
                 PROVE  FALSE
    BY DEF NoHeads
  <2>2. x \in Nat
    BY <1>7 DEF WellFormed
  <2>3. x > q /\ x # q
    BY <1>1, <2>1, <2>2
  <2>4. x \in DOMAIN k.head
    BY <1>7, <2>3 DEF Ahead
  <2>5. x < q \/ x >= q + b
    BY <1>2, <2>3, <2>4 DEF HeadStored
  <2>6. QED
    BY <1>1, <2>1, <2>2, <2>5
<1>10. c.head[end].pinuse
  <2>1. end \in DOMAIN k.head /\ end >= q
    BY <1>1, <1>2 DEF UsedBehind
  <2>2. c.head[end] = k.head[end]
    BY <1>7, <2>1 DEF Ahead
  <2>3. QED
    BY <1>2, <2>2 DEF UsedBehind
<1>11. Layout(c.head, c.foot, k.bins, k.dv, k.dvsize, lo, e, k.top, u, V, e)
  <2> HIDE DEF V
  <2>1. QED
    BY <1>4, <1>6, <1>8, <1>9, <1>10, HoleCloses
<1>12. Filled(c, k, lo, e, u, U \cup Taken(at, n))
  BY <1>7, <1>11 DEF Filled
<1>13. CutWhole(c, k, at, sizes, n, end, lo, e, u, t, U)
  BY <1>3, <1>12, CutsEnd
<1>14. QED
  BY <1>13

LEMMA GrantOpens ==
  ASSUME NEW k, NEW t, NEW V, Params(k), Heap(k, t, V), NEW p \in V, PredUsed(Lo(k), t, V, p),
         NEW s, s = t[p], NEW end, end = p + s
  PROVE  /\ AtHole(k, k, p, end, Lo(k), End(k), t, V) /\ UsedBehind(k, end) /\ chunksize(k, p) = s
         /\ s \in Nat /\ p \in Nat /\ end \in Nat
<1> DEFINE lo == Lo(k)
           e == End(k)
<1>1. HeapOf(k, lo, e, t, V)
  BY DEF Heap
<1> SUFFICES /\ AtHole(k, k, p, end, lo, e, t, V) /\ UsedBehind(k, end) /\ chunksize(k, p) = s
             /\ s \in Nat /\ p \in Nat /\ end \in Nat
  OBVIOUS
<1>2. PredUsed(lo, t, V, p)
  OBVIOUS
<1> HIDE DEF lo, e
<1>3. WellFormed(k) /\ Layout(k.head, k.foot, k.bins, k.dv, k.dvsize, lo, e, k.top, t, V, e)
  BY <1>1 DEF HeapOf
<1>4. /\ p \in DOMAIN t /\ p \in Nat /\ p # k.top /\ s \in Nat /\ end \in Nat /\ chunksize(k, p) = s
  BY <1>1, UsedFacts
<1>5. Layout(k.head, k.foot, k.bins, k.dv, k.dvsize, lo, e, k.top, t, V, p)
  BY <1>3, LayoutOpenUsed
<1>6. Ahead(k, k, p) /\ Only(k, k, {"head", "foot"})
  BY <1>3 DEF Ahead, Only, WellFormed
<1>7. AtHole(k, k, p, end, lo, e, t, V)
  BY <1>2, <1>3, <1>4, <1>5, <1>6 DEF AtHole
<1>8. UsedBehind(k, end)
  <2>1. end \in DOMAIN k.head /\ (k.head[end].pinuse <=> p \in V)
    BY <1>3, <1>4, ChunkFacts
  <2>2. QED
    BY <2>1 DEF UsedBehind
<1>9. QED
  BY <1>4, <1>7, <1>8

(* The chunks are a heap with those of U. *)
LEMMA CutHeap ==
  ASSUME NEW k, NEW t, NEW V, Params(k), Heap(k, t, V), NEW j, Only(j, k, {"head", "foot"}),
         NEW n, NEW at, NEW sizes, NEW N, NEW end, NEW u, NEW U,
         CutWhole(n, j, at, sizes, N, end, Lo(k), End(k), u, t, U)
  PROVE  /\ Params(n) /\ Heap(n, u, U \cup Taken(at, N))
         /\ n.enomem = k.enomem /\ n.footprint = k.footprint
         /\ n.footprint_limit = k.footprint_limit
<1> DEFINE lo == Lo(k)
           e == End(k)
           W == U \cup Taken(at, N)
<1>1. HeapOf(k, lo, e, t, V) /\ Segment(k)
  BY DEF Heap
<1>2. Filled(n, j, lo, e, u, W) /\ u[j.top] = t[j.top]
  BY DEF CutWhole
<1> SUFFICES /\ Params(n) /\ Heap(n, u, W)
             /\ n.enomem = k.enomem /\ n.footprint = k.footprint
             /\ n.footprint_limit = k.footprint_limit
  OBVIOUS
<1>3. lo = Lo(k) /\ e = End(k)
  OBVIOUS
<1> HIDE DEF lo, e, W
<1>4. IsState(k) /\ k.topsize = t[k.top]
  BY <1>1 DEF HeapOf, WellFormed
<1>5. /\ WellFormed(n) /\ Only(n, j, {"head", "foot"})
      /\ Layout(n.head, n.foot, j.bins, j.dv, j.dvsize, lo, e, j.top, u, W, e)
  BY <1>2 DEF Filled
<1>6. IsState(j)
  BY DEF Only
<1>7. Only(n, k, {"head", "foot"})
  BY <1>5, OnlyTransitive
<1>8. /\ n.bins = j.bins /\ n.top = j.top /\ n.dv = j.dv /\ n.dvsize = j.dvsize
      /\ n.topsize = j.topsize
  BY <1>5, <1>6, FieldsOf
<1>9. j.top = k.top /\ j.topsize = k.topsize /\ Only(n, k, ChunkFields)
  BY <1>4, <1>7, FieldsOf
<1>10. HeapOf(n, lo, e, u, W)
  BY <1>2, <1>4, <1>5, <1>8, <1>9 DEF HeapOf
<1>11. /\ Params(n) /\ Segment(n) /\ Lo(n) = lo /\ End(n) = e
       /\ n.enomem = k.enomem /\ n.footprint = k.footprint
       /\ n.footprint_limit = k.footprint_limit
  BY <1>1, <1>3, <1>9, ChunksOnly
<1>12. QED
  BY <1>10, <1>11 DEF Heap

(* Chunks at the first K of at, beside those of U, with as many bytes as   *)
(* lens says.                                                              *)
Spots(at, K) == {at[i] : i \in 1 .. K}
Apart2(at, K, U) ==
  /\ \A i \in 1 .. K : at[i] \in Nat /\ at[i] \notin U
  /\ \A i \in 1 .. K, j \in 1 .. K : at[i] = at[j] => i = j
Blocks(h, n, at, lens, K, sz, U) ==
  /\ Params(n) /\ n.enomem = h.enomem /\ Growth(h, n) /\ Apart2(at, K, U)
  /\ \E u : /\ Heap(n, u, U \cup Spots(at, K)) /\ Keeps(u, sz, U)
            /\ \A i \in 1 .. K : u[at[i]] >= lens[i]

LEMMA StartsApart ==
  ASSUME NEW p, NEW sizes, ChunkSeq(sizes), NEW n \in Nat, n = Len(sizes),
         NEW at, StartsAt(at, p, sizes, n)
  PROVE  \A i \in 1 .. n + 1, j \in 1 .. n + 1 : at[i] = at[j] => i = j
<1>1. ASSUME NEW i \in 1 .. n + 1, NEW j \in 1 .. n + 1, i < j
      PROVE  at[i] # at[j]
  <2>1. at[i] + sizes[i] <= at[j] /\ at[i] \in Nat /\ at[j] \in Nat
    BY <1>1 DEF StartsAt
  <2>2. i \in 1 .. n
    BY <1>1
  <2>3. sizes[i] \in Nat /\ sizes[i] >= 16
    BY <2>2 DEF ChunkSeq
  <2>4. QED
    BY <2>1, <2>3
<1>2. SUFFICES ASSUME NEW i \in 1 .. n + 1, NEW j \in 1 .. n + 1, at[i] = at[j]
               PROVE  i = j
  OBVIOUS
<1>3. ~(i < j) /\ ~(j < i)
  BY <1>1, <1>2
<1>4. QED
  BY <1>3

LEMMA CutBlocks ==
  ASSUME NEW h, NEW k, NEW t, NEW V, Params(k), Heap(k, t, V), NEW j, Only(j, k, {"head", "foot"}),
         k.enomem = h.enomem, Growth(h, k),
         NEW n, NEW p, NEW at, NEW sizes, ChunkSeq(sizes), NEW N \in Nat, NEW L \in Nat, L = Len(sizes),
         N <= L, StartsAt(at, p, sizes, L),
         NEW end, NEW u, NEW U, NEW sz, Keeps(t, sz, U),
         CutWhole(n, j, at, sizes, N, end, Lo(k), End(k), u, t, U),
         NEW lens, \A i \in 1 .. N : sizes[i] >= lens[i], NEW K, K = N + 1, u[at[K]] >= lens[K]
  PROVE  Blocks(h, n, at, lens, K, sz, U)
<1>1. /\ Params(n) /\ Heap(n, u, U \cup Taken(at, N))
      /\ n.enomem = k.enomem /\ n.footprint = k.footprint
      /\ n.footprint_limit = k.footprint_limit
  BY CutHeap
<1>2. Growth(h, n)
  BY <1>1 DEF Growth
<1>3. Taken(at, N) = Spots(at, K)
  BY DEF Taken, Spots
<1>4. 1 .. K = (1 .. N) \cup {K} /\ K \in Nat /\ K <= L + 1
  OBVIOUS
<1>5. /\ \A i \in 1 .. N : u[at[i]] = sizes[i]
      /\ Keeps(u, t, U) /\ \A i \in 1 .. K : at[i] \notin U
  BY DEF CutWhole
<1>6. Apart2(at, K, U)
  <2>1. \A i \in 1 .. K : i \in 1 .. L + 1
    BY <1>4
  <2>2. \A i \in 1 .. K : at[i] \in Nat
    BY <2>1 DEF StartsAt
  <2>3. \A i \in 1 .. L + 1, x \in 1 .. L + 1 : at[i] = at[x] => i = x
    BY StartsApart
  <2>4. QED
    BY <1>5, <2>1, <2>2, <2>3 DEF Apart2
<1>7. \A i \in 1 .. K : u[at[i]] >= lens[i]
  <2>1. ASSUME NEW i \in 1 .. K
        PROVE  u[at[i]] >= lens[i]
    <3>1. CASE i \in 1 .. N
      BY <1>5, <3>1
    <3>2. CASE i = K
      BY <3>2
    <3>3. QED
      BY <1>4, <3>1, <3>2
  <2>2. QED
    BY <2>1
<1>8. Keeps(u, sz, U)
  BY <1>5 DEF Keeps
<1>9. QED
  BY <1>1, <1>2, <1>3, <1>6, <1>7, <1>8 DEF Blocks

Chunks2Mems(at, n) == [i \in 1 .. n |-> chunk2mem(at[i])]

Granted(h, got, nb, sz, U) ==
  LET k == got.m
      p == mem2chunk(got.mem)
  IN
  /\ got.mem # 0 /\ p \in Nat /\ p \notin U /\ k.enomem = h.enomem /\ Growth(h, k)
  /\ \E t : /\ Params(k) /\ Heap(k, t, U \cup {p}) /\ t[p] >= nb
            /\ PredUsed(Lo(k), t, U \cup {p}, p) /\ Keeps(t, sz, U)

LEMMA GrantChunk ==
  ASSUME NEW h, NEW got, NEW nb \in Nat, NEW sz, NEW U, Grants(h, got, nb, sz, U)
  PROVE  Granted(h, got, nb, sz, U)
<1> DEFINE k == got.m
           p == mem2chunk(got.mem)
<1>1. PICK q, t : /\ q \in Nat /\ got.mem = chunk2mem(q) /\ q \notin U
                   /\ Params(k) /\ Heap(k, t, U \cup {q})
                   /\ t[q] >= nb /\ PredUsed(Lo(k), t, U \cup {q}, q) /\ Keeps(t, sz, U)
                   /\ k.enomem = h.enomem /\ Growth(h, k)
  BY DEF Grants
<1>2. p = q /\ got.mem # 0
  BY <1>1 DEF chunk2mem, mem2chunk, SIZE_T_SIZE, TWO_SIZE_T_SIZES
<1>3. QED
  BY <1>1, <1>2 DEF Granted

CarvedOwn(h, r, n, lens, sz, U) ==
  r.mem = 0 /\ \E at : r.mems = Chunks2Mems(at, n) /\ Blocks(h, r.m, at, lens, n, sz, U)
CarvedBoth(h, r, n, lens, sz, U) ==
  \E at : /\ r.mems = Chunks2Mems(at, n) /\ r.mem = chunk2mem(at[n + 1])
          /\ Blocks(h, r.m, at, lens, n + 1, sz, U)

LEMMA ElementsAre ==
  ASSUME NEW k, NEW p, NEW sizes, NEW n \in Nat, n = Len(sizes), NEW room, NEW mem,
         NEW at, at = Starts(p, sizes), NEW cut, cut = CutUp(k, p, sizes, room),
         NEW r, r = Elements(k, p, sizes, room, mem)
  PROVE  r.m = cut[n] /\ r.mem = mem /\ r.mems = Chunks2Mems(at, n)
BY DEF Elements, Chunks2Mems

CoversAll(sizes, lens, n) == \A i \in 1 .. n : lens[i] \in Nat /\ sizes[i] >= lens[i]

LEMMA CarveOwnBlocks ==
  ASSUME NEW h, NEW got, NEW nb \in Nat, NEW sz, NEW U, Grants(h, got, nb, sz, U),
         NEW k, k = got.m, NEW p, p = mem2chunk(got.mem),
         NEW sizes, ChunkSeq(sizes), NEW n \in Nat, n = Len(sizes), n # 0,
         NEW lens, CoversAll(sizes, lens, n), nb >= SumOf(sizes),
         NEW r, r = Elements(k, p, sizes, chunksize(k, p), 0)
  PROVE  CarvedOwn(h, r, n, lens, sz, U)
<1>0. Granted(h, got, nb, sz, U)
  BY GrantChunk
<1>1. p \in Nat /\ p \notin U /\ k.enomem = h.enomem /\ Growth(h, k)
  BY <1>0 DEF Granted
<1>2. PICK t : /\ Params(k) /\ Heap(k, t, U \cup {p}) /\ t[p] >= nb
               /\ PredUsed(Lo(k), t, U \cup {p}, p) /\ Keeps(t, sz, U)
  BY <1>0 DEF Granted
<1> DEFINE lo == Lo(k)
           e == End(k)
           V == U \cup {p}
           s == t[p]
           end == p + s
           at == Starts(p, sizes)
           cut == CutUp(k, p, sizes, s)
           N == n - 1
           c == cut[n]
<1>3. p \in V
  OBVIOUS
<1>4. /\ AtHole(k, k, p, end, lo, e, t, V) /\ UsedBehind(k, end) /\ chunksize(k, p) = s
      /\ s \in Nat /\ end \in Nat
  <2>1. s = t[p] /\ end = p + s
    OBVIOUS
  <2> HIDE DEF s, end, V
  <2>2. Params(k) /\ Heap(k, t, V) /\ PredUsed(Lo(k), t, V, p)
    BY <1>2 DEF V
  <2>3. QED
    BY <1>3, <2>1, <2>2, GrantOpens
<1>5. N \in Nat /\ N + 1 = n /\ N <= n /\ n \in 1 .. n
  OBVIOUS
<1>6. StartsAt(at, p, sizes, n)
  BY <1>1, StartsAre
<1>7. at[n + 1] = p + SumOf(sizes) /\ SumOf(sizes) \in Nat
  <2> DEFINE sum == SumOf(sizes)
  <2>1. at = Starts(p, sizes) /\ sum = SumOf(sizes)
    OBVIOUS
  <2>2. SUFFICES at[n + 1] = p + sum /\ sum \in Nat
    OBVIOUS
  <2> HIDE DEF at, sum
  <2>3. QED
    BY <1>1, <2>1, SumIs
<1>8. CutsFrom(cut, k, at, p, sizes, s, n)
  <2>1. at = Starts(p, sizes) /\ cut = CutUp(k, p, sizes, s)
    OBVIOUS
  <2> HIDE DEF at, cut, s
  <2>2. QED
    BY <2>1, CutUpIs
<1>9. r.m = c /\ r.mem = 0 /\ r.mems = Chunks2Mems(at, n)
  <2>1. at = Starts(p, sizes) /\ cut = CutUp(k, p, sizes, s) /\ c = cut[n]
    OBVIOUS
  <2>2. r = Elements(k, p, sizes, s, 0)
    BY <1>4
  <2> HIDE DEF at, cut, s, c
  <2>3. QED
    BY <2>1, <2>2 DEF Elements, Chunks2Mems
<1>10. at[n + 1] <= end
  <2>1. s >= SumOf(sizes)
    BY <1>2, <1>4, <1>7
  <2>2. QED
    BY <1>1, <1>4, <1>7, <2>1
<1>11. end = p + s /\ lo = Lo(k) /\ e = End(k) /\ V = U \cup {p} /\ c = cut[n]
  OBVIOUS
<1>12. Params(k) /\ Heap(k, t, V) /\ Keeps(t, sz, U) /\ IsState(k)
  BY <1>2 DEF Heap, HeapOf, WellFormed
<1> HIDE DEF lo, e, V, s, end, at, cut, N, c
<1>13. PICK u : CutWhole(c, k, at, sizes, N, end, lo, e, u, t, U)
  BY <1>1, <1>4, <1>5, <1>6, <1>8, <1>10, <1>11, OwnCarve
<1>14. u[at[n]] >= lens[n]
  <2> DEFINE a == at[n]
             z == sizes[n]
             b == u[a]
  <2>1. a + b = end
    BY <1>5, <1>13 DEF CutWhole
  <2>2. a \in Nat /\ at[n + 1] = a + z /\ n \in 1 .. n + 1
    BY <1>5, <1>6 DEF StartsAt
  <2>3. z \in Nat /\ z >= lens[n] /\ lens[n] \in Nat
    BY <1>5 DEF ChunkSeq, CoversAll
  <2>4. b \in Nat
    <3>1. Filled(c, k, lo, e, u, U \cup Taken(at, N))
      BY <1>13 DEF CutWhole
    <3>2. Tiling(lo, e, u) /\ U \cup Taken(at, N) \subseteq DOMAIN u
      BY <3>1, LayoutHole DEF Filled, Layout
    <3>3. a \in DOMAIN u
      BY <1>5, <3>2 DEF Taken
    <3>4. QED
      BY <3>2, <3>3, TilingFacts
  <2>5. QED
    <3> HIDE DEF a, b, z
    <3>1. a + z <= a + b
      BY <1>10, <2>1, <2>2
    <3>2. b >= z
      BY <2>2, <2>3, <2>4, <3>1
    <3>3. b >= lens[n]
      BY <2>3, <2>4, <3>2
    <3>4. QED
      BY <3>3 DEF b, a
<1>15. Only(k, k, {"head", "foot"})
  BY <1>12 DEF Only
<1>16. \A i \in 1 .. N : sizes[i] >= lens[i]
  BY <1>5 DEF CoversAll
<1>17. CutWhole(c, k, at, sizes, N, end, Lo(k), End(k), u, t, U)
  BY <1>11, <1>13
<1>18. Blocks(h, c, at, lens, n, sz, U)
  BY <1>1, <1>5, <1>6, <1>12, <1>14, <1>15, <1>16, <1>17, CutBlocks
<1>19. QED
  BY <1>9, <1>18 DEF CarvedOwn

Covers(sizes, lens, n, more) ==
  (\A i \in 1 .. n : sizes[i] >= lens[i]) /\ lens[n + 1] \in Nat /\ lens[n + 1] <= more

LEMMA CarveBothBlocks ==
  ASSUME NEW h, NEW got, NEW nb \in Nat, NEW sz, NEW U, Grants(h, got, nb, sz, U),
         NEW k, k = got.m, NEW p, p = mem2chunk(got.mem),
         NEW sizes, ChunkSeq(sizes), NEW n \in Nat, n = Len(sizes),
         NEW room, room = SumOf(sizes), NEW more \in Nat, more >= 16, nb >= room + more,
         NEW lens, Covers(sizes, lens, n, more),
         NEW q, q = p + room,
         NEW j, j = set_size_and_pinuse_of_inuse_chunk(k, q, chunksize(k, p) - room),
         NEW r, r = Elements(j, p, sizes, room, chunk2mem(q))
  PROVE  CarvedBoth(h, r, n, lens, sz, U)
<1>0. Granted(h, got, nb, sz, U)
  BY GrantChunk
<1>1. p \in Nat /\ p \notin U /\ k.enomem = h.enomem /\ Growth(h, k)
  BY <1>0 DEF Granted
<1>2. PICK t : /\ Params(k) /\ Heap(k, t, U \cup {p}) /\ t[p] >= nb
               /\ PredUsed(Lo(k), t, U \cup {p}, p) /\ Keeps(t, sz, U)
  BY <1>0 DEF Granted
<1> DEFINE lo == Lo(k)
           e == End(k)
           V == U \cup {p}
           s == t[p]
           end == p + s
           at == Starts(p, sizes)
           cut == CutUp(j, p, sizes, room)
           c == cut[n]
           b == s - room
           K == n + 1
<1>3. p \in V
  OBVIOUS
<1>4. /\ AtHole(k, k, p, end, lo, e, t, V) /\ UsedBehind(k, end) /\ chunksize(k, p) = s
      /\ s \in Nat /\ end \in Nat
  <2>1. s = t[p] /\ end = p + s
    OBVIOUS
  <2> HIDE DEF s, end, V
  <2>2. Params(k) /\ Heap(k, t, V) /\ PredUsed(Lo(k), t, V, p)
    BY <1>2 DEF V
  <2>3. QED
    BY <1>3, <2>1, <2>2, GrantOpens
<1>6. StartsAt(at, p, sizes, n)
  BY <1>1, StartsAre
<1>7. at[n + 1] = p + room /\ room \in Nat
  <2>1. at = Starts(p, sizes)
    OBVIOUS
  <2> HIDE DEF at
  <2>2. p \in Nat /\ ChunkSeq(sizes) /\ n \in Nat /\ n = Len(sizes) /\ room = SumOf(sizes)
    BY <1>1
  <2>3. QED
    BY <2>1, <2>2, SumIs
<1>8. CutsFrom(cut, j, at, p, sizes, room, n)
  <2>1. at = Starts(p, sizes) /\ cut = CutUp(j, p, sizes, room)
    OBVIOUS
  <2> HIDE DEF at, cut
  <2>2. QED
    BY <2>1, CutUpIs
<1>9. r.m = c /\ r.mem = chunk2mem(q) /\ r.mems = Chunks2Mems(at, n)
  <2>1. at = Starts(p, sizes) /\ cut = CutUp(j, p, sizes, room) /\ c = cut[n]
    OBVIOUS
  <2> HIDE DEF at, cut, c
  <2>3. QED
    BY <2>1, ElementsAre
<1>10. b \in Nat /\ b >= more /\ b >= 16 /\ q + b = end /\ q \in Nat /\ p <= q /\ b > 0 /\ q = at[n + 1]
  <2>1. q \in Nat /\ p <= q /\ q = at[n + 1]
    BY <1>1, <1>7
  <2>2. s \in Nat /\ s >= nb /\ room \in Nat
    BY <1>2, <1>4, <1>7
  <2>3. b \in Nat /\ b >= more /\ b >= 16 /\ b > 0
    BY <2>2
  <2>4. q + b = end
    <3> HIDE DEF s
    <3>1. QED
      BY <1>1, <2>2
  <2>5. QED
    BY <2>1, <2>3, <2>4
<1>11. j = set_size_and_pinuse_of_inuse_chunk(k, q, b)
  BY <1>4
<1>12. /\ end = p + s /\ lo = Lo(k) /\ e = End(k) /\ V = U \cup {p} /\ c = cut[n] /\ K = n + 1
       /\ K \in Nat
  OBVIOUS
<1>13. Params(k) /\ Heap(k, t, V) /\ Keeps(t, sz, U)
  BY <1>2
<1> HIDE DEF lo, e, V, s, end, at, cut, c, b, K
<1>14. ArrayAhead(j, k, p, q, end, b, lo, e, t, V)
  BY <1>1, <1>4, <1>10, <1>11, ArrayGoesAhead
<1>15. Only(j, k, {"head", "foot"})
  BY <1>14 DEF ArrayAhead
<1>16. PICK u : CutWhole(c, j, at, sizes, n, end, lo, e, u, t, U)
  <2>1. /\ p \in Nat /\ ChunkSeq(sizes) /\ n \in Nat /\ n = Len(sizes) /\ room \in Nat
        /\ StartsAt(at, p, sizes, n) /\ p + room = at[n + 1] /\ end \in Nat /\ p \notin U
        /\ q = at[n + 1] /\ b \in Nat /\ b >= 16 /\ q + b = end
    BY <1>1, <1>4, <1>6, <1>7, <1>10
  <2>2. ArrayAhead(j, k, p, q, end, b, lo, e, t, U \cup {p})
    BY <1>12, <1>14
  <2>3. \E u : CutWhole(cut[n], j, at, sizes, n, end, lo, e, u, t, U)
    BY <1>8, <2>1, <2>2, ArrayCarve
  <2>4. QED
    BY <1>12, <2>3
<1>17. u[at[K]] >= lens[K]
  <2>1. q + u[q] = end
    BY <1>10, <1>16 DEF CutWhole
  <2>2. u[q] \in Nat
    <3>1. Filled(c, j, lo, e, u, U \cup Taken(at, n))
      BY <1>16 DEF CutWhole
    <3>2. Tiling(lo, e, u) /\ U \cup Taken(at, n) \subseteq DOMAIN u
      BY <3>1, LayoutHole DEF Filled, Layout
    <3>3. n + 1 \in 1 .. n + 1
      OBVIOUS
    <3>4. q \in DOMAIN u
      BY <1>10, <3>2, <3>3 DEF Taken
    <3>5. QED
      BY <3>2, <3>4, TilingFacts
  <2>3. u[q] = b
    BY <1>10, <2>1, <2>2
  <2>4. b >= lens[K]
    BY <1>10, <1>12 DEF Covers
  <2>5. QED
    BY <1>10, <1>12, <2>3, <2>4
<1>18. CutWhole(c, j, at, sizes, n, end, Lo(k), End(k), u, t, U)
  BY <1>12, <1>16
<1>19. n <= n /\ \A i \in 1 .. n : sizes[i] >= lens[i]
  BY DEF Covers
<1>20. Blocks(h, c, at, lens, K, sz, U)
  BY <1>1, <1>6, <1>12, <1>13, <1>15, <1>17, <1>18, <1>19, CutBlocks
<1>21. QED
  BY <1>9, <1>10, <1>12, <1>20 DEF CarvedBoth

SizesOf(requests) == [i \in DOMAIN requests |-> request2size(requests[i])]
(* The bytes the elements have to have, and the array. *)
Lens(requests) ==
  [i \in 1 .. Len(requests) + 1 |->
     IF i <= Len(requests) THEN requests[i] + 4 ELSE Len(requests) * 4 + 4]

LEMMA SizesAre ==
  ASSUME NEW requests \in Seq(Nat), \A i \in DOMAIN requests : requests[i] < MAX_REQUEST,
         NEW n, n = Len(requests), NEW sizes, sizes = SizesOf(requests)
  PROVE  /\ n \in Nat /\ Len(sizes) = n /\ ChunkSeq(sizes)
         /\ \A i \in 1 .. n : requests[i] \in Nat /\ sizes[i] >= requests[i] + 4
<1>1. n \in Nat /\ DOMAIN requests = 1 .. n
  OBVIOUS
<1>2. \A i \in 1 .. n : requests[i] \in Nat /\ sizes[i] = request2size(requests[i])
  BY <1>1 DEF SizesOf
<1>3. \A i \in 1 .. n : sizes[i] \in Nat /\ sizes[i] >= 16 /\ sizes[i] % 8 = 0 /\ sizes[i] >= requests[i] + 4
  <2>1. ASSUME NEW i \in 1 .. n
        PROVE  sizes[i] \in Nat /\ sizes[i] >= 16 /\ sizes[i] % 8 = 0 /\ sizes[i] >= requests[i] + 4
    <3> DEFINE b == requests[i]
               z == sizes[i]
    <3>1. b \in Nat /\ b < MAX_REQUEST /\ z = request2size(b)
      BY <1>1, <1>2
    <3> HIDE DEF b, z
    <3>2. z \in Nat /\ z >= 16 /\ z % 8 = 0 /\ z >= b + 4
      BY <3>1, RequestSizes
    <3>3. QED
      BY <3>2 DEF b, z
  <2>2. QED
    BY <2>1
<1>4. Len(sizes) = n
  <2>1. DOMAIN sizes = 1 .. n
    BY <1>1 DEF SizesOf
  <2>2. sizes = [i \in 1 .. n |-> request2size(requests[i])]
    BY <1>1 DEF SizesOf
  <2>3. sizes \in [1 .. n -> Nat]
    BY <1>3, <2>2
  <2>4. sizes \in Seq(Nat)
    BY <1>1, <2>3
  <2>5. QED
    BY <1>1, <2>1, <2>4
<1>5. QED
  BY <1>1, <1>2, <1>3, <1>4 DEF ChunkSeq

LEMMA ArraySizeIs ==
  ASSUME NEW n \in Nat, n * SIZE_T_SIZE < MAX_REQUEST, NEW a, a = ArraySize(n)
  PROVE  a \in Nat /\ a >= 16 /\ a >= n * 4 + 4
<1> DEFINE b == n * SIZE_T_SIZE
<1>1. b \in Nat /\ b = n * 4
  BY DEF SIZE_T_SIZE
<1>2. Word(b) = b
  <2>1. b < WordSize
    BY <1>1, Requests
  <2> HIDE DEF b
  <2>2. QED
    BY <1>1, <2>1, WordIsLess
<1>3. a = request2size(b)
  BY <1>2 DEF ArraySize
<1> HIDE DEF b
<1>4. b < MAX_REQUEST
  BY DEF b
<1>5. a \in Nat /\ a >= 16 /\ a >= b + 4
  BY <1>1, <1>3, <1>4, RequestSizes
<1>6. QED
  BY <1>1, <1>5

LEMMA SumIsLarge ==
  ASSUME NEW sizes, ChunkSeq(sizes), NEW n \in Nat, n = Len(sizes), n # 0,
         NEW sum, sum = SumOf(sizes)
  PROVE  sum \in Nat /\ sum >= 16
<1> DEFINE at == Starts(0, sizes)
<1>1. at = Starts(0, sizes) /\ 0 \in Nat
  OBVIOUS
<1> HIDE DEF at
<1>2. StartsAt(at, 0, sizes, n)
  BY <1>1, StartsAre
<1>3. sum \in Nat /\ at[n + 1] = 0 + sum
  BY <1>1, SumIs
<1>4. 1 \in 1 .. n + 1 /\ n + 1 \in 1 .. n + 1 /\ 1 < n + 1 /\ 1 \in 1 .. n
  OBVIOUS
<1>5. at[1] = 0 /\ at[1] + sizes[1] <= at[n + 1]
  BY <1>2, <1>4 DEF StartsAt
<1>6. sizes[1] \in Nat /\ sizes[1] >= 16
  BY <1>4 DEF ChunkSeq
<1>7. QED
  BY <1>3, <1>5, <1>6

LEMMA TotalIs ==
  ASSUME NEW sum \in Nat, sum >= 16, NEW more \in Nat, sum + more < WordSize,
         NEW total, total = Word(Word(sum) + more - CHUNK_OVERHEAD)
  PROVE  total \in Nat /\ total + 4 = sum + more
<1>1. Word(sum) = sum
  BY WordIsLess, Requests
<1> DEFINE x == sum + more - CHUNK_OVERHEAD
<1>2. total = Word(x)
  BY <1>1
<1>3. x \in Nat /\ x + 4 = sum + more /\ x < WordSize
  BY Requests DEF CHUNK_OVERHEAD, SIZE_T_SIZE
<1> HIDE DEF x
<1>4. Word(x) = x
  BY <1>3, WordIsLess
<1>5. QED
  BY <1>2, <1>3, <1>4

LEMMA BlocksFrom ==
  ASSUME NEW h, NEW k, k.enomem = h.enomem, k.footprint = h.footprint,
         k.footprint_limit = h.footprint_limit, is_initialized(k) <=> is_initialized(h),
         NEW n, NEW at, NEW lens, NEW K, NEW sz, NEW U, Blocks(k, n, at, lens, K, sz, U)
  PROVE  Blocks(h, n, at, lens, K, sz, U)
BY DEF Blocks, Growth

IallocOutcome(h, r, requests, sz, U) ==
  \/ CarvedOwn(h, r, Len(requests), Lens(requests), sz, U)
  \/ CarvedBoth(h, r, Len(requests), Lens(requests), sz, U)
  \/ (Fails(h, r, sz, U) \/ Declines(h, r, sz, U)) /\ r.mems = <<>>

(* What is left alone by ensure_initialization. *)
Same(k, h) ==
  /\ k.enomem = h.enomem /\ k.footprint = h.footprint /\ k.footprint_limit = h.footprint_limit
  /\ is_initialized(k) <=> is_initialized(h)

LEMMA EnsuredSame ==
  ASSUME NEW h, NEW sz, NEW U, Mem(h, sz, U), NEW k, k = ensure_initialization(h)
  PROVE  Same(k, h)
<1>1. IsState(h) /\ Params(h)
  BY MemIsState
<1>2. Ensured(k, h)
  BY <1>1, EnsureInitializes
<1>3. QED
  BY <1>1, <1>2, EnsuredMem DEF Same

LEMMA SameFrom ==
  ASSUME NEW h, NEW k, Same(k, h), NEW r, NEW n, NEW lens, NEW sz, NEW U
  PROVE  /\ CarvedOwn(k, r, n, lens, sz, U) => CarvedOwn(h, r, n, lens, sz, U)
         /\ CarvedBoth(k, r, n, lens, sz, U) => CarvedBoth(h, r, n, lens, sz, U)
<1>1. ASSUME NEW at, NEW K, Blocks(k, r.m, at, lens, K, sz, U)
      PROVE  Blocks(h, r.m, at, lens, K, sz, U)
  BY <1>1, BlocksFrom DEF Same
<1>2. QED
  BY <1>1 DEF CarvedOwn, CarvedBoth

LEMMA LensAre ==
  ASSUME NEW requests \in Seq(Nat), NEW n, n = Len(requests), NEW lens, lens = Lens(requests)
  PROVE  /\ \A i \in 1 .. n : lens[i] = requests[i] + 4
         /\ lens[n + 1] = n * 4 + 4
<1>1. n \in Nat /\ \A i \in 1 .. n : i \in 1 .. n + 1 /\ i <= n
  OBVIOUS
<1>2. n + 1 \in 1 .. n + 1 /\ ~(n + 1 <= n)
  BY <1>1
<1>3. QED
  BY <1>1, <1>2 DEF Lens

LEMMA NoElementsOutcome ==
  ASSUME NEW h, NEW sz, NEW U, NEW got, Fails(h, got, sz, U) \/ Declines(h, got, sz, U),
         NEW r, r = NoElements(got)
  PROVE  (Fails(h, r, sz, U) \/ Declines(h, r, sz, U)) /\ r.mems = <<>>
<1>1. r.m = got.m /\ r.mem = got.mem /\ r.mems = <<>>
  BY DEF NoElements
<1>2. QED
  BY <1>1 DEF Fails, Declines

LEMMA CarvedOutcome ==
  ASSUME NEW h, NEW sz, NEW U, Mem(h, sz, U), NEW requests \in Seq(Nat), SumsUp(requests),
         NEW own \in BOOLEAN, NEW env, requests # <<>>,
         NEW sizes, sizes = SizesOf(requests),
         NEW more, more = IF own THEN 0 ELSE ArraySize(Len(requests)),
         NEW total, total = Word(Word(SumOf(sizes)) + more - CHUNK_OVERHEAD),
         NEW got, got = dlmalloc(h, total, env),
         NEW r, r = IF got.mem = 0 THEN NoElements(got)
                    ELSE Carve(got.m, mem2chunk(got.mem), sizes, own)
  PROVE  IallocOutcome(h, r, requests, sz, U)
<1> DEFINE n == Len(requests)
           sum == SumOf(sizes)
           lens == Lens(requests)
           a == ArraySize(n)
           k == got.m
           p == mem2chunk(got.mem)
           nb == ChunkSizeFor(total)
<1>1. /\ \A i \in DOMAIN requests : requests[i] < MAX_REQUEST
      /\ n * SIZE_T_SIZE < MAX_REQUEST
      /\ sum + a < WordSize
  BY DEF SumsUp, SizesOf
<1>2. n \in Nat /\ n # 0
  <2>1. Len(requests) \in Nat /\ (Len(requests) = 0 => requests = <<>>)
    OBVIOUS
  <2>2. QED
    BY <2>1
<1>3. /\ Len(sizes) = n /\ ChunkSeq(sizes)
      /\ \A i \in 1 .. n : requests[i] \in Nat /\ sizes[i] >= requests[i] + 4
  BY <1>1, SizesAre
<1>4. a \in Nat /\ a >= 16 /\ a >= n * 4 + 4
  BY <1>1, <1>2, ArraySizeIs
<1>5. sum \in Nat /\ sum >= 16
  <2>1. n = Len(sizes) /\ sum = SumOf(sizes)
    BY <1>3
  <2> HIDE DEF n, sum
  <2>2. QED
    BY <1>2, <1>3, <2>1, SumIsLarge
<1>6. more \in Nat /\ sum + more < WordSize /\ (own => more = 0) /\ (~own => more = a)
  <2> HIDE DEF sum, a
  <2>1. more = IF own THEN 0 ELSE a
    BY DEF a
  <2>2. WordSize \in Nat
    BY Requests
  <2>3. CASE own
    BY <1>1, <1>4, <1>5, <2>1, <2>2, <2>3
  <2>4. CASE ~own
    BY <1>1, <1>4, <1>5, <2>1, <2>2, <2>4
  <2>5. QED
    BY <2>3, <2>4
<1>7. total \in Nat /\ total + 4 = sum + more
  <2>1. total = Word(Word(sum) + more - CHUNK_OVERHEAD)
    OBVIOUS
  <2> HIDE DEF sum
  <2>2. QED
    BY <1>5, <1>6, <2>1, TotalIs
<1>8. Grants(h, got, nb, sz, U) \/ Fails(h, got, sz, U)
  <2>1. nb = ChunkSizeFor(total)
    OBVIOUS
  <2> HIDE DEF nb
  <2>2. QED
    BY <1>7, <2>1, MallocOutcome
<1>9. CASE Fails(h, got, sz, U)
  <2>1. got.mem = 0
    BY <1>9 DEF Fails
  <2>2. r = NoElements(got)
    BY <2>1
  <2>3. (Fails(h, r, sz, U) \/ Declines(h, r, sz, U)) /\ r.mems = <<>>
    BY <1>9, <2>2, NoElementsOutcome
  <2>4. QED
    BY <2>3 DEF IallocOutcome
<1>10. CASE Grants(h, got, nb, sz, U)
  <2>1. nb \in Nat /\ nb >= sum + more
    <3>1. nb = ChunkSizeFor(total)
      OBVIOUS
    <3> HIDE DEF nb, sum
    <3>2. nb \in Nat /\ nb >= total + 4
      BY <1>7, <1>10, <3>1, GrantsObtain
    <3>3. QED
      BY <1>5, <1>6, <1>7, <3>2
  <2>2. k = got.m /\ p = mem2chunk(got.mem) /\ n = Len(sizes) /\ sum = SumOf(sizes) /\ lens = Lens(requests)
        /\ n = Len(requests)
    BY <1>3
  <2>3. (\A i \in 1 .. n : lens[i] = requests[i] + 4) /\ lens[n + 1] = n * 4 + 4
    <3> HIDE DEF n, lens
    <3>1. QED
      BY <2>2, LensAre
  <2>4. CoversAll(sizes, lens, n)
    <3>1. \A i \in 1 .. n : lens[i] \in Nat /\ sizes[i] >= lens[i]
      <4> SUFFICES ASSUME NEW i \in 1 .. n
                   PROVE  lens[i] \in Nat /\ sizes[i] >= lens[i]
        OBVIOUS
      <4>1. requests[i] \in Nat /\ sizes[i] >= requests[i] + 4
        BY <1>3
      <4>2. lens[i] = requests[i] + 4
        BY <2>3
      <4> HIDE DEF n, lens
      <4>3. QED
        BY <4>1, <4>2
    <3> HIDE DEF n, lens
    <3>2. QED
      BY <3>1 DEF CoversAll
  <2>5. Covers(sizes, lens, n, a)
    <3> HIDE DEF n, lens, a
    <3>1. QED
      BY <1>2, <1>4, <2>3, <2>4 DEF Covers, CoversAll
  <2>6. got.mem # 0
    <3> HIDE DEF nb
    <3>1. QED
      BY <1>10, <2>1, GrantChunk DEF Granted
  <2>7. r = Carve(k, p, sizes, own)
    BY <2>6
  <2>8. sum < WordSize
    <3> HIDE DEF sum
    <3>1. QED
      BY <1>5, <1>6, Requests
  <2> DEFINE q == p + sum
             j == set_size_and_pinuse_of_inuse_chunk(k, q, chunksize(k, p) - sum)
  <2>9. /\ own => r = Elements(k, p, sizes, chunksize(k, p), 0)
        /\ ~own => r = Elements(j, p, sizes, sum, chunk2mem(q))
    <3>1. sum = SumOf(sizes) /\ q = p + sum
          /\ j = set_size_and_pinuse_of_inuse_chunk(k, q, chunksize(k, p) - sum)
      OBVIOUS
    <3>2. Word(sum) = sum
      <4> HIDE DEF sum
      <4>1. QED
        BY <1>5, <2>8, WordIsLess
    <3> HIDE DEF k, p, j, q, sum
    <3>3. r = IF own THEN Elements(k, p, sizes, chunksize(k, p), 0)
              ELSE Elements(j, p, sizes, sum, chunk2mem(q))
      BY <2>7, <3>1, <3>2 DEF Carve
    <3>4. QED
      BY <3>3
  <2>10. q = p + sum /\ j = set_size_and_pinuse_of_inuse_chunk(k, q, chunksize(k, p) - sum)
    OBVIOUS
  <2> HIDE DEF n, sum, lens, a, k, p, nb, q, j
  <2>11. CASE own
    <3>1. nb >= SumOf(sizes)
      BY <1>5, <1>6, <2>1, <2>2, <2>11
    <3>2. r = Elements(k, p, sizes, chunksize(k, p), 0)
      BY <2>9, <2>11
    <3>3. CarvedOwn(h, r, n, lens, sz, U)
      BY <1>2, <1>3, <1>10, <2>1, <2>2, <2>4, <3>1, <3>2, CarveOwnBlocks
    <3>4. QED
      BY <2>2, <3>3 DEF IallocOutcome
  <2>12. CASE ~own
    <3>1. nb >= sum + a
      BY <1>6, <2>1, <2>12
    <3>2. r = Elements(j, p, sizes, sum, chunk2mem(q))
      BY <2>9, <2>12
    <3>3. CarvedBoth(h, r, n, lens, sz, U)
      BY <1>2, <1>3, <1>4, <1>10, <2>1, <2>2, <2>5, <2>10, <3>1, <3>2, CarveBothBlocks
    <3>4. QED
      BY <2>2, <3>3 DEF IallocOutcome
  <2>13. QED
    BY <2>11, <2>12
<1>11. QED
  BY <1>8, <1>9, <1>10

(* No elements: the array alone, which takes no bytes. *)
LEMMA EmptyOutcome ==
  ASSUME NEW h, NEW sz, NEW U, NEW got, Delivers(h, got, 0, 8, sz, U),
         NEW requests, requests = <<>>, NEW r, r = NoElements(got)
  PROVE  CarvedBoth(h, r, Len(requests), Lens(requests), sz, U)
<1>1. PICK q : got.mem = chunk2mem(q) /\ Obtains(h, got.m, q, 4, sz, U)
  BY DEF Delivers
<1> DEFINE at == [i \in {1} |-> q]
           n == Len(requests)
           lens == Lens(requests)
<1>2. n = 0 /\ n + 1 = 1 /\ 1 .. n + 1 = {1} /\ 1 .. n = {}
  OBVIOUS
<1>3. r.m = got.m /\ r.mem = got.mem /\ r.mems = <<>>
  BY DEF NoElements
<1>4. Chunks2Mems(at, n) = <<>>
  BY <1>2 DEF Chunks2Mems
<1>5. lens[1] = 4
  BY <1>2 DEF Lens
<1>6. at[1] = q /\ Spots(at, n + 1) = {q}
  BY <1>2 DEF Spots
<1> HIDE DEF at, n, lens
<1>7. /\ q \in Nat /\ q \notin U /\ Params(got.m) /\ got.m.enomem = h.enomem /\ Growth(h, got.m)
      /\ \E t : Heap(got.m, t, U \cup {q}) /\ t[q] >= 4 /\ Keeps(t, sz, U)
  BY <1>1 DEF Obtains
<1>8. Apart2(at, n + 1, U)
  BY <1>2, <1>6, <1>7 DEF Apart2
<1>9. Blocks(h, r.m, at, lens, n + 1, sz, U)
  <2>1. PICK t : Heap(got.m, t, U \cup {q}) /\ t[q] >= 4 /\ Keeps(t, sz, U)
    BY <1>7
  <2>2. \A i \in 1 .. n + 1 : t[at[i]] >= lens[i]
    BY <1>2, <1>5, <1>6, <2>1
  <2>3. Heap(r.m, t, U \cup Spots(at, n + 1))
    BY <1>3, <1>6, <2>1
  <2>4. \E u : /\ Heap(r.m, u, U \cup Spots(at, n + 1)) /\ Keeps(u, sz, U)
               /\ \A i \in 1 .. n + 1 : u[at[i]] >= lens[i]
    BY <2>1, <2>2, <2>3
  <2>5. QED
    BY <1>3, <1>7, <1>8, <2>4 DEF Blocks
<1>10. r.mems = Chunks2Mems(at, n) /\ r.mem = chunk2mem(at[n + 1])
  BY <1>1, <1>2, <1>3, <1>4, <1>6
<1>11. QED
  BY <1>9, <1>10 DEF CarvedBoth, n, lens

LEMMA IallocFrom ==
  ASSUME NEW h, NEW k, NEW sz, NEW U, Mem(h, sz, U), k = ensure_initialization(h),
         NEW requests, NEW r, IallocOutcome(k, r, requests, sz, U)
  PROVE  IallocOutcome(h, r, requests, sz, U)
<1>1. Same(k, h)
  BY EnsuredSame
<1>2. /\ Fails(k, r, sz, U) => Fails(h, r, sz, U)
      /\ Growth(h, k) /\ k.enomem = h.enomem
  BY AfterInitialization
<1>3. Declines(k, r, sz, U) => Declines(h, r, sz, U)
  BY <1>1 DEF Same, Declines, Growth
<1>4. QED
  BY <1>1, <1>2, <1>3, SameFrom DEF IallocOutcome

LEMMA IallocDelivers ==
  ASSUME NEW h, NEW sz, NEW U, Mem(h, sz, U), NEW requests \in Seq(Nat), SumsUp(requests),
         NEW own \in BOOLEAN, NEW env, NEW r, r = ialloc(h, requests, own, env)
  PROVE  IallocOutcome(h, r, requests, sz, U)
<1> DEFINE k == ensure_initialization(h)
           sizes == SizesOf(requests)
           more == IF own THEN 0 ELSE ArraySize(Len(requests))
           total == Word(Word(SumOf(sizes)) + more - CHUNK_OVERHEAD)
           got == dlmalloc(k, total, env)
           empty == dlmalloc(k, 0, env)
           none == Result(k, 0)
<1>1. Mem(k, sz, U)
  BY AfterInitialization
<1>2. k = ensure_initialization(h)
  OBVIOUS
<1>3. CASE requests = <<>>
  <2>1. r = NoElements(IF own THEN none ELSE empty)
    BY <1>3 DEF ialloc
  <2> HIDE DEF k
  <2>2. CASE own
    <3>1. r = NoElements(none)
      BY <2>1, <2>2
    <3>2. none.m = k /\ none.mem = 0
      BY DEF Result
    <3>3. Declines(k, none, sz, U)
      BY <1>1, <3>2, NothingDone
    <3> HIDE DEF none
    <3>4. (Fails(k, r, sz, U) \/ Declines(k, r, sz, U)) /\ r.mems = <<>>
      BY <3>1, <3>3, NoElementsOutcome
    <3>5. IallocOutcome(k, r, requests, sz, U)
      BY <3>4 DEF IallocOutcome
    <3>6. QED
      BY <1>2, <3>5, IallocFrom
  <2>3. CASE ~own
    <3>1. r = NoElements(empty) /\ empty = dlmalloc(k, 0, env) /\ 0 \in Nat
      BY <2>1, <2>3
    <3> HIDE DEF empty
    <3>2. Delivers(k, empty, 0, 8, sz, U) \/ Fails(k, empty, sz, U)
      BY <1>1, <3>1, MallocDelivers
    <3>3. IallocOutcome(k, r, requests, sz, U)
      <4>1. CASE Delivers(k, empty, 0, 8, sz, U)
        <5>1. CarvedBoth(k, r, Len(requests), Lens(requests), sz, U)
          BY <1>3, <3>1, <4>1, EmptyOutcome
        <5>2. QED
          BY <5>1 DEF IallocOutcome
      <4>2. CASE Fails(k, empty, sz, U)
        <5>1. (Fails(k, r, sz, U) \/ Declines(k, r, sz, U)) /\ r.mems = <<>>
          BY <3>1, <4>2, NoElementsOutcome
        <5>2. QED
          BY <5>1 DEF IallocOutcome
      <4>3. QED
        BY <3>2, <4>1, <4>2
    <3>4. QED
      BY <1>2, <3>3, IallocFrom
  <2>4. QED
    BY <2>2, <2>3
<1>4. CASE requests # <<>>
  <2>1. r = IF got.mem = 0 THEN NoElements(got)
            ELSE Carve(got.m, mem2chunk(got.mem), sizes, own)
    BY <1>4 DEF ialloc, SizesOf
  <2>2. /\ sizes = SizesOf(requests) /\ more = IF own THEN 0 ELSE ArraySize(Len(requests))
        /\ total = Word(Word(SumOf(sizes)) + more - CHUNK_OVERHEAD)
        /\ got = dlmalloc(k, total, env)
    OBVIOUS
  <2> HIDE DEF k, sizes, more, total, got
  <2>3. IallocOutcome(k, r, requests, sz, U)
    BY <1>1, <1>4, <2>1, <2>2, CarvedOutcome
  <2>4. QED
    BY <1>2, <2>3, IallocFrom
<1>5. QED
  BY <1>3, <1>4

-----------------------------------------------------------------------------
(* bulk_free.                                                              *)

(* Two used chunks, one behind the other, become one. *)
Merges(h, n, t, W, p, q) ==
  /\ Only(n, h, ChunkFields) /\ Params(n)
  /\ \E u : Heap(n, u, W \ {q}) /\ Keeps(u, t, W \ {p, q})

MergedInto(t, sz, U, lo, p, q) ==
  /\ p \in DOMAIN t /\ t[p] = sz[p] + sz[q] /\ q # p /\ Keeps(t, sz, U \ {p, q})
  /\ PredUsed(lo, t, U \ {q}, p) <=> PredUsed(lo, sz, U, p)
  /\ \A c \in DOMAIN sz : c # p /\ c # q => t[c] = sz[c]

LEMMA MergedPred ==
  ASSUME NEW lo, NEW e, NEW sz, Tiling(lo, e, sz), NEW p \in DOMAIN sz, NEW U, U \subseteq DOMAIN sz,
         NEW q \in DOMAIN sz, p + sz[p] = q, NEW t, t = JoinChunks(sz, p)
  PROVE  MergedInto(t, sz, U, lo, p, q)
<1>1. /\ DOMAIN t = DOMAIN sz \ {q} /\ t[p] = sz[p] + sz[q]
      /\ p \in DOMAIN t /\ q # p
      /\ \A c \in DOMAIN sz : c # p /\ c # q => t[c] = sz[c]
  BY JoinedSizes
<1>2. Keeps(t, sz, U \ {p, q})
  BY <1>1 DEF Keeps
<1>3. \A c \in DOMAIN sz : c + sz[c] = p => c # p /\ c # q
  <2>1. ASSUME NEW c \in DOMAIN sz, c + sz[c] = p
        PROVE  c # p /\ c # q
    <3>1. c \in Nat /\ sz[c] \in Nat /\ sz[c] > 0 /\ p \in Nat /\ sz[p] \in Nat /\ sz[p] > 0
      BY TilingArith
    <3>2. QED
      BY <2>1, <3>1
  <2>2. QED
    BY <2>1
<1>4. p + t[p] # p
  <2>1. p \in Nat /\ sz[p] \in Nat /\ sz[p] > 0 /\ sz[q] \in Nat
    BY TilingArith
  <2>2. QED
    BY <1>1, <2>1
<1>5. PredUsed(lo, t, U \ {q}, p) <=> PredUsed(lo, sz, U, p)
  <2>1. ASSUME PredUsed(lo, t, U \ {q}, p), p # lo
        PROVE  \E d \in U : d + sz[d] = p
    <3>1. PICK d \in U \ {q} : d + t[d] = p
      BY <2>1 DEF PredUsed
    <3>2. d # p
      BY <1>4, <3>1
    <3>3. t[d] = sz[d]
      BY <1>1, <3>1, <3>2
    <3>4. QED
      BY <3>1, <3>3
  <2>2. ASSUME PredUsed(lo, sz, U, p), p # lo
        PROVE  \E d \in U \ {q} : d + t[d] = p
    <3>1. PICK d \in U : d + sz[d] = p
      BY <2>2 DEF PredUsed
    <3>2. d # p /\ d # q
      BY <1>3, <3>1
    <3>3. t[d] = sz[d]
      BY <1>1, <3>1, <3>2
    <3>4. QED
      BY <3>1, <3>2, <3>3
  <2>3. QED
    BY <2>1, <2>2 DEF PredUsed
<1>6. QED
  BY <1>1, <1>2, <1>5 DEF MergedInto

LEMMA MergeGives ==
  ASSUME NEW h, NEW t, NEW W, Params(h), Heap(h, t, W), NEW p \in W, NEW s, s = t[p],
         NEW q, q = p + s, q \in W, NEW z, z = s + chunksize(h, q)
  PROVE  Merges(h, set_inuse(h, p, z), t, W, p, q)
<1> DEFINE lo == Lo(h)
           e == End(h)
           u == JoinChunks(t, p)
           pin == pinuse(h, p)
           n == UsedHead(h, p, z, pin)
           X == W \ {q}
<1>1. HeapOf(h, lo, e, t, W) /\ Segment(h)
  BY DEF Heap
<1> SUFFICES Merges(h, n, t, W, p, q)
  BY UsedHeadIs
<1>2. lo = Lo(h) /\ e = End(h) /\ u = JoinChunks(t, p) /\ X = W \ {q} /\ n = UsedHead(h, p, z, pin)
  OBVIOUS
<1> HIDE DEF lo, e, u
<1>3. /\ WellFormed(h) /\ Layout(h.head, h.foot, h.bins, h.dv, h.dvsize, lo, e, h.top, t, W, e)
      /\ h.topsize = t[h.top]
  BY <1>1 DEF HeapOf
<1>4. /\ p \in DOMAIN t /\ p \in Nat /\ p # h.top /\ s \in Nat /\ s >= 16 /\ q \in DOMAIN t
      /\ chunksize(h, q) = t[q] /\ t[q] \in Nat /\ (pin <=> PredUsed(lo, t, W, p)) /\ p # q
  BY <1>1, UsedFacts
<1>5. Tiling(lo, e, t) /\ W \subseteq DOMAIN t /\ h.top \in DOMAIN t /\ h.top \notin W
  <2>1. h.top \notin W
    <3>1. \A x \in W : x # h.top
      BY <1>1, UsedFacts
    <3>2. QED
      BY <3>1
  <2>2. QED
    BY <1>3, <2>1, LayoutHole DEF Layout
<1>6. /\ p \in DOMAIN u /\ u[p] = t[p] + t[q] /\ q # p /\ Keeps(u, t, W \ {p, q})
      /\ PredUsed(lo, u, W \ {q}, p) <=> PredUsed(lo, t, W, p)
      /\ \A c \in DOMAIN t : c # p /\ c # q => u[c] = t[c]
  <2>1. p + t[p] = q
    OBVIOUS
  <2>2. MergedInto(u, t, W, lo, p, q)
    BY <1>2, <1>4, <1>5, <2>1, MergedPred
  <2>3. QED
    BY <2>2 DEF MergedInto
<1>7. Layout(h.head, h.foot, h.bins, h.dv, h.dvsize, lo, e, h.top, t, W, p)
  BY <1>3, LayoutOpenUsed
<1>8. Layout(h.head, h.foot, h.bins, h.dv, h.dvsize, lo, e, h.top, u, X, p)
  BY <1>2, <1>4, <1>7, LayoutMergeUsed
<1>9. z = u[p] /\ z >= 16
  BY <1>4, <1>6
<1>10. pin \in BOOLEAN /\ (pin <=> PredUsed(lo, u, X, p))
  <2>1. pin \in BOOLEAN
    BY <1>3, HeadAtType
  <2>2. QED
    BY <1>2, <1>4, <1>6, <2>1
<1> HIDE DEF pin, n, X
<1>11. /\ WritesTo(h, n, e, p, z)
       /\ Layout(n.head, n.foot, h.bins, h.dv, h.dvsize, lo, e, h.top, u, X, e)
  BY <1>2, <1>3, <1>4, <1>6, <1>8, <1>9, <1>10, UseHole
<1>12. WellFormed(n) /\ Only(n, h, {"head", "foot"})
  BY <1>11 DEF WritesTo
<1>13. /\ n.bins = h.bins /\ n.top = h.top /\ n.dv = h.dv /\ n.dvsize = h.dvsize
       /\ n.topsize = h.topsize /\ Only(n, h, ChunkFields)
  BY <1>3, <1>12, FieldsOf DEF WellFormed
<1>14. u[h.top] = t[h.top]
  BY <1>4, <1>5, <1>6
<1>15. HeapOf(n, lo, e, u, X)
  BY <1>3, <1>11, <1>12, <1>13, <1>14 DEF HeapOf
<1>16. Params(n) /\ Segment(n) /\ Lo(n) = lo /\ End(n) = e
  BY <1>1, <1>2, <1>13, ChunksOnly
<1>17. Heap(n, u, W \ {q})
  BY <1>2, <1>15, <1>16 DEF Heap
<1>18. QED
  BY <1>6, <1>13, <1>16, <1>17 DEF Merges

(* What is still to be freed after i turns. *)
Pending(a, i, n) == {mem2chunk(a[j]) : j \in i + 1 .. n}
PendingOK(a, i, n, K) ==
  /\ a \in Seq(Nat) /\ Len(a) = n
  /\ \A j \in i + 1 .. n : a[j] >= 8 /\ mem2chunk(a[j]) \notin K
  /\ \A j \in i + 1 .. n, k \in i + 1 .. n : a[j] = a[k] => j = k

LEMMA MemOfChunk ==
  ASSUME NEW x \in Nat, x >= 8
  PROVE  /\ mem2chunk(x) \in Nat /\ chunk2mem(mem2chunk(x)) = x
         /\ \A y \in Nat : mem2chunk(y) = mem2chunk(x) <=> y = x
BY DEF mem2chunk, chunk2mem, TWO_SIZE_T_SIZES, SIZE_T_SIZE

Advances(b, a, i, n, K, gone) ==
  PendingOK(b, i + 1, n, K) /\ Pending(b, i + 1, n) = Pending(a, i, n) \ {gone}

LEMMA FirstDropped ==
  ASSUME NEW a, NEW n \in Nat, NEW i \in Nat, i < n, NEW K, PendingOK(a, i, n, K),
         NEW b, b = [a EXCEPT ![i + 1] = 0]
  PROVE  Advances(b, a, i, n, K, mem2chunk(a[i + 1]))
<1>1. /\ a \in Seq(Nat) /\ Len(a) = n /\ i + 1 \in 1 .. n
      /\ \A j \in i + 1 .. n : a[j] >= 8 /\ mem2chunk(a[j]) \notin K
      /\ \A j \in i + 1 .. n, k \in i + 1 .. n : a[j] = a[k] => j = k
  BY DEF PendingOK
<1>2. b \in Seq(Nat) /\ Len(b) = n
  BY <1>1
<1>3. i + 1 .. n = {i + 1} \cup ((i + 1) + 1 .. n) /\ i + 1 \notin (i + 1) + 1 .. n
  OBVIOUS
<1>4. \A j \in (i + 1) + 1 .. n : b[j] = a[j] /\ j # i + 1 /\ j \in i + 1 .. n /\ a[j] \in Nat
  <2>1. ASSUME NEW j \in (i + 1) + 1 .. n
        PROVE  b[j] = a[j] /\ j # i + 1 /\ j \in i + 1 .. n /\ a[j] \in Nat
    <3>1. j # i + 1 /\ j \in 1 .. n
      OBVIOUS
    <3>2. QED
      BY <1>1, <1>3, <3>1
  <2>2. QED
    BY <2>1
<1>5. PendingOK(b, i + 1, n, K)
  BY <1>1, <1>2, <1>4 DEF PendingOK
<1>6. \A j \in (i + 1) + 1 .. n : mem2chunk(a[j]) # mem2chunk(a[i + 1])
  <2>1. a[i + 1] \in Nat /\ a[i + 1] >= 8 /\ i + 1 \in i + 1 .. n
    BY <1>1, <1>3
  <2>2. ASSUME NEW j \in (i + 1) + 1 .. n
        PROVE  mem2chunk(a[j]) # mem2chunk(a[i + 1])
    <3>1. a[j] \in Nat /\ a[j] # a[i + 1]
      BY <1>1, <1>4, <2>1
    <3>2. QED
      BY <2>1, <3>1, MemOfChunk
  <2>3. QED
    BY <2>2
<1>7. Pending(b, i + 1, n) = {mem2chunk(a[j]) : j \in (i + 1) + 1 .. n}
  BY <1>4 DEF Pending
<1>8. Pending(a, i, n) = {mem2chunk(a[i + 1])} \cup {mem2chunk(a[j]) : j \in (i + 1) + 1 .. n}
  BY <1>3 DEF Pending
<1>9. Pending(b, i + 1, n) = Pending(a, i, n) \ {mem2chunk(a[i + 1])}
  BY <1>6, <1>7, <1>8
<1>10. QED
  BY <1>5, <1>9 DEF Advances

LEMMA FirstJoined ==
  ASSUME NEW a, NEW n \in Nat, NEW i \in Nat, i + 1 < n, NEW K, PendingOK(a, i, n, K),
         NEW x, x = a[i + 1], NEW j1, j1 = (i + 1) + 1,
         NEW b, b = [a EXCEPT ![i + 1] = 0, ![j1] = x]
  PROVE  Advances(b, a, i, n, K, mem2chunk(a[j1]))
<1>1. /\ a \in Seq(Nat) /\ Len(a) = n /\ i + 1 \in 1 .. n /\ j1 \in 1 .. n /\ j1 # i + 1
      /\ \A j \in i + 1 .. n : a[j] >= 8 /\ mem2chunk(a[j]) \notin K
      /\ \A j \in i + 1 .. n, k \in i + 1 .. n : a[j] = a[k] => j = k
  BY DEF PendingOK
<1> DEFINE Rest == j1 + 1 .. n
<1>2. /\ i + 1 .. n = {i + 1, j1} \cup Rest /\ j1 .. n = {j1} \cup Rest
      /\ i + 1 \notin Rest /\ j1 \notin Rest /\ (i + 1) + 1 .. n = j1 .. n
      /\ \A j \in Rest : j \in 1 .. n
  OBVIOUS
<1> HIDE DEF Rest
<1>3. x \in Nat /\ i + 1 \in i + 1 .. n /\ j1 \in i + 1 .. n
  BY <1>1, <1>2
<1>4. b \in Seq(Nat) /\ Len(b) = n
  BY <1>1, <1>3
<1>5. b[j1] = x
  BY <1>1
<1>6. \A j \in Rest : b[j] = a[j] /\ a[j] \in Nat /\ j \in i + 1 .. n
  <2>1. ASSUME NEW j \in Rest
        PROVE  b[j] = a[j] /\ a[j] \in Nat /\ j \in i + 1 .. n
    <3>1. j # i + 1 /\ j # j1 /\ j \in 1 .. n
      BY <1>2
    <3>2. QED
      BY <1>1, <1>2, <3>1
  <2>2. QED
    BY <2>1
<1>7. PendingOK(b, i + 1, n, K)
  <2>1. \A j \in j1 .. n : b[j] >= 8 /\ mem2chunk(b[j]) \notin K
    BY <1>1, <1>2, <1>3, <1>5, <1>6
  <2>2. \A j \in Rest : a[j] # x
    BY <1>1, <1>2, <1>3, <1>6
  <2>3. \A j \in j1 .. n, k \in j1 .. n : b[j] = b[k] => j = k
    BY <1>1, <1>2, <1>5, <1>6, <2>2
  <2>4. QED
    BY <1>2, <1>4, <2>1, <2>3 DEF PendingOK
<1>8. Pending(b, i + 1, n) = {mem2chunk(x)} \cup {mem2chunk(a[j]) : j \in Rest}
  BY <1>2, <1>5, <1>6 DEF Pending
<1>9. Pending(a, i, n) = {mem2chunk(x), mem2chunk(a[j1])} \cup {mem2chunk(a[j]) : j \in Rest}
  BY <1>2 DEF Pending
<1>10. \A j \in Rest : mem2chunk(a[j]) # mem2chunk(a[j1])
  <2>1. a[j1] \in Nat /\ a[j1] >= 8
    BY <1>1, <1>3
  <2>2. ASSUME NEW j \in Rest
        PROVE  mem2chunk(a[j]) # mem2chunk(a[j1])
    <3>1. a[j] \in Nat /\ a[j] # a[j1]
      BY <1>1, <1>2, <1>3, <1>6
    <3>2. QED
      BY <2>1, <3>1, MemOfChunk
  <2>3. QED
    BY <2>2
<1>11. mem2chunk(x) # mem2chunk(a[j1])
  <2>1. a[j1] \in Nat /\ a[j1] >= 8 /\ a[j1] # x
    BY <1>1, <1>3
  <2>2. QED
    BY <1>3, <2>1, MemOfChunk
<1>12. Pending(b, i + 1, n) = Pending(a, i, n) \ {mem2chunk(a[j1])}
  BY <1>8, <1>9, <1>10, <1>11
<1>13. QED
  BY <1>7, <1>12 DEF Advances

(* After i turns the chunks of K are in use, and those still to be freed.  *)
BulkInv(k, a, h, i, n, K, sz) ==
  /\ PendingOK(a, i, n, K) /\ Only(k, h, ChunkFields) /\ Params(k)
  /\ \E t : Heap(k, t, K \cup Pending(a, i, n)) /\ Keeps(t, sz, K)

LEMMA OnlyTwice ==
  ASSUME NEW h, NEW k, NEW j, Only(k, h, ChunkFields), Only(j, k, ChunkFields)
  PROVE  Only(j, h, ChunkFields)
BY OnlyTransitive

LEMMA PendingChunk ==
  ASSUME NEW a, NEW i \in Nat, NEW n \in Nat, NEW K, PendingOK(a, i, n, K),
         NEW j \in i + 1 .. n, NEW p, p = mem2chunk(a[j])
  PROVE  /\ a[j] \in Nat /\ a[j] >= 8 /\ p \notin K /\ p \in Pending(a, i, n) /\ chunk2mem(p) = a[j]
         /\ Pending(a, i, n) \cap K = {}
<1>1. /\ a \in Seq(Nat) /\ Len(a) = n
      /\ \A l \in i + 1 .. n : a[l] >= 8 /\ mem2chunk(a[l]) \notin K
  BY DEF PendingOK
<1>2. j \in 1 .. n
  OBVIOUS
<1>3. a[j] \in Nat /\ a[j] >= 8 /\ p \notin K
  BY <1>1, <1>2
<1>4. chunk2mem(p) = a[j]
  BY <1>3, MemOfChunk
<1>5. p \in Pending(a, i, n) /\ Pending(a, i, n) \cap K = {}
  BY <1>1 DEF Pending
<1>6. QED
  BY <1>3, <1>4, <1>5

LEMMA BulkDisposes ==
  ASSUME NEW k, NEW a, NEW h, NEW i \in Nat, NEW n \in Nat, i < n, NEW K, NEW sz,
         BulkInv(k, a, h, i, n, K, sz), NEW p, p = mem2chunk(a[i + 1]),
         NEW s, s = chunksize(k, p), NEW j, j = dispose_chunk(k, p, s),
         NEW b, b = [a EXCEPT ![i + 1] = 0]
  PROVE  BulkInv(j, b, h, i + 1, n, K, sz)
<1> DEFINE W == K \cup Pending(a, i, n)
           X == W \ {p}
<1>1. PendingOK(a, i, n, K) /\ Only(k, h, ChunkFields) /\ Params(k)
  BY DEF BulkInv
<1>2. PICK t : Heap(k, t, W) /\ Keeps(t, sz, K)
  BY DEF BulkInv
<1>3. i + 1 \in i + 1 .. n
  OBVIOUS
<1>4. p \notin K /\ p \in W /\ Pending(a, i, n) \cap K = {}
  BY <1>1, <1>3, PendingChunk
<1> HIDE DEF W
<1>5. s = t[p]
  BY <1>1, <1>2, <1>4, UsedPlace, UsedFacts
<1>6. Gives(k, j, t, W \ {p})
  BY <1>1, <1>2, <1>4, <1>5, DisposeGives
<1>7. Only(j, k, ChunkFields) /\ Params(j) /\ \E u : Heap(j, u, X) /\ Keeps(u, t, X)
  BY <1>6 DEF Gives
<1>8. Advances(b, a, i, n, K, p)
  BY <1>1, FirstDropped
<1>9. PendingOK(b, i + 1, n, K) /\ X = K \cup Pending(b, i + 1, n)
  BY <1>4, <1>8 DEF Advances, W
<1>10. \E u : Heap(j, u, K \cup Pending(b, i + 1, n)) /\ Keeps(u, sz, K)
  <2> HIDE DEF X
  <2>1. PICK u : Heap(j, u, X) /\ Keeps(u, t, X)
    BY <1>7
  <2>2. Keeps(u, sz, K)
    BY <1>2, <1>9, <2>1 DEF Keeps
  <2>3. QED
    BY <1>9, <2>1, <2>2
<1>11. Only(j, h, ChunkFields)
  BY <1>1, <1>7, OnlyTwice
<1>12. QED
  BY <1>7, <1>9, <1>10, <1>11 DEF BulkInv

LEMMA BulkJoins ==
  ASSUME NEW k, NEW a, NEW h, NEW i \in Nat, NEW n \in Nat, i + 1 < n, NEW K, NEW sz,
         BulkInv(k, a, h, i, n, K, sz), NEW x, x = a[i + 1], NEW p, p = mem2chunk(x),
         NEW s, s = chunksize(k, p), NEW q, q = p + s, NEW j1, j1 = (i + 1) + 1,
         a[j1] = chunk2mem(q), NEW z, z = s + chunksize(k, q), NEW j, j = set_inuse(k, p, z),
         NEW b, b = [a EXCEPT ![i + 1] = 0, ![j1] = x]
  PROVE  BulkInv(j, b, h, i + 1, n, K, sz)
<1> DEFINE W == K \cup Pending(a, i, n)
           X == W \ {q}
<1>1. PendingOK(a, i, n, K) /\ Only(k, h, ChunkFields) /\ Params(k)
  BY DEF BulkInv
<1>2. PICK t : Heap(k, t, W) /\ Keeps(t, sz, K)
  BY DEF BulkInv
<1>3. i + 1 \in i + 1 .. n /\ j1 \in i + 1 .. n
  OBVIOUS
<1>4. p \notin K /\ p \in W /\ Pending(a, i, n) \cap K = {}
  BY <1>1, <1>3, PendingChunk
<1>5. mem2chunk(a[j1]) \notin K /\ mem2chunk(a[j1]) \in W
  BY <1>1, <1>3, PendingChunk
<1> HIDE DEF W
<1>6. s = t[p] /\ p \in Nat /\ s \in Nat
  BY <1>1, <1>2, <1>4, UsedPlace, UsedFacts
<1>7. mem2chunk(a[j1]) = q
  BY <1>6 DEF mem2chunk, chunk2mem, TWO_SIZE_T_SIZES, SIZE_T_SIZE
<1>8. Merges(k, j, t, W, p, q)
  BY <1>1, <1>2, <1>4, <1>5, <1>6, <1>7, MergeGives
<1>9. Only(j, k, ChunkFields) /\ Params(j) /\ \E u : Heap(j, u, X) /\ Keeps(u, t, W \ {p, q})
  BY <1>8 DEF Merges
<1>10. Advances(b, a, i, n, K, mem2chunk(a[j1]))
  BY <1>1, FirstJoined
<1>11. PendingOK(b, i + 1, n, K) /\ X = K \cup Pending(b, i + 1, n)
  BY <1>4, <1>5, <1>7, <1>10 DEF Advances, W
<1>12. \E u : Heap(j, u, K \cup Pending(b, i + 1, n)) /\ Keeps(u, sz, K)
  <2> HIDE DEF X
  <2>1. PICK u : Heap(j, u, X) /\ Keeps(u, t, W \ {p, q})
    BY <1>9
  <2>2. K \subseteq W \ {p, q}
    BY <1>4, <1>5, <1>7 DEF W
  <2>3. Keeps(u, sz, K)
    BY <1>2, <2>1, <2>2 DEF Keeps
  <2>4. QED
    BY <1>11, <2>1, <2>3
<1>13. Only(j, h, ChunkFields)
  BY <1>1, <1>9, OnlyTwice
<1>14. QED
  BY <1>9, <1>11, <1>12, <1>13 DEF BulkInv

LEMMA BulkStep ==
  ASSUME NEW s, NEW k, NEW a, k = s.m, a = s.array, NEW h, NEW i \in Nat, NEW n \in Nat, i < n,
         NEW K, NEW sz, BulkInv(k, a, h, i, n, K, sz), NEW r, r = BulkFreeOne(s, i + 1)
  PROVE  BulkInv(r.m, r.array, h, i + 1, n, K, sz)
<1> DEFINE x == a[i + 1]
           p == mem2chunk(x)
           w == chunksize(k, p)
           q == p + w
           W == K \cup Pending(a, i, n)
<1>1. PendingOK(a, i, n, K) /\ Params(k)
  BY DEF BulkInv
<1>2. PICK t : Heap(k, t, W) /\ Keeps(t, sz, K)
  BY DEF BulkInv
<1>3. i + 1 \in i + 1 .. n
  OBVIOUS
<1>4. x \in Nat /\ x >= 8 /\ p \in W /\ chunk2mem(p) = x
  BY <1>1, <1>3, PendingChunk
<1>5. k.ok /\ x # 0 /\ Len(a) = n
  BY <1>1, <1>4 DEF Params, PendingOK
<1>6. ok_address(k, p) /\ is_inuse(k, p)
  <2> HIDE DEF W, p
  <2>1. /\ p # 0 /\ k.base \in Nat /\ k.base <= Lo(k) /\ HeapOf(k, Lo(k), End(k), t, W)
        /\ Segment(k) /\ p \in Nat
    BY <1>1, <1>2, <1>4, UsedPlace
  <2>2. cinuse(k, p) /\ p >= Lo(k)
    BY <2>1, <1>4, UsedFacts
  <2>3. Lo(k) \in Nat
    BY <1>1, <1>2, HeapFacts
  <2>4. QED
    BY <2>1, <2>2, <2>3 DEF ok_address, is_inuse
<1> HIDE DEF W, p, x
<1>7. CASE i + 1 < n /\ a[(i + 1) + 1] = chunk2mem(q)
  <2>1. /\ r.m = set_inuse(k, p, w + chunksize(k, q))
        /\ r.array = [a EXCEPT ![i + 1] = 0, ![(i + 1) + 1] = x]
    BY <1>4, <1>5, <1>6, <1>7 DEF BulkFreeOne, p, x
  <2>2. QED
    BY <1>7, <2>1, BulkJoins DEF x, p
<1>8. CASE ~(i + 1 < n /\ a[(i + 1) + 1] = chunk2mem(q))
  <2>1. r.m = dispose_chunk(k, p, w) /\ r.array = [a EXCEPT ![i + 1] = 0]
    BY <1>4, <1>5, <1>6, <1>8 DEF BulkFreeOne, p, x
  <2>2. QED
    BY <2>1, BulkDisposes DEF x, p
<1>9. QED
  BY <1>7, <1>8

FreesBy(f, z, n) == f = [i \in 0 .. n |-> IF i = 0 THEN z ELSE BulkFreeOne(f[i - 1], i)]

LEMMA BulkFreedExists ==
  ASSUME NEW n \in Nat, NEW z
  PROVE  \E f : FreesBy(f, z, n)
<1> DEFINE P(c) == \E f : FreesBy(f, z, c)
           T == {c \in Nat : P(c)}
<1>1. P(0)
  <2> DEFINE f == [i \in 0 .. 0 |-> z]
  <2>1. f = [i \in 0 .. 0 |-> IF i = 0 THEN z ELSE BulkFreeOne(f[i - 1], i)]
    <3>1. \A i \in 0 .. 0 : i = 0
      OBVIOUS
    <3>2. QED
      BY <3>1
  <2>2. FreesBy(f, z, 0)
    BY <2>1 DEF FreesBy
  <2>3. QED
    BY <2>2
<1>2. ASSUME NEW c \in Nat, P(c)
      PROVE  P(c + 1)
  <2>1. PICK f : f = [i \in 0 .. c |-> IF i = 0 THEN z ELSE BulkFreeOne(f[i - 1], i)]
    BY <1>2 DEF FreesBy
  <2> DEFINE g == [i \in 0 .. c + 1 |-> IF i = 0 THEN z ELSE BulkFreeOne(f[i - 1], i)]
  <2>2. \A i \in 0 .. c : g[i] = f[i]
    <3>1. \A i \in 0 .. c : i \in 0 .. c + 1
      OBVIOUS
    <3>2. QED
      BY <2>1, <3>1
  <2>3. g = [i \in 0 .. c + 1 |-> IF i = 0 THEN z ELSE BulkFreeOne(g[i - 1], i)]
    <3>1. \A i \in 0 .. c + 1 : i # 0 => i - 1 \in 0 .. c
      OBVIOUS
    <3>2. \A i \in 0 .. c + 1 : (IF i = 0 THEN z ELSE BulkFreeOne(f[i - 1], i))
                                = (IF i = 0 THEN z ELSE BulkFreeOne(g[i - 1], i))
      <4> HIDE DEF g
      <4>1. QED
        BY <2>2, <3>1
    <3>3. QED
      BY <3>2
  <2>4. FreesBy(g, z, c + 1)
    BY <2>3 DEF FreesBy
  <2>5. QED
    BY <2>4
<1>3. 0 \in T /\ \A c \in Nat : c \in T => c + 1 \in T
  <2> HIDE DEF P
  <2>1. QED
    BY <1>1, <1>2
<1>4. Nat \subseteq T
  <2> HIDE DEF T
  <2>1. QED
    BY <1>3, Induction
<1>5. QED
  BY <1>4

Bulk(k, a) == [m |-> k, array |-> a]

LEMMA BulkFreedIs ==
  ASSUME NEW k, NEW a, NEW n \in Nat, n = Len(a), NEW f, f = BulkFreed(k, a)
  PROVE  FreesBy(f, Bulk(k, a), n)
<1>1. f = CHOOSE g : g = [i \in 0 .. Len(a) |-> IF i = 0 THEN Bulk(k, a) ELSE BulkFreeOne(g[i - 1], i)]
  BY DEF BulkFreed, Bulk
<1>2. PICK g : g = [i \in 0 .. Len(a) |-> IF i = 0 THEN Bulk(k, a) ELSE BulkFreeOne(g[i - 1], i)]
  <2>1. PICK g : FreesBy(g, Bulk(k, a), n)
    BY BulkFreedExists
  <2>2. g = [i \in 0 .. Len(a) |-> IF i = 0 THEN Bulk(k, a) ELSE BulkFreeOne(g[i - 1], i)]
    BY <2>1 DEF FreesBy
  <2>3. QED
    BY <2>2
<1>3. QED
  BY <1>1, <1>2 DEF FreesBy

(* The addresses are blocks of chunks of U, every one of them once.        *)
BulkOK(a, n, U) ==
  /\ a \in Seq(Nat) /\ Len(a) = n
  /\ \A j \in 1 .. n : a[j] >= 8 /\ mem2chunk(a[j]) \in U
  /\ \A j \in 1 .. n, l \in 1 .. n : a[j] = a[l] => j = l

LEMMA BulkFreeGives ==
  ASSUME NEW h, NEW sz, NEW U, Params(h), Heap(h, sz, U), NEW a, NEW n \in Nat, BulkOK(a, n, U),
         NEW r, r = dlbulk_free(h, a)
  PROVE  Gives(h, r, sz, U \ Pending(a, 0, n))
<1> DEFINE f == BulkFreed(h, a)
           K == U \ Pending(a, 0, n)
           z == Bulk(h, a)
           P(i) == i <= n => BulkInv(f[i].m, f[i].array, h, i, n, K, sz)
           T == {i \in Nat : P(i)}
<1>1. FreesBy(f, z, n) /\ r = f[n].m
  BY BulkFreedIs DEF BulkOK, dlbulk_free
<1>2. 0 + 1 .. n = 1 .. n
  OBVIOUS
<1>3. PendingOK(a, 0, n, K)
  BY <1>2 DEF BulkOK, PendingOK, Pending
<1>4. Pending(a, 0, n) \subseteq U
  BY <1>2 DEF BulkOK, Pending
<1>5. K \cup Pending(a, 0, n) = U
  BY <1>4
<1>6. IsState(h) /\ Only(h, h, ChunkFields)
  BY DEF Heap, HeapOf, WellFormed, Only
<1>7. BulkInv(h, a, h, 0, n, K, sz)
  <2>1. Heap(h, sz, U) /\ Keeps(sz, sz, K)
    BY DEF Keeps
  <2>2. QED
    BY <1>3, <1>5, <1>6, <2>1 DEF BulkInv
<1> HIDE DEF f, K
<1>8. f[0] = z /\ \A i \in 1 .. n : f[i] = BulkFreeOne(f[i - 1], i)
  <2>1. f = [i \in 0 .. n |-> IF i = 0 THEN z ELSE BulkFreeOne(f[i - 1], i)]
    BY <1>1 DEF FreesBy
  <2>2. 0 \in 0 .. n /\ \A i \in 1 .. n : i \in 0 .. n /\ i # 0
    OBVIOUS
  <2> HIDE DEF z
  <2>3. QED
    BY <2>1, <2>2
<1>9. P(0)
  BY <1>7, <1>8 DEF Bulk
<1>10. ASSUME NEW i \in Nat, P(i)
       PROVE  P(i + 1)
  <2>1. SUFFICES ASSUME i + 1 <= n
                 PROVE  BulkInv(f[i + 1].m, f[i + 1].array, h, i + 1, n, K, sz)
    OBVIOUS
  <2>2. i < n /\ i + 1 \in 1 .. n /\ (i + 1) - 1 = i
    BY <2>1
  <2>3. f[i + 1] = BulkFreeOne(f[i], i + 1)
    BY <1>8, <2>2
  <2>4. BulkInv(f[i].m, f[i].array, h, i, n, K, sz)
    BY <1>10, <2>2
  <2>5. QED
    BY <2>2, <2>3, <2>4, BulkStep
<1>11. 0 \in T /\ \A i \in Nat : i \in T => i + 1 \in T
  <2> HIDE DEF P
  <2>1. QED
    BY <1>9, <1>10
<1>12. Nat \subseteq T
  <2> HIDE DEF T
  <2>1. QED
    BY <1>11, Induction
<1>13. BulkInv(r, f[n].array, h, n, n, K, sz)
  BY <1>1, <1>12
<1>14. Pending(f[n].array, n, n) = {}
  <2>1. n + 1 .. n = {}
    OBVIOUS
  <2>2. QED
    BY <2>1 DEF Pending
<1>15. QED
  BY <1>13, <1>14 DEF BulkInv, Gives, K

-----------------------------------------------------------------------------
(* Users.                                                                  *)

IsFunction(g) == g = [y \in DOMAIN g |-> g[y]]

(* The blocks of f are in chunks of their own, which are the used ones.    *)
Owned(f) == {mem2chunk(x) : x \in DOMAIN f}
BlocksIn(f, sz) ==
  \A x \in DOMAIN f : /\ x \in Nat /\ x >= 8 /\ f[x].bytes \in Nat
                      /\ sz[mem2chunk(x)] >= f[x].bytes + 4 /\ x % f[x].align = 0
(* What holds between calls: f is the users' blocks, and the chunks in use *)
(* are theirs.                                                             *)
Holds(n, f, sz) == IsFunction(f) /\ Mem(n, sz, Owned(f)) /\ BlocksIn(f, sz)

(* What a call does to the blocks: some more, some less, or one for another. *)
Adds(f, g)  == DOMAIN f \subseteq DOMAIN g /\ \A x \in DOMAIN f : g[x] = f[x]
Drops(f, g) == DOMAIN g \subseteq DOMAIN f /\ \A x \in DOMAIN g : g[x] = f[x]
Swaps(f, g) ==
  \E x \in DOMAIN f, y \in DOMAIN g :
    /\ y \notin DOMAIN f \ {x} /\ DOMAIN g = (DOMAIN f \ {x}) \cup {y}
    /\ \A z \in DOMAIN f \ {x} : g[z] = f[z]
Moves(f, g) == Adds(f, g) \/ Drops(f, g) \/ Swaps(f, g)

(* What a call that fails leaves alone; and what any call does: the heap   *)
(* is sound again, with the blocks of g in place of those of f.            *)
Unchanged(h, n) == n.brk = h.brk /\ (is_initialized(h) => Only(n, h, {"contiguous", "enomem"}))
Goes(h, f, n, g) ==
  /\ \E t : Holds(n, g, t)
  /\ Growth(h, n) /\ Moves(f, g)
  /\ n.enomem => g = f /\ Unchanged(h, n)

StoredIn(g, f, x, b) ==
  /\ DOMAIN g = DOMAIN f \cup {x} /\ IsFunction(g) /\ g[x] = b
  /\ \A y \in DOMAIN f : y # x => g[y] = f[y]

LEMMA StoreIs ==
  ASSUME NEW f, NEW x, NEW b
  PROVE  StoredIn(Store(f, x, b), f, x, b)
BY DEF Store, StoredIn, IsFunction

LEMMA OwnedAdds ==
  ASSUME NEW f, NEW g, NEW x, DOMAIN g = DOMAIN f \cup {x}
  PROVE  Owned(g) = Owned(f) \cup {mem2chunk(x)}
BY DEF Owned

LEMMA NothingGoes ==
  ASSUME NEW h, NEW f, NEW n, NEW t, Holds(n, f, t), Growth(h, n), n.enomem => Unchanged(h, n)
  PROVE  Goes(h, f, n, f)
<1>1. Moves(f, f)
  BY DEF Moves, Adds
<1>2. QED
  BY <1>1 DEF Goes

LEMMA FailingGoes ==
  ASSUME NEW h, NEW f, NEW sz, Holds(h, f, sz), NEW r, Fails(h, r, sz, Owned(f))
  PROVE  r.mem = 0 /\ Goes(h, f, r.m, f)
<1>1. PICK t : Mem(r.m, t, Owned(f)) /\ Keeps(t, sz, Owned(f))
  BY DEF Fails
<1>2. r.mem = 0 /\ Growth(h, r.m) /\ Unchanged(h, r.m)
  BY DEF Fails, Unchanged
<1>3. BlocksIn(f, t)
  BY <1>1 DEF Holds, BlocksIn, Keeps, Owned
<1>4. Holds(r.m, f, t)
  BY <1>1, <1>3 DEF Holds
<1>5. QED
  BY <1>2, <1>4, NothingGoes

LEMMA DecliningGoes ==
  ASSUME NEW h, ~h.enomem, NEW f, NEW sz, Holds(h, f, sz), NEW r, Declines(h, r, sz, Owned(f))
  PROVE  r.mem = 0 /\ Goes(h, f, r.m, f)
<1>1. r.mem = 0 /\ Growth(h, r.m) /\ ~r.m.enomem /\ Mem(r.m, sz, Owned(f))
  BY DEF Declines
<1>2. Holds(r.m, f, sz)
  BY <1>1 DEF Holds
<1>3. QED
  BY <1>1, <1>2, NothingGoes

(* A block more. *)
LEMMA ObtainingHolds ==
  ASSUME NEW h, ~h.enomem, NEW f, NEW sz, BlocksIn(f, sz), NEW n, NEW q, NEW bytes \in Nat,
         Obtains(h, n, q, bytes + 4, sz, Owned(f)), NEW x, x = chunk2mem(q),
         NEW b, b.bytes = bytes, x % b.align = 0, NEW g, g = Store(f, x, b)
  PROVE  /\ x # 0 /\ x \notin DOMAIN f /\ StoredIn(g, f, x, b) /\ ~n.enomem /\ Growth(h, n)
         /\ \E t : Holds(n, g, t)
<1>1. /\ q \in Nat /\ q \notin Owned(f) /\ Params(n) /\ ~n.enomem /\ Growth(h, n)
      /\ \E t : Heap(n, t, Owned(f) \cup {q}) /\ t[q] >= bytes + 4 /\ Keeps(t, sz, Owned(f))
  BY DEF Obtains
<1>2. x \in Nat /\ x >= 8 /\ mem2chunk(x) = q
  BY <1>1 DEF chunk2mem, mem2chunk, TWO_SIZE_T_SIZES, SIZE_T_SIZE
<1>3. x \notin DOMAIN f
  <2>1. x \in DOMAIN f => mem2chunk(x) \in Owned(f)
    BY DEF Owned
  <2>2. QED
    BY <1>1, <1>2, <2>1
<1>4. /\ DOMAIN g = DOMAIN f \cup {x} /\ IsFunction(g) /\ g[x] = b
      /\ \A y \in DOMAIN f : g[y] = f[y]
  <2>1. StoredIn(g, f, x, b)
    BY StoreIs
  <2>2. \A y \in DOMAIN f : y # x
    BY <1>3
  <2>3. QED
    BY <2>1, <2>2 DEF StoredIn
<1>5. Owned(g) = Owned(f) \cup {q}
  BY <1>2, <1>4, OwnedAdds
<1>6. PICK t : Heap(n, t, Owned(f) \cup {q}) /\ t[q] >= bytes + 4 /\ Keeps(t, sz, Owned(f))
  BY <1>1
<1>7. Mem(n, t, Owned(g))
  BY <1>1, <1>5, <1>6 DEF Mem
<1>8. BlocksIn(g, t)
  <2>1. ASSUME NEW y \in DOMAIN f
        PROVE  /\ y \in Nat /\ y >= 8 /\ g[y].bytes \in Nat
               /\ t[mem2chunk(y)] >= g[y].bytes + 4 /\ y % g[y].align = 0
    <3>1. t[mem2chunk(y)] = sz[mem2chunk(y)]
      BY <1>6 DEF Keeps, Owned
    <3>2. QED
      BY <1>4, <3>1 DEF BlocksIn
  <2>2. /\ x \in Nat /\ x >= 8 /\ g[x].bytes \in Nat
        /\ t[mem2chunk(x)] >= g[x].bytes + 4 /\ x % g[x].align = 0
    BY <1>2, <1>4, <1>6
  <2>3. QED
    BY <1>4, <2>1, <2>2 DEF BlocksIn
<1>9. Holds(n, g, t)
  BY <1>4, <1>7, <1>8 DEF Holds
<1>10. QED
  BY <1>1, <1>2, <1>3, <1>9, StoreIs

LEMMA ObtainingGoes ==
  ASSUME NEW h, ~h.enomem, NEW f, NEW sz, Holds(h, f, sz), NEW n, NEW q, NEW bytes \in Nat,
         Obtains(h, n, q, bytes + 4, sz, Owned(f)), NEW x, x = chunk2mem(q),
         NEW b, b.bytes = bytes, x % b.align = 0, NEW g, g = Store(f, x, b)
  PROVE  x # 0 /\ Goes(h, f, n, g)
<1>1. BlocksIn(f, sz)
  BY DEF Holds
<1>2. /\ x # 0 /\ x \notin DOMAIN f /\ StoredIn(g, f, x, b) /\ ~n.enomem /\ Growth(h, n)
      /\ \E t : Holds(n, g, t)
  BY <1>1, ObtainingHolds
<1>3. Moves(f, g)
  BY <1>2 DEF Moves, Adds, StoredIn
<1>4. QED
  BY <1>2, <1>3 DEF Goes

(* Any call that allocates one block. *)
LEMMA OutcomeGoes ==
  ASSUME NEW h, ~h.enomem, NEW f, NEW sz, Holds(h, f, sz), NEW r, NEW bytes \in Nat, NEW a,
         Outcome(h, r, bytes, a, sz, Owned(f)), NEW b, b = Block(bytes, a)
  PROVE  Goes(h, f, r.m, Owning(f, r.mem, b))
<1>1. b.bytes = bytes /\ b.align = a
  BY DEF Block
<1>2. CASE Delivers(h, r, bytes, a, sz, Owned(f))
  <2>1. PICK q : r.mem = chunk2mem(q) /\ r.mem % a = 0 /\ Obtains(h, r.m, q, bytes + 4, sz, Owned(f))
    BY <1>2 DEF Delivers
  <2>2. r.mem # 0 /\ Goes(h, f, r.m, Store(f, r.mem, b))
    BY <1>1, <2>1, ObtainingGoes
  <2>3. QED
    BY <2>2 DEF Owning
<1>3. CASE Fails(h, r, sz, Owned(f))
  BY <1>3, FailingGoes DEF Owning
<1>4. CASE Declines(h, r, sz, Owned(f))
  BY <1>4, DecliningGoes DEF Owning
<1>5. QED
  BY <1>2, <1>3, <1>4 DEF Outcome

DisownedIn(g, f, S) ==
  DOMAIN g = DOMAIN f \ S /\ IsFunction(g) /\ \A x \in DOMAIN g : g[x] = f[x]

LEMMA DisowningIs ==
  ASSUME NEW f, NEW S
  PROVE  DisownedIn(Disowning(f, S), f, S)
BY DEF Disowning, Restrict, IsFunction, DisownedIn

LEMMA BlockPlace ==
  ASSUME NEW n, NEW f, NEW sz, Holds(n, f, sz), NEW x \in DOMAIN f, NEW p, p = mem2chunk(x)
  PROVE  /\ x \in Nat /\ x >= 8 /\ p \in Nat /\ p \in Owned(f) /\ x = chunk2mem(p)
         /\ Mem(n, sz, Owned(f)) /\ Params(n) /\ Heap(n, sz, Owned(f))
         /\ \A y \in DOMAIN f : mem2chunk(y) = p => y = x
<1>1. \A y \in DOMAIN f : y \in Nat /\ y >= 8
  BY DEF Holds, BlocksIn
<1>2. p \in Owned(f)
  BY DEF Owned
<1>3. Mem(n, sz, Owned(f))
  BY DEF Holds
<1>4. Params(n) /\ Heap(n, sz, Owned(f))
  BY <1>2, <1>3 DEF Mem
<1>5. p \in Nat /\ chunk2mem(p) = x
  BY <1>1, MemOfChunk
<1>6. \A y \in DOMAIN f : mem2chunk(y) = p => y = x
  BY <1>1, MemOfChunk
<1>7. QED
  BY <1>1, <1>2, <1>3, <1>4, <1>5, <1>6

ChunksOf(S) == {mem2chunk(x) : x \in S}

LEMMA OwnedLess ==
  ASSUME NEW n, NEW f, NEW sz, Holds(n, f, sz), NEW S, S \subseteq DOMAIN f,
         NEW g, DOMAIN g = DOMAIN f \ S
  PROVE  Owned(g) = Owned(f) \ ChunksOf(S)
<1>1. \A x \in DOMAIN f, y \in DOMAIN f : mem2chunk(x) = mem2chunk(y) => x = y
  <2>1. \A x \in DOMAIN f : x \in Nat /\ x >= 8
    BY DEF Holds, BlocksIn
  <2>2. ASSUME NEW x \in DOMAIN f, NEW y \in DOMAIN f, mem2chunk(x) = mem2chunk(y)
        PROVE  x = y
    <3>1. x \in Nat /\ y \in Nat
      BY <2>1
    <3>2. QED
      BY <2>2, <3>1 DEF mem2chunk, TWO_SIZE_T_SIZES
  <2>3. QED
    BY <2>2
<1>2. ASSUME NEW p \in Owned(g)
      PROVE  p \in Owned(f) \ ChunksOf(S)
  <2>1. PICK x \in DOMAIN g : p = mem2chunk(x)
    BY DEF Owned
  <2>2. x \in DOMAIN f /\ x \notin S
    BY <2>1
  <2>3. \A y \in S : mem2chunk(y) # p
    BY <1>1, <2>1, <2>2
  <2>4. QED
    BY <2>1, <2>2, <2>3 DEF Owned, ChunksOf
<1>3. ASSUME NEW p \in Owned(f) \ ChunksOf(S)
      PROVE  p \in Owned(g)
  <2>1. PICK x \in DOMAIN f : p = mem2chunk(x)
    BY DEF Owned
  <2>2. x \notin S
    BY <2>1 DEF ChunksOf
  <2>3. QED
    BY <2>1, <2>2 DEF Owned
<1>4. QED
  BY <1>2, <1>3

LEMMA ReleasingGoes ==
  ASSUME NEW h, ~h.enomem, NEW f, NEW sz, Holds(h, f, sz), NEW S, S \subseteq DOMAIN f, S # {},
         NEW n, Gives(h, n, sz, Owned(f) \ ChunksOf(S)), NEW g, g = Disowning(f, S)
  PROVE  Goes(h, f, n, g)
<1>1. DOMAIN g = DOMAIN f \ S /\ IsFunction(g) /\ \A x \in DOMAIN g : g[x] = f[x]
  <2>1. DisownedIn(Disowning(f, S), f, S)
    BY DisowningIs
  <2>2. DisownedIn(g, f, S)
    BY <2>1
  <2>3. QED
    BY <2>2 DEF DisownedIn
<1>2. Owned(g) = Owned(f) \ ChunksOf(S)
  BY <1>1, OwnedLess
<1>3. /\ Only(n, h, ChunkFields) /\ Params(n)
      /\ \E t : Heap(n, t, Owned(g)) /\ Keeps(t, sz, Owned(g))
  BY <1>2 DEF Gives
<1>4. PICK t : Heap(n, t, Owned(g)) /\ Keeps(t, sz, Owned(g))
  BY <1>3
<1>5. BlocksIn(g, t)
  <2>1. ASSUME NEW y \in DOMAIN g
        PROVE  /\ y \in Nat /\ y >= 8 /\ g[y].bytes \in Nat
               /\ t[mem2chunk(y)] >= g[y].bytes + 4 /\ y % g[y].align = 0
    <3>1. t[mem2chunk(y)] = sz[mem2chunk(y)]
      BY <1>4 DEF Keeps, Owned
    <3>2. y \in DOMAIN f /\ g[y] = f[y]
      BY <1>1
    <3>3. QED
      BY <3>1, <3>2 DEF Holds, BlocksIn
  <2>2. QED
    BY <2>1 DEF BlocksIn
<1>6. Holds(n, g, t)
  BY <1>1, <1>3, <1>4, <1>5 DEF Holds, Mem
<1>7. h.footprint \in Nat
  <2>1. PICK x : x \in S
    OBVIOUS
  <2>2. Segment(h)
    BY <2>1, BlockPlace DEF Heap
  <2>3. QED
    BY <2>2 DEF Segment
<1>8. ~n.enomem /\ n.footprint = h.footprint
  BY <1>3, ChunksOnly
<1>9. Growth(h, n)
  BY <1>7, <1>8, NoGrowth
<1>10. Moves(f, g)
  BY <1>1 DEF Moves, Drops
<1>11. QED
  BY <1>6, <1>8, <1>9, <1>10 DEF Goes

LEMMA FreeGoes ==
  ASSUME NEW h, ~h.enomem, NEW f, NEW sz, Holds(h, f, sz), NEW x \in DOMAIN f
  PROVE  Goes(h, f, dlfree(h, x), Disowning(f, {x}))
<1> DEFINE p == mem2chunk(x)
<1>1. p \in Owned(f) /\ x = chunk2mem(p) /\ Params(h) /\ Heap(h, sz, Owned(f))
  BY BlockPlace
<1>2. Gives(h, dlfree(h, x), sz, Owned(f) \ {p})
  BY <1>1, FreeGives
<1>3. ChunksOf({x}) = {p}
  BY DEF ChunksOf
<1>4. QED
  BY <1>2, <1>3, ReleasingGoes

LEMMA BulkFreeGoes ==
  ASSUME NEW h, ~h.enomem, NEW f, NEW sz, Holds(h, f, sz), NEW S, S \subseteq DOMAIN f, S # {},
         NEW n \in Nat, NEW a \in [1 .. n -> S], \A x \in S : \E i \in 1 .. n : a[i] = x,
         \A i \in 1 .. n, j \in 1 .. n : a[i] = a[j] => i = j
  PROVE  Goes(h, f, dlbulk_free(h, a), Disowning(f, S))
<1>1. \A x \in DOMAIN f : x \in Nat /\ x >= 8 /\ mem2chunk(x) \in Owned(f)
  BY DEF Holds, BlocksIn, Owned
<1>2. a \in Seq(Nat) /\ Len(a) = n
  BY <1>1
<1>3. BulkOK(a, n, Owned(f))
  BY <1>1, <1>2 DEF BulkOK
<1>4. Params(h) /\ Heap(h, sz, Owned(f))
  BY BlockPlace
<1>5. Gives(h, dlbulk_free(h, a), sz, Owned(f) \ Pending(a, 0, n))
  BY <1>3, <1>4, BulkFreeGives
<1>6. Pending(a, 0, n) = ChunksOf(S)
  <2>1. 0 + 1 .. n = 1 .. n
    OBVIOUS
  <2>2. QED
    BY <2>1 DEF Pending, ChunksOf
<1>7. QED
  BY <1>5, <1>6, ReleasingGoes

(* One block for another. *)
LEMMA ResizingGoes ==
  ASSUME NEW h, ~h.enomem, NEW f, NEW sz, Holds(h, f, sz), NEW x \in DOMAIN f, NEW p, p = mem2chunk(x),
         NEW n, NEW q, NEW bytes \in Nat, Obtains(h, n, q, bytes + 4, sz, Owned(f) \ {p}),
         NEW y, y = chunk2mem(q), NEW b, b.bytes = bytes, y % b.align = 0,
         NEW g, g = Store(Disowning(f, {x}), y, b)
  PROVE  y # 0 /\ Goes(h, f, n, g)
<1> DEFINE d == Disowning(f, {x})
<1>1. DOMAIN d = DOMAIN f \ {x} /\ IsFunction(d) /\ \A z \in DOMAIN d : d[z] = f[z]
  BY DisowningIs DEF DisownedIn
<1> HIDE DEF d
<1>2. Owned(d) = Owned(f) \ {p}
  <2>1. ChunksOf({x}) = {p}
    BY DEF ChunksOf
  <2>2. QED
    BY <1>1, <2>1, OwnedLess
<1>3. BlocksIn(d, sz)
  BY <1>1 DEF Holds, BlocksIn
<1>4. Obtains(h, n, q, bytes + 4, sz, Owned(d)) /\ g = Store(d, y, b)
  BY <1>2 DEF d
<1>5. /\ y # 0 /\ y \notin DOMAIN d /\ StoredIn(g, d, y, b) /\ ~n.enomem /\ Growth(h, n)
      /\ \E t : Holds(n, g, t)
  BY <1>3, <1>4, ObtainingHolds
<1>6. Swaps(f, g)
  <2>1. y \in DOMAIN g /\ y \notin DOMAIN f \ {x} /\ DOMAIN g = (DOMAIN f \ {x}) \cup {y}
    BY <1>1, <1>5 DEF StoredIn
  <2>2. \A z \in DOMAIN f \ {x} : g[z] = f[z]
    BY <1>1, <1>5 DEF StoredIn
  <2>3. QED
    BY <2>1, <2>2 DEF Swaps
<1>7. QED
  BY <1>5, <1>6 DEF Goes, Moves

LEMMA ReallocGoes ==
  ASSUME NEW h, ~h.enomem, NEW f, NEW sz, Holds(h, f, sz), NEW x \in DOMAIN f, NEW bytes \in Nat, NEW env,
         NEW r, r = dlrealloc(h, x, bytes, env),
         NEW g, g = IF r.mem = 0 THEN f ELSE Owning(Disowning(f, {x}), r.mem, Plain(bytes))
  PROVE  Goes(h, f, r.m, g)
<1> DEFINE p == mem2chunk(x)
           U == Owned(f)
           b == Plain(bytes)
           nb == request2size(bytes)
<1>1. p \in U /\ x = chunk2mem(p) /\ Params(h) /\ Heap(h, sz, U)
  BY BlockPlace
<1>2. b.bytes = bytes /\ b.align = 8
  BY DEF Plain, Block, MALLOC_ALIGNMENT
<1> HIDE DEF p, U, b, nb
<1>3. \/ bytes < MAX_REQUEST /\ Reallocs(h, r, sz, U, p, nb)
      \/ Fails(h, r, sz, U)
  BY <1>1, ReallocOutcome DEF nb
<1>4. CASE Fails(h, r, sz, U)
  BY <1>4, FailingGoes DEF U
<1>5. CASE bytes < MAX_REQUEST /\ Reallocs(h, r, sz, U, p, nb) /\ ~Fails(h, r, sz, U)
  <2>1. PICK q : r.mem = chunk2mem(q) /\ Obtains(h, r.m, q, nb, sz, U \ {p})
    BY <1>5 DEF Reallocs
  <2>2. nb \in Nat /\ nb >= bytes + 4
    BY <1>5, RequestSizes DEF nb
  <2>3. Obtains(h, r.m, q, bytes + 4, sz, U \ {p})
    BY <2>1, <2>2, ObtainsLess
  <2>4. r.mem % 8 = 0
    <3>1. q \in Nat /\ q % 8 = 0
      BY <2>1, <2>2, ObtainedPlace
    <3>2. QED
      BY <2>1, <3>1 DEF chunk2mem, TWO_SIZE_T_SIZES
  <2>5. r.mem # 0 /\ Goes(h, f, r.m, Store(Disowning(f, {x}), r.mem, b))
    BY <1>2, <2>1, <2>3, <2>4, ResizingGoes DEF p, U
  <2>6. QED
    BY <2>5 DEF Owning, b
<1>6. QED
  BY <1>3, <1>4, <1>5

LEMMA ReallocInPlaceGoes ==
  ASSUME NEW h, ~h.enomem, NEW f, NEW sz, Holds(h, f, sz), NEW x \in DOMAIN f, NEW bytes \in Nat,
         NEW r, r = dlrealloc_in_place(h, x, bytes), NEW b, b = Block(bytes, f[x].align),
         NEW g, g = IF r.mem = 0 THEN f ELSE Owning(Disowning(f, {x}), r.mem, b)
  PROVE  Goes(h, f, r.m, g)
<1> DEFINE p == mem2chunk(x)
           U == Owned(f)
           nb == request2size(bytes)
<1>1. p \in U /\ x = chunk2mem(p) /\ Params(h) /\ Heap(h, sz, U) /\ Mem(h, sz, U)
  BY BlockPlace
<1>2. b.bytes = bytes /\ b.align = f[x].align /\ x % f[x].align = 0
  BY DEF Block, Holds, BlocksIn
<1> HIDE DEF p, U, nb
<1>3. \/ bytes < MAX_REQUEST /\ r.mem = x /\ Obtains(h, r.m, p, nb, sz, U \ {p})
      \/ r.mem = 0 /\ r.m = h
      \/ Fails(h, r, sz, U)
  BY <1>1, ReallocInPlaceOutcome DEF nb
<1>4. CASE Fails(h, r, sz, U)
  BY <1>4, FailingGoes DEF U
<1>5. CASE r.mem = 0 /\ r.m = h
  <2>1. Declines(h, r, sz, U)
    BY <1>1, <1>5, NothingDone
  <2>2. QED
    BY <1>5, <2>1, DecliningGoes DEF U
<1>6. CASE bytes < MAX_REQUEST /\ r.mem = x /\ Obtains(h, r.m, p, nb, sz, U \ {p}) /\ ~Fails(h, r, sz, U)
  <2>1. nb \in Nat /\ nb >= bytes + 4
    BY <1>6, RequestSizes DEF nb
  <2>2. Obtains(h, r.m, p, bytes + 4, sz, U \ {p})
    BY <1>6, <2>1, ObtainsLess
  <2>3. r.mem # 0 /\ Goes(h, f, r.m, Store(Disowning(f, {x}), r.mem, b))
    <3>1. r.mem = chunk2mem(p) /\ r.mem % b.align = 0
      BY <1>1, <1>2, <1>6
    <3>2. QED
      BY <1>2, <2>2, <3>1, ResizingGoes DEF p, U
  <2>4. QED
    BY <2>3 DEF Owning
<1>7. QED
  BY <1>3, <1>4, <1>5, <1>6

(* Several blocks more. *)
AllStored(g, f, at, lens, K) ==
  /\ IsFunction(g) /\ DOMAIN g = DOMAIN f \cup {chunk2mem(at[i]) : i \in 1 .. K}
  /\ \A y \in DOMAIN f : g[y] = f[y]
  /\ \A i \in 1 .. K : /\ g[chunk2mem(at[i])].bytes \in Nat /\ g[chunk2mem(at[i])].align = 8
                       /\ lens[i] = g[chunk2mem(at[i])].bytes + 4

LEMMA MemOf ==
  ASSUME NEW p \in Nat
  PROVE  /\ mem2chunk(chunk2mem(p)) = p /\ chunk2mem(p) \in Nat /\ chunk2mem(p) >= 8
         /\ p % 8 = 0 => chunk2mem(p) % 8 = 0
BY DEF mem2chunk, chunk2mem, TWO_SIZE_T_SIZES

LEMMA CarvingGoes ==
  ASSUME NEW h, ~h.enomem, NEW f, NEW sz, Holds(h, f, sz), NEW n, NEW at, NEW lens, NEW K \in Nat,
         Blocks(h, n, at, lens, K, sz, Owned(f)), NEW g, AllStored(g, f, at, lens, K)
  PROVE  Goes(h, f, n, g)
<1>1. /\ Params(n) /\ ~n.enomem /\ Growth(h, n) /\ \A i \in 1 .. K : at[i] \in Nat
      /\ \E u : /\ Heap(n, u, Owned(f) \cup Spots(at, K)) /\ Keeps(u, sz, Owned(f))
                /\ \A i \in 1 .. K : u[at[i]] >= lens[i]
  BY DEF Blocks, Apart2
<1>2. PICK u : /\ Heap(n, u, Owned(f) \cup Spots(at, K)) /\ Keeps(u, sz, Owned(f))
               /\ \A i \in 1 .. K : u[at[i]] >= lens[i]
  BY <1>1
<1>3. \A i \in 1 .. K : /\ mem2chunk(chunk2mem(at[i])) = at[i]
                        /\ chunk2mem(at[i]) \in Nat /\ chunk2mem(at[i]) >= 8
                        /\ chunk2mem(at[i]) % 8 = 0
  <2>1. ASSUME NEW i \in 1 .. K
        PROVE  /\ mem2chunk(chunk2mem(at[i])) = at[i]
               /\ chunk2mem(at[i]) \in Nat /\ chunk2mem(at[i]) >= 8 /\ chunk2mem(at[i]) % 8 = 0
    <3> DEFINE q == at[i]
    <3>1. q \in Owned(f) \cup Spots(at, K)
      BY DEF Spots
    <3> HIDE DEF q
    <3>2. q \in Nat /\ q % 8 = 0
      BY <1>1, <1>2, <3>1, UsedPlace
    <3>3. /\ mem2chunk(chunk2mem(q)) = q /\ chunk2mem(q) \in Nat /\ chunk2mem(q) >= 8
          /\ chunk2mem(q) % 8 = 0
      BY <3>2, MemOf
    <3>4. QED
      BY <3>3 DEF q
  <2>2. QED
    BY <2>1
<1>4. /\ IsFunction(g) /\ DOMAIN g = DOMAIN f \cup {chunk2mem(at[i]) : i \in 1 .. K}
      /\ \A y \in DOMAIN f : g[y] = f[y]
  BY DEF AllStored
<1>5. Owned(g) = Owned(f) \cup Spots(at, K)
  BY <1>3, <1>4 DEF Owned, Spots
<1>6. BlocksIn(g, u)
  <2>1. ASSUME NEW y \in DOMAIN f
        PROVE  /\ y \in Nat /\ y >= 8 /\ g[y].bytes \in Nat
               /\ u[mem2chunk(y)] >= g[y].bytes + 4 /\ y % g[y].align = 0
    <3>1. u[mem2chunk(y)] = sz[mem2chunk(y)]
      BY <1>2 DEF Keeps, Owned
    <3>2. QED
      BY <1>4, <3>1 DEF Holds, BlocksIn
  <2>2. ASSUME NEW i \in 1 .. K, NEW y, y = chunk2mem(at[i])
        PROVE  /\ y \in Nat /\ y >= 8 /\ g[y].bytes \in Nat
               /\ u[mem2chunk(y)] >= g[y].bytes + 4 /\ y % g[y].align = 0
    <3>1. g[y].bytes \in Nat /\ g[y].align = 8 /\ lens[i] = g[y].bytes + 4
      BY <2>2 DEF AllStored
    <3>2. QED
      BY <1>2, <1>3, <2>2, <3>1
  <2>3. QED
    BY <1>4, <2>1, <2>2 DEF BlocksIn
<1>7. Holds(n, g, u)
  BY <1>1, <1>2, <1>4, <1>5, <1>6 DEF Holds, Mem
<1>8. Moves(f, g)
  BY <1>4 DEF Moves, Adds
<1>9. QED
  BY <1>1, <1>7, <1>8 DEF Goes

(* Blocks at the addresses mems, for the sizes of requests. *)
AllOwned(g, f, at, requests, n) ==
  /\ IsFunction(g) /\ DOMAIN g = DOMAIN f \cup {chunk2mem(at[i]) : i \in 1 .. n}
  /\ \A y \in DOMAIN f : g[y] = f[y]
  /\ \A i \in 1 .. n : g[chunk2mem(at[i])] = Plain(requests[i])

LEMMA MemsApart ==
  ASSUME NEW h, NEW f, NEW sz, Holds(h, f, sz), NEW at, NEW K \in Nat, Apart2(at, K, Owned(f))
  PROVE  /\ \A i \in 1 .. K : chunk2mem(at[i]) \notin DOMAIN f
         /\ \A i \in 1 .. K, j \in 1 .. K : chunk2mem(at[i]) = chunk2mem(at[j]) => i = j
<1>1. /\ \A i \in 1 .. K : at[i] \in Nat /\ at[i] \notin Owned(f)
      /\ \A i \in 1 .. K, j \in 1 .. K : at[i] = at[j] => i = j
  BY DEF Apart2
<1>2. ASSUME NEW i \in 1 .. K
      PROVE  chunk2mem(at[i]) \notin DOMAIN f
  <2>1. mem2chunk(chunk2mem(at[i])) = at[i]
    BY <1>1, MemOf
  <2>2. chunk2mem(at[i]) \in DOMAIN f => mem2chunk(chunk2mem(at[i])) \in Owned(f)
    BY DEF Owned
  <2>3. QED
    BY <1>1, <2>1, <2>2
<1>3. ASSUME NEW i \in 1 .. K, NEW j \in 1 .. K, chunk2mem(at[i]) = chunk2mem(at[j])
      PROVE  i = j
  <2>1. at[i] \in Nat /\ at[j] \in Nat
    BY <1>1
  <2>2. at[i] = at[j]
    BY <1>3, <2>1, MemOf
  <2>3. QED
    BY <1>1, <2>2
<1>4. QED
  BY <1>2, <1>3

LEMMA OwningAllIs ==
  ASSUME NEW f, NEW at, NEW n \in Nat, NEW requests, NEW mems, mems = Chunks2Mems(at, n),
         \A i \in 1 .. n : chunk2mem(at[i]) \notin DOMAIN f,
         \A i \in 1 .. n, j \in 1 .. n : chunk2mem(at[i]) = chunk2mem(at[j]) => i = j,
         NEW g, g = OwningAll(f, mems, requests)
  PROVE  AllOwned(g, f, at, requests, n)
<1>1. DOMAIN mems = 1 .. n /\ \A i \in 1 .. n : mems[i] = chunk2mem(at[i])
  BY DEF Chunks2Mems
<1>2. ToSet(mems) = {chunk2mem(at[i]) : i \in 1 .. n}
  BY <1>1 DEF ToSet
<1>3. IsFunction(g) /\ DOMAIN g = DOMAIN f \cup {chunk2mem(at[i]) : i \in 1 .. n}
  BY <1>2 DEF OwningAll, IsFunction
<1>4. \A y \in DOMAIN f : g[y] = f[y]
  BY <1>2 DEF OwningAll
<1>5. ASSUME NEW i \in 1 .. n
      PROVE  g[chunk2mem(at[i])] = Plain(requests[i])
  <2>1. (CHOOSE j \in DOMAIN mems : mems[j] = chunk2mem(at[i])) = i
    BY <1>1
  <2>2. chunk2mem(at[i]) \in ToSet(mems)
    BY <1>2
  <2>3. g[chunk2mem(at[i])] = Plain(requests[CHOOSE j \in DOMAIN mems : mems[j] = chunk2mem(at[i])])
    BY <2>2 DEF OwningAll
  <2>4. QED
    BY <2>1, <2>3
<1>6. QED
  BY <1>3, <1>4, <1>5 DEF AllOwned

LEMMA PlainIs ==
  ASSUME NEW bytes
  PROVE  Plain(bytes).bytes = bytes /\ Plain(bytes).align = 8
BY DEF Plain, Block, MALLOC_ALIGNMENT

LEMMA OwnStored ==
  ASSUME NEW f, NEW at, NEW requests \in Seq(Nat), NEW n, n = Len(requests),
         NEW lens, lens = Lens(requests), NEW g, AllOwned(g, f, at, requests, n)
  PROVE  AllStored(g, f, at, lens, n)
<1>1. /\ IsFunction(g) /\ DOMAIN g = DOMAIN f \cup {chunk2mem(at[i]) : i \in 1 .. n}
      /\ \A y \in DOMAIN f : g[y] = f[y]
      /\ \A i \in 1 .. n : g[chunk2mem(at[i])] = Plain(requests[i])
  BY DEF AllOwned
<1>2. \A i \in 1 .. n : lens[i] = requests[i] + 4
  BY LensAre
<1>3. ASSUME NEW i \in 1 .. n
      PROVE  /\ g[chunk2mem(at[i])].bytes \in Nat /\ g[chunk2mem(at[i])].align = 8
             /\ lens[i] = g[chunk2mem(at[i])].bytes + 4
  <2>1. requests[i] \in Nat
    OBVIOUS
  <2> DEFINE b == Plain(requests[i])
             x == chunk2mem(at[i])
  <2>2. b.bytes = requests[i] /\ b.align = 8
    BY PlainIs
  <2>3. g[x] = b /\ lens[i] = requests[i] + 4
    BY <1>1, <1>2
  <2> HIDE DEF b, x
  <2>4. g[x].bytes \in Nat /\ g[x].align = 8 /\ lens[i] = g[x].bytes + 4
    BY <2>1, <2>2, <2>3
  <2>5. QED
    BY <2>4 DEF x
<1>4. QED
  BY <1>1, <1>3 DEF AllStored

LEMMA BothStored ==
  ASSUME NEW f, NEW at, NEW requests \in Seq(Nat), NEW n, n = Len(requests),
         NEW lens, lens = Lens(requests), NEW d, AllOwned(d, f, at, requests, n),
         NEW x, x = chunk2mem(at[n + 1]), x \notin DOMAIN d, NEW b, b = Plain(4 * n),
         NEW g, StoredIn(g, d, x, b), NEW K, K = n + 1
  PROVE  AllStored(g, f, at, lens, K)
<1>1. AllStored(d, f, at, lens, n)
  BY OwnStored
<1>2. /\ DOMAIN d = DOMAIN f \cup {chunk2mem(at[i]) : i \in 1 .. n}
      /\ \A y \in DOMAIN f : d[y] = f[y]
      /\ \A i \in 1 .. n : /\ d[chunk2mem(at[i])].bytes \in Nat /\ d[chunk2mem(at[i])].align = 8
                           /\ lens[i] = d[chunk2mem(at[i])].bytes + 4
  BY <1>1 DEF AllStored
<1>3. /\ DOMAIN g = DOMAIN d \cup {x} /\ IsFunction(g) /\ g[x] = b
      /\ \A y \in DOMAIN d : g[y] = d[y]
  BY DEF StoredIn
<1>4. n \in Nat /\ 1 .. K = (1 .. n) \cup {K} /\ K \notin 1 .. n
  OBVIOUS
<1>5. DOMAIN g = DOMAIN f \cup {chunk2mem(at[i]) : i \in 1 .. K}
  BY <1>2, <1>3, <1>4
<1>6. b.bytes = 4 * n /\ b.align = 8
  BY PlainIs
<1>7. lens[K] = n * 4 + 4
  BY LensAre
<1>8. ASSUME NEW i \in 1 .. K
      PROVE  /\ g[chunk2mem(at[i])].bytes \in Nat /\ g[chunk2mem(at[i])].align = 8
             /\ lens[i] = g[chunk2mem(at[i])].bytes + 4
  <2>1. CASE i \in 1 .. n
    <3>1. chunk2mem(at[i]) \in DOMAIN d
      BY <1>2, <2>1
    <3>2. g[chunk2mem(at[i])] = d[chunk2mem(at[i])]
      BY <1>3, <3>1
    <3>3. QED
      BY <1>2, <2>1, <3>2
  <2>2. CASE i = K
    BY <1>3, <1>4, <1>6, <1>7, <2>2
  <2>3. QED
    BY <1>4, <2>1, <2>2
<1>9. QED
  BY <1>2, <1>3, <1>5, <1>8 DEF AllStored

LEMMA NoneOwned ==
  ASSUME NEW f, IsFunction(f), NEW requests, NEW mems, mems = <<>>
  PROVE  OwningAll(f, mems, requests) = f
<1>1. ToSet(mems) = {}
  BY DEF ToSet
<1>2. QED
  BY <1>1 DEF OwningAll, IsFunction

LEMMA MemIsSome ==
  ASSUME NEW p \in Nat
  PROVE  chunk2mem(p) # 0
BY DEF chunk2mem, TWO_SIZE_T_SIZES

LEMMA ApartNats ==
  ASSUME NEW at, NEW K, NEW U, Apart2(at, K, U)
  PROVE  \A i \in 1 .. K : at[i] \in Nat
BY DEF Apart2

LEMMA IallocGoes ==
  ASSUME NEW h, ~h.enomem, NEW f, NEW sz, Holds(h, f, sz), NEW requests \in Seq(Nat),
         NEW r, IallocOutcome(h, r, requests, sz, Owned(f)),
         NEW d, d = OwningAll(f, r.mems, requests),
         NEW g, g = Owning(d, r.mem, Plain(SIZE_T_SIZE * Len(requests)))
  PROVE  Goes(h, f, r.m, g)
<1> DEFINE n == Len(requests)
           lens == Lens(requests)
           U == Owned(f)
           b == Plain(4 * n)
<1>1. n \in Nat /\ b = Plain(SIZE_T_SIZE * n) /\ n + 1 \in Nat /\ n + 1 \in 1 .. n + 1
  BY DEF SIZE_T_SIZE
<1> HIDE DEF n, lens, U, b
<1>2. CASE CarvedOwn(h, r, n, lens, sz, U)
  <2>1. PICK at : r.mem = 0 /\ r.mems = Chunks2Mems(at, n) /\ Blocks(h, r.m, at, lens, n, sz, U)
    BY <1>2 DEF CarvedOwn
  <2>2. Apart2(at, n, U)
    BY <2>1 DEF Blocks
  <2>3. /\ \A i \in 1 .. n : chunk2mem(at[i]) \notin DOMAIN f
        /\ \A i \in 1 .. n, j \in 1 .. n : chunk2mem(at[i]) = chunk2mem(at[j]) => i = j
    BY <1>1, <2>2, MemsApart DEF U
  <2>4. AllOwned(d, f, at, requests, n)
    BY <1>1, <2>1, <2>3, OwningAllIs
  <2>5. AllStored(d, f, at, lens, n)
    BY <2>4, OwnStored DEF n, lens
  <2>6. Goes(h, f, r.m, d)
    BY <1>1, <2>1, <2>5, CarvingGoes DEF U
  <2>7. QED
    BY <2>1, <2>6 DEF Owning
<1>3. CASE CarvedBoth(h, r, n, lens, sz, U)
  <2> DEFINE x == r.mem
  <2>1. PICK at : /\ r.mems = Chunks2Mems(at, n) /\ x = chunk2mem(at[n + 1])
                  /\ Blocks(h, r.m, at, lens, n + 1, sz, U)
    BY <1>3 DEF CarvedBoth
  <2>2. Apart2(at, n + 1, U)
    BY <2>1 DEF Blocks
  <2> DEFINE K == n + 1
  <2>3. K \in Nat /\ K = n + 1 /\ K \in 1 .. K /\ K \notin 1 .. n /\ \A i \in 1 .. n : i \in 1 .. K
    BY <1>1
  <2>4. Apart2(at, K, U) /\ Blocks(h, r.m, at, lens, K, sz, U) /\ x = chunk2mem(at[K])
    BY <2>1, <2>2
  <2> HIDE DEF K, x
  <2>5. /\ \A i \in 1 .. K : chunk2mem(at[i]) \notin DOMAIN f
        /\ \A i \in 1 .. K, j \in 1 .. K : chunk2mem(at[i]) = chunk2mem(at[j]) => i = j
    BY <2>3, <2>4, MemsApart DEF U
  <2>6. /\ \A i \in 1 .. n : chunk2mem(at[i]) \notin DOMAIN f
        /\ \A i \in 1 .. n, j \in 1 .. n : chunk2mem(at[i]) = chunk2mem(at[j]) => i = j
    BY <2>3, <2>5
  <2>7. AllOwned(d, f, at, requests, n)
    BY <1>1, <2>1, <2>6, OwningAllIs
  <2>8. x \notin DOMAIN d
    <3>1. DOMAIN d = DOMAIN f \cup {chunk2mem(at[i]) : i \in 1 .. n}
      BY <2>7 DEF AllOwned
    <3>2. \A i \in 1 .. n : chunk2mem(at[i]) # x
      BY <2>3, <2>4, <2>5
    <3>3. x \notin DOMAIN f
      BY <2>3, <2>4, <2>5
    <3>4. QED
      BY <3>1, <3>2, <3>3
  <2>9. x # 0
    <3>1. at[K] \in Nat
      <4>1. \A i \in 1 .. K : at[i] \in Nat
        BY <2>4, ApartNats
      <4>2. QED
        BY <2>3, <4>1
    <3>2. chunk2mem(at[K]) # 0
      BY <3>1, MemIsSome
    <3>3. x = chunk2mem(at[K])
      BY <2>4
    <3>4. QED
      BY <3>2, <3>3
  <2>10. StoredIn(g, d, x, b)
    BY <1>1, <2>9, StoreIs DEF Owning, x, n
  <2>11. AllStored(g, f, at, lens, K)
    BY <2>3, <2>4, <2>7, <2>8, <2>10, BothStored DEF n, lens, b
  <2>12. QED
    BY <2>3, <2>4, <2>11, CarvingGoes DEF U
<1>4. CASE (Fails(h, r, sz, U) \/ Declines(h, r, sz, U)) /\ r.mems = <<>>
  <2>1. r.mem = 0 /\ Goes(h, f, r.m, f)
    BY <1>4, FailingGoes, DecliningGoes DEF U
  <2>2. d = f
    BY <1>4, NoneOwned DEF Holds
  <2>3. QED
    BY <2>1, <2>2 DEF Owning
<1>5. QED
  BY <1>2, <1>3, <1>4 DEF IallocOutcome, n, lens, U

-----------------------------------------------------------------------------
(* Parameters.                                                             *)

ParamFields ==
  {"contiguous", "enomem", "footprint_limit", "trim_check", "trim_threshold", "granularity"}

LEMMA MemFrame ==
  ASSUME NEW h, NEW sz, NEW U, Mem(h, sz, U), NEW n, Only(n, h, ParamFields), Params(n),
         h.granularity # 0 => n.granularity # 0
  PROVE  Mem(n, sz, U)
<1>1. CASE Heap(h, sz, U)
  <2>1. h.granularity # 0
    BY <1>1 DEF Heap, Segment
  <2>2. Heap(n, sz, U)
    BY <1>1, <2>1, HeapFrame DEF ParamFields
  <2>3. QED
    BY <2>2 DEF Mem
<1>2. CASE NoHeap(h) /\ U = {}
  <2>1. NoHeap(n)
    BY <1>2, NoHeapFrame DEF ParamFields
  <2>2. QED
    BY <1>2, <2>1 DEF Mem
<1>3. QED
  BY <1>1, <1>2 DEF Mem

LEMMA FootprintIs ==
  ASSUME NEW h, NEW sz, NEW U, Mem(h, sz, U)
  PROVE  h.footprint \in Nat
BY DEF Mem, Heap, Segment, NoHeap

LEMMA ParamFieldsOf ==
  ASSUME NEW n, NEW h, Only(n, h, ParamFields)
  PROVE  /\ n.heap_base = h.heap_base /\ n.memory_end = h.memory_end /\ n.ok = h.ok
         /\ n.footprint = h.footprint /\ n.brk = h.brk /\ n.top = h.top
BY DEF Only, ParamFields, FieldNames

LEMMA ParamGoes ==
  ASSUME NEW h, ~h.enomem, NEW f, NEW sz, Holds(h, f, sz), NEW n, Only(n, h, ParamFields),
         n.footprint_limit \in Nat, n.contiguous = h.contiguous, n.enomem = h.enomem,
         n.granularity \in 0 .. MAX_SIZE_T, n.granularity % 8 = 0,
         h.granularity # 0 => n.granularity # 0
  PROVE  Goes(h, f, n, f)
<1>1. Mem(h, sz, Owned(f)) /\ Params(h)
  BY DEF Holds, Mem
<1>2. Params(n)
  BY <1>1, ParamFieldsOf DEF Params
<1>3. Mem(n, sz, Owned(f))
  BY <1>1, <1>2, MemFrame
<1>4. Holds(n, f, sz)
  BY <1>3 DEF Holds
<1>5. Growth(h, n)
  <2>1. n.footprint = h.footprint /\ h.footprint \in Nat
    BY <1>1, ParamFieldsOf, FootprintIs
  <2>2. QED
    BY <2>1, NoGrowth
<1>6. QED
  BY <1>4, <1>5, NothingGoes

(* errno is cleared before a call. *)
LEMMA CalledHolds ==
  ASSUME NEW f, NEW sz, Holds(m, f, sz), NEW h, h = Called
  PROVE  /\ Holds(h, f, sz) /\ ~h.enomem /\ IsState(h) /\ Params(h)
         /\ h.footprint = m.footprint /\ h.footprint_limit = m.footprint_limit /\ h.brk = m.brk
         /\ h.top = m.top /\ Only(h, m, ParamFields) /\ h.granularity = m.granularity
<1>0. Mem(m, sz, Owned(f))
  BY DEF Holds
<1>1. Mem(m, sz, Owned(f)) /\ IsState(m) /\ Params(m)
  BY <1>0, MemIsState
<1>2. PICK no : no = FALSE
  OBVIOUS
<1>10. h = EnomemSet(m, no)
  BY <1>2 DEF Called, EnomemSet
<1>11. Only(h, m, {"contiguous", "enomem"}) /\ h.enomem = no /\ h.contiguous = m.contiguous
  BY <1>1, <1>10, WithEnomem
<1>3. Only(h, m, {"contiguous", "enomem"}) /\ ~h.enomem /\ h.enomem \in BOOLEAN /\ h.contiguous = m.contiguous
  BY <1>2, <1>11
<1>4. Only(h, m, ParamFields) /\ IsState(h)
  BY <1>3 DEF Only, ParamFields
<1>5. /\ h.footprint_limit = m.footprint_limit /\ h.granularity = m.granularity
  BY <1>3 DEF Only, FieldNames
<1>6. Params(h)
  BY <1>1, <1>3, <1>4, <1>5, ParamFieldsOf DEF Params
<1>7. Mem(h, sz, Owned(f))
  BY <1>1, <1>4, <1>5, <1>6, MemFrame
<1>8. Holds(h, f, sz)
  BY <1>7 DEF Holds
<1>9. QED
  BY <1>3, <1>4, <1>5, <1>6, <1>8, ParamFieldsOf

LEMMA AlignUpIsNat ==
  ASSUME NEW n \in Nat, NEW u \in Nat \ {0}
  PROVE  AlignUp(n, u) \in Nat
<1> DEFINE w == Word(n + u - 1)
<1>1. n + u - 1 \in Nat
  OBVIOUS
<1>2. w \in Nat
  BY <1>1, WordIsLess
<1> HIDE DEF w
<1>3. w % u \in Nat /\ w % u <= w
  <2>1. w = (w \div u) * u + (w % u) /\ w % u \in 0 .. u - 1 /\ w \div u \in Nat
    BY <1>2, QuotientRemainder
  <2>2. (w \div u) * u \in Nat
    BY <2>1
  <2>3. QED
    BY <1>2, <2>1, <2>2
<1>4. QED
  BY <1>2, <1>3 DEF AlignUp, w

-----------------------------------------------------------------------------
(* The actions.                                                            *)

LEMMA ReturnsGoes ==
  ASSUME NEW h, ~h.enomem, NEW sz, Holds(h, live, sz), NEW r, NEW bytes \in Nat, NEW a,
         Outcome(h, r, bytes, a, sz, Owned(live)), NEW b, b = Block(bytes, a), Returns(r, b)
  PROVE  Goes(h, live, m', live')
<1>1. m' = r.m /\ live' = Owning(live, r.mem, b)
  BY DEF Returns
<1>2. Goes(h, live, r.m, Owning(live, r.mem, b))
  BY OutcomeGoes
<1>3. QED
  BY <1>1, <1>2

LEMMA SizesAreNat == SizeTs \subseteq Nat /\ MALLOC_ALIGNMENT = 8
BY Requests DEF SizeTs, MAX_SIZE_T, MALLOC_ALIGNMENT

LEMMA MallocGoes ==
  ASSUME NEW h, h = Called, ~h.enomem, NEW sz, Holds(h, live, sz),
         NEW bytes \in Nat, NEW env, Malloc(bytes, env)
  PROVE  Goes(h, live, m', live')
<1> DEFINE r == dlmalloc(h, bytes, env)
           b == Plain(bytes)
<1>1. Mem(h, sz, Owned(live)) /\ r = dlmalloc(h, bytes, env)
  BY DEF Holds
<1>2. Returns(r, b) /\ b = Block(bytes, 8)
  BY SizesAreNat DEF Malloc, Plain
<1> HIDE DEF r, b
<1>3. Outcome(h, r, bytes, 8, sz, Owned(live))
  BY <1>1, MallocDelivers DEF Outcome
<1>4. QED
  BY <1>2, <1>3, ReturnsGoes

LEMMA CallocGoes ==
  ASSUME NEW h, h = Called, ~h.enomem, NEW sz, Holds(h, live, sz),
         NEW n \in Nat, NEW size \in Nat, NEW env, Calloc(n, size, env)
  PROVE  Goes(h, live, m', live')
<1> DEFINE r == dlcalloc(h, n, size, env)
           bytes == n * size
           b == Plain(bytes)
<1>1. Mem(h, sz, Owned(live)) /\ r = dlcalloc(h, n, size, env) /\ bytes \in Nat /\ bytes = n * size
  BY DEF Holds
<1>2. Returns(r, b) /\ b = Block(bytes, 8)
  BY SizesAreNat DEF Calloc, Plain
<1> HIDE DEF r, b
<1>5. Delivers(h, r, n * size, 8, sz, Owned(live)) \/ Fails(h, r, sz, Owned(live))
  BY <1>1, CallocDelivers
<1> HIDE DEF bytes
<1>3. Outcome(h, r, bytes, 8, sz, Owned(live))
  BY <1>1, <1>5 DEF Outcome
<1>4. QED
  BY <1>1, <1>2, <1>3, ReturnsGoes

LEMMA AlignedBlockIs ==
  ASSUME NEW a, NEW bytes
  PROVE  AlignedBlock(a, bytes) = Block(bytes, AlignFor(a))
BY DEF AlignedBlock, AlignFor, Plain

LEMMA MemalignGoes ==
  ASSUME NEW h, h = Called, ~h.enomem, NEW sz, Holds(h, live, sz),
         NEW a \in Nat, \E x \in PowersOfTwo : a <= x, NEW bytes \in Nat, NEW env,
         Memalign(a, bytes, env) \/ PosixMemalign(a, bytes, env)
  PROVE  Goes(h, live, m', live')
<1> DEFINE r == dlmemalign(h, a, bytes, env)
           s == dlposix_memalign(h, a, bytes, env)
           b == AlignedBlock(a, bytes)
           c == AlignFor(a)
<1>1. /\ Mem(h, sz, Owned(live)) /\ r = dlmemalign(h, a, bytes, env)
      /\ s = dlposix_memalign(h, a, bytes, env) /\ c = AlignFor(a)
  BY DEF Holds
<1>2. (Returns(r, b) \/ Returns(s, b)) /\ b = Block(bytes, c)
  BY AlignedBlockIs DEF Memalign, PosixMemalign
<1> HIDE DEF r, s, b, c
<1>3. Outcome(h, r, bytes, c, sz, Owned(live))
  <2>1. Delivers(h, r, bytes, AlignFor(a), sz, Owned(live)) \/ Fails(h, r, sz, Owned(live))
    BY <1>1, MemalignDelivers
  <2>2. QED
    BY <1>1, <2>1 DEF Outcome
<1>4. Outcome(h, s, bytes, c, sz, Owned(live))
  <2>1. Outcome(h, s, bytes, AlignFor(a), sz, Owned(live))
    BY <1>1, PosixMemalignOutcome
  <2>2. QED
    BY <1>1, <2>1
<1>5. QED
  BY <1>2, <1>3, <1>4, ReturnsGoes

LEMMA VallocGoes ==
  ASSUME NEW h, h = Called, ~h.enomem, NEW sz, Holds(h, live, sz),
         NEW bytes \in Nat, bytes + PageSize <= WordSize, NEW env,
         Valloc(bytes, env) \/ Pvalloc(bytes, env)
  PROVE  Goes(h, live, m', live')
<1> DEFINE r == dlvalloc(h, bytes, env)
           s == dlpvalloc(h, bytes, env)
           b == Block(bytes, PageSize)
<1>1. /\ Mem(h, sz, Owned(live)) /\ r = dlvalloc(h, bytes, env)
      /\ s = dlpvalloc(h, bytes, env) /\ b = Block(bytes, PageSize)
  BY DEF Holds
<1>2. Returns(r, b) \/ Returns(s, b)
  BY DEF Valloc, Pvalloc
<1>6. r = dlmemalign(ensure_initialization(h), PageSize, bytes, env)
  BY DEF dlvalloc
<1> HIDE DEF r, s, b
<1>3. Outcome(h, r, bytes, PageSize, sz, Owned(live))
  BY <1>1, <1>6, VallocDelivers DEF Outcome
<1>4. Outcome(h, s, bytes, PageSize, sz, Owned(live))
  BY <1>1, PvallocDelivers DEF Outcome
<1>5. QED
  BY <1>1, <1>2, <1>3, <1>4, ReturnsGoes

LEMMA CarvedGoes ==
  ASSUME NEW h, ~h.enomem, NEW sz, Holds(h, live, sz), NEW requests \in Seq(Nat), SumsUp(requests),
         NEW own \in BOOLEAN, NEW env, NEW r, r = ialloc(h, requests, own, env), Carved(r, requests)
  PROVE  Goes(h, live, m', live')
<1> DEFINE d == OwningAll(live, r.mems, requests)
           g == Owning(d, r.mem, Plain(SIZE_T_SIZE * Len(requests)))
<1>1. Mem(h, sz, Owned(live))
  BY DEF Holds
<1>2. IallocOutcome(h, r, requests, sz, Owned(live))
  BY <1>1, IallocDelivers
<1>3. /\ d = OwningAll(live, r.mems, requests)
      /\ g = Owning(d, r.mem, Plain(SIZE_T_SIZE * Len(requests)))
  OBVIOUS
<1>4. m' = r.m /\ live' = g
  BY DEF Carved
<1> HIDE DEF d, g
<1>5. Goes(h, live, r.m, g)
  BY <1>2, <1>3, IallocGoes
<1>6. QED
  BY <1>4, <1>5

LEMMA IndependentCallocGoes ==
  ASSUME NEW h, h = Called, ~h.enomem, NEW sz, Holds(h, live, sz), NEW n \in Nat, NEW size \in Nat,
         SumsUp([i \in 1 .. n |-> size]), NEW own \in BOOLEAN, NEW env,
         IndependentCalloc(n, size, own, env)
  PROVE  Goes(h, live, m', live')
<1> DEFINE q == [i \in 1 .. n |-> size]
           r == ialloc(h, q, own, env)
<1>1. q \in Seq(Nat) /\ SumsUp(q) /\ r = ialloc(h, q, own, env)
  OBVIOUS
<1>2. Carved(r, q)
  BY DEF IndependentCalloc, dlindependent_calloc
<1> HIDE DEF q, r
<1>3. QED
  BY <1>1, <1>2, CarvedGoes

LEMMA IndependentComallocGoes ==
  ASSUME NEW h, h = Called, ~h.enomem, NEW sz, Holds(h, live, sz), NEW requests \in Seq(Nat),
         SumsUp(requests), NEW own \in BOOLEAN, NEW env,
         IndependentComalloc(requests, own, env)
  PROVE  Goes(h, live, m', live')
<1> DEFINE r == ialloc(h, requests, own, env)
<1>1. r = ialloc(h, requests, own, env)
  OBVIOUS
<1>2. Carved(r, requests)
  BY DEF IndependentComalloc, dlindependent_comalloc
<1> HIDE DEF r
<1>3. QED
  BY <1>1, <1>2, CarvedGoes

(* The user has finitely many blocks. *)
LEMMA FiniteBlocks ==
  ASSUME NEW h, NEW f, NEW sz, Holds(h, f, sz)
  PROVE  IsFiniteSet(DOMAIN f)
<1>1. CASE DOMAIN f = {}
  BY <1>1, FS_EmptySet
<1>2. CASE DOMAIN f # {}
  <2>1. PICK z \in DOMAIN f : TRUE
    BY <1>2
  <2>2. Params(h) /\ Heap(h, sz, Owned(f))
    BY <2>1, BlockPlace
  <2>3. /\ End(h) \in Nat
        /\ Owned(f) \subseteq DOMAIN sz
        /\ \A c \in DOMAIN sz : c \in Nat /\ sz[c] \in Nat /\ c + sz[c] <= End(h)
    BY <2>2, HeapFacts
  <2>4. ASSUME NEW x \in DOMAIN f
        PROVE  x \in Nat /\ x <= End(h) + 8
    <3> DEFINE c == mem2chunk(x)
    <3>1. c \in Nat /\ c \in Owned(f) /\ x = chunk2mem(c) /\ x \in Nat
      BY BlockPlace
    <3> HIDE DEF c
    <3>2. c <= End(h)
      BY <2>3, <3>1
    <3>3. x = c + 8
      BY <3>1 DEF chunk2mem, TWO_SIZE_T_SIZES, SIZE_T_SIZE
    <3>4. QED
      BY <2>3, <3>1, <3>2, <3>3
  <2>5. DOMAIN f \in SUBSET Nat /\ \A x \in DOMAIN f : x <= End(h) + 8
    BY <2>4
  <2>6. End(h) + 8 \in Nat
    BY <2>3
  <2>7. QED
    BY <2>5, <2>6, FS_BoundedSetOfNaturals
<1>3. QED
  BY <1>1, <1>2

LEMMA ArraysAre ==
  ASSUME NEW S, IsFiniteSet(S), NEW n \in Nat, n = Cardinality(S), NEW a \in SetToSeqs(S)
  PROVE  /\ a \in [1 .. n -> S] /\ \A x \in S : \E i \in 1 .. n : a[i] = x
         /\ \A i \in 1 .. n, j \in 1 .. n : a[i] = a[j] => i = j
         /\ ToSet(a) = S
<1>1. a \in [1 .. n -> S] /\ \A i \in 1 .. n, j \in 1 .. n : a[i] = a[j] => i = j
  BY DEF SetToSeqs
<1>2. a \in Injection(1 .. n, S)
  BY <1>1 DEF Injection, IsInjective
<1>3. Cardinality(1 .. n) = n
  <2>1. 1 \in Int /\ n \in Int
    OBVIOUS
  <2>2. Cardinality(1 .. n) = IF 1 > n THEN 0 ELSE n - 1 + 1
    BY <2>1, FS_Interval, Zenon
  <2>3. QED
    BY <2>2
<1>4. a \in Surjection(1 .. n, S)
  BY <1>2, <1>3, FS_Injection, Zenon
<1>5. \A x \in S : \E i \in 1 .. n : a[i] = x
  BY <1>4 DEF Surjection
<1>6. ToSet(a) = S
  BY <1>1, <1>5 DEF ToSet
<1>7. QED
  BY <1>1, <1>5, <1>6

LEMMA BulkFreesGoes ==
  ASSUME NEW h, h = Called, ~h.enomem, NEW sz, Holds(h, live, sz),
         NEW S, S \subseteq DOMAIN live, NEW k \in Nat, Cardinality(S) \in 1 .. k,
         NEW array \in SetToSeqs(S), BulkFree(array)
  PROVE  Goes(h, live, m', live')
<1>1. IsFiniteSet(S)
  BY FiniteBlocks, FS_Subset
<1> DEFINE n == Cardinality(S)
<1>2. n \in Nat /\ n # 0 /\ n = Cardinality(S)
  OBVIOUS
<1> HIDE DEF n
<1>3. S # {}
  BY <1>2, FS_EmptySet
<1>4. /\ array \in [1 .. n -> S] /\ \A x \in S : \E i \in 1 .. n : array[i] = x
      /\ \A i \in 1 .. n, j \in 1 .. n : array[i] = array[j] => i = j
      /\ ToSet(array) = S
  BY <1>1, <1>2, ArraysAre
<1>5. Goes(h, live, dlbulk_free(h, array), Disowning(live, S))
  BY <1>2, <1>3, <1>4, BulkFreeGoes
<1>6. QED
  BY <1>4, <1>5 DEF BulkFree

LEMMA FreesGoes ==
  ASSUME NEW h, h = Called, ~h.enomem, NEW sz, Holds(h, live, sz), NEW x \in DOMAIN live, Free(x)
  PROVE  Goes(h, live, m', live')
BY FreeGoes DEF Free

(* A null pointer is no block. *)
LEMMA NoneDisowned ==
  ASSUME NEW h, NEW f, NEW sz, Holds(h, f, sz)
  PROVE  Disowning(f, {0}) = f
<1>1. 0 \notin DOMAIN f
  BY DEF Holds, BlocksIn
<1>2. DisownedIn(Disowning(f, {0}), f, {0})
  BY DisowningIs
<1>3. IsFunction(f)
  BY DEF Holds
<1>4. QED
  BY <1>1, <1>2, <1>3 DEF DisownedIn, IsFunction

LEMMA ReallocsGoes ==
  ASSUME NEW h, h = Called, ~h.enomem, NEW sz, Holds(h, live, sz), NEW x \in DOMAIN live \cup {0},
         NEW bytes \in Nat, NEW env, Realloc(x, bytes, env)
  PROVE  Goes(h, live, m', live')
<1>1. CASE x \in DOMAIN live
  <2> DEFINE r == dlrealloc(h, x, bytes, env)
             g == IF r.mem = 0 THEN live ELSE Owning(Disowning(live, {x}), r.mem, Plain(bytes))
  <2>1. /\ r = dlrealloc(h, x, bytes, env)
        /\ g = IF r.mem = 0 THEN live ELSE Owning(Disowning(live, {x}), r.mem, Plain(bytes))
    OBVIOUS
  <2>2. m' = r.m /\ live' = g
    BY DEF Realloc, Resized
  <2> HIDE DEF r, g
  <2>3. Goes(h, live, r.m, g)
    BY <1>1, <2>1, ReallocGoes
  <2>4. QED
    BY <2>2, <2>3
<1>2. CASE x = 0
  <2> DEFINE r == dlmalloc(h, bytes, env)
             b == Plain(bytes)
  <2>1. r = dlmalloc(h, bytes, env) /\ Mem(h, sz, Owned(live)) /\ b = Block(bytes, 8)
    BY SizesAreNat DEF Holds, Plain
  <2>2. m' = r.m /\ live' = IF r.mem = 0 THEN live ELSE Owning(Disowning(live, {0}), r.mem, b)
    BY <1>2 DEF Realloc, Resized, dlrealloc
  <2> HIDE DEF r, b
  <2>3. live' = Owning(live, r.mem, b)
    BY <2>2, NoneDisowned DEF Owning
  <2>4. Outcome(h, r, bytes, 8, sz, Owned(live))
    BY <2>1, MallocDelivers DEF Outcome
  <2>5. Goes(h, live, r.m, Owning(live, r.mem, b))
    BY <2>1, <2>4, OutcomeGoes
  <2>6. QED
    BY <2>2, <2>3, <2>5
<1>3. QED
  BY <1>1, <1>2

LEMMA ReallocsInPlaceGoes ==
  ASSUME NEW h, h = Called, ~h.enomem, NEW sz, Holds(h, live, sz), NEW x \in DOMAIN live,
         NEW bytes \in Nat, ReallocInPlace(x, bytes)
  PROVE  Goes(h, live, m', live')
<1> DEFINE r == dlrealloc_in_place(h, x, bytes)
           b == Block(bytes, live[x].align)
           g == IF r.mem = 0 THEN live ELSE Owning(Disowning(live, {x}), r.mem, b)
<1>1. /\ r = dlrealloc_in_place(h, x, bytes) /\ b = Block(bytes, live[x].align)
      /\ g = IF r.mem = 0 THEN live ELSE Owning(Disowning(live, {x}), r.mem, b)
  OBVIOUS
<1>2. m' = r.m /\ live' = g
  BY DEF ReallocInPlace, Resized
<1> HIDE DEF r, b, g
<1>3. Goes(h, live, r.m, g)
  BY <1>1, ReallocInPlaceGoes
<1>4. QED
  BY <1>2, <1>3

(* What ensure_initialization comes to, for the parameters. *)
LEMMA InitializedParams ==
  ASSUME NEW h, IsState(h), Params(h), NEW k, k = ensure_initialization(h)
  PROVE  /\ IsState(k) /\ Only(k, h, ParamFields) /\ k.footprint_limit \in Nat
         /\ k.contiguous = h.contiguous /\ k.enomem = h.enomem
         /\ k.granularity \in 0 .. MAX_SIZE_T /\ k.granularity % 8 = 0 /\ k.granularity # 0
<1>1. Ensured(ensure_initialization(h), h)
  BY EnsureInitializes
<1>2. Ensured(k, h)
  BY <1>1
<1>3. Only(k, h, {"granularity", "trim_threshold"}) /\ k.granularity # 0
      /\ k.granularity \in 0 .. MAX_SIZE_T /\ k.granularity % 8 = 0
  BY <1>2 DEF Ensured
<1>4. Only(k, h, ParamFields) /\ IsState(k)
  BY <1>3 DEF Only, ParamFields
<1>5. k.footprint_limit = h.footprint_limit /\ k.contiguous = h.contiguous /\ k.enomem = h.enomem
  BY <1>3 DEF Only, FieldNames
<1>6. k.footprint_limit \in Nat
  BY <1>5 DEF Params
<1>7. QED
  BY <1>3, <1>4, <1>5, <1>6

TrimCheckSet(k, s)     == [k EXCEPT !.trim_check = s]
TrimThresholdSet(k, s) == [k EXCEPT !.trim_threshold = s]
UnitSet(k, s)          == [k EXCEPT !.granularity = s]
LimitSet(k, s)         == [k EXCEPT !.footprint_limit = s]

LEMMA WithTrimCheck ==
  ASSUME NEW k, IsState(k), NEW s
  PROVE  Only(TrimCheckSet(k, s), k, {"trim_check"})
BY DEF TrimCheckSet, Only, IsState, FieldNames

LEMMA WithTrimThreshold ==
  ASSUME NEW k, IsState(k), NEW s
  PROVE  Only(TrimThresholdSet(k, s), k, {"trim_threshold"})
BY DEF TrimThresholdSet, Only, IsState, FieldNames

LEMMA WithUnit ==
  ASSUME NEW k, IsState(k), NEW s
  PROVE  Only(UnitSet(k, s), k, {"granularity"}) /\ UnitSet(k, s).granularity = s
BY DEF UnitSet, Only, IsState, FieldNames

LEMMA WithLimit ==
  ASSUME NEW k, IsState(k), NEW s
  PROVE  Only(LimitSet(k, s), k, {"footprint_limit"}) /\ LimitSet(k, s).footprint_limit = s
BY DEF LimitSet, Only, IsState, FieldNames

(* Any change of a parameter that nothing depends on. *)
LEMMA TrimGoes ==
  ASSUME NEW h, ~h.enomem, NEW f, NEW sz, Holds(h, f, sz), NEW k, k = ensure_initialization(h),
         NEW n, Only(n, k, {"trim_check", "trim_threshold"})
  PROVE  Goes(h, f, n, f)
<1>1. Mem(h, sz, Owned(f))
  BY DEF Holds
<1>2. IsState(h) /\ Params(h)
  BY <1>1, MemIsState
<1>3. /\ IsState(k) /\ Only(k, h, ParamFields) /\ k.footprint_limit \in Nat
      /\ k.contiguous = h.contiguous /\ k.enomem = h.enomem
      /\ k.granularity \in 0 .. MAX_SIZE_T /\ k.granularity % 8 = 0 /\ k.granularity # 0
  BY <1>2, InitializedParams
<1>4. /\ n.footprint_limit = k.footprint_limit /\ n.contiguous = k.contiguous
      /\ n.enomem = k.enomem /\ n.granularity = k.granularity
  BY DEF Only, FieldNames
<1>5. Only(n, h, ParamFields)
  BY <1>3 DEF Only, ParamFields
<1>6. QED
  BY <1>3, <1>4, <1>5, ParamGoes

LEMMA MallocTrimGoes ==
  ASSUME NEW h, h = Called, ~h.enomem, NEW sz, Holds(h, live, sz), NEW pad, MallocTrim(pad)
  PROVE  Goes(h, live, m', live')
<1>1. PICK k : k = ensure_initialization(h)
  OBVIOUS
<1>2. Mem(h, sz, Owned(live))
  BY DEF Holds
<1>3. IsState(h) /\ Params(h)
  BY <1>2, MemIsState
<1>4. IsState(k)
  BY <1>1, <1>3, InitializedParams
<1>5. PICK s : s = MAX_SIZE_T
  OBVIOUS
<1>6. (m' = k \/ m' = TrimCheckSet(k, s)) /\ live' = live
  BY <1>1, <1>5 DEF MallocTrim, TrimCheckSet
<1>7. Only(k, k, {"trim_check", "trim_threshold"})
  BY <1>4 DEF Only
<1>8. Only(TrimCheckSet(k, s), k, {"trim_check"})
  BY <1>4, WithTrimCheck
<1>9. Only(TrimCheckSet(k, s), k, {"trim_check", "trim_threshold"})
  BY <1>8 DEF Only
<1>10. Only(m', k, {"trim_check", "trim_threshold"})
  BY <1>6, <1>7, <1>9
<1>11. Goes(h, live, m', live)
  BY <1>1, <1>10, TrimGoes
<1>12. QED
  BY <1>6, <1>11

LEMMA TrimThresholdGoes ==
  ASSUME NEW h, h = Called, ~h.enomem, NEW sz, Holds(h, live, sz), NEW value,
         MalloptTrimThreshold(value)
  PROVE  Goes(h, live, m', live')
<1>1. PICK k : k = ensure_initialization(h)
  OBVIOUS
<1>2. Mem(h, sz, Owned(live))
  BY DEF Holds
<1>3. IsState(h) /\ Params(h)
  BY <1>2, MemIsState
<1>4. IsState(k)
  BY <1>1, <1>3, InitializedParams
<1>5. m' = TrimThresholdSet(k, value) /\ live' = live
  BY <1>1 DEF MalloptTrimThreshold, TrimThresholdSet
<1>6. Only(TrimThresholdSet(k, value), k, {"trim_threshold"})
  BY <1>4, WithTrimThreshold
<1>7. Only(m', k, {"trim_check", "trim_threshold"})
  BY <1>5, <1>6 DEF Only
<1>8. Goes(h, live, m', live)
  BY <1>1, <1>7, TrimGoes
<1>9. QED
  BY <1>5, <1>8

LEMMA GranularityGoes ==
  ASSUME NEW h, h = Called, ~h.enomem, NEW sz, Holds(h, live, sz), NEW value \in SizeTs,
         MalloptGranularity(value)
  PROVE  Goes(h, live, m', live')
<1>1. PICK k : k = ensure_initialization(h)
  OBVIOUS
<1>2. Mem(h, sz, Owned(live))
  BY DEF Holds
<1>3. IsState(h) /\ Params(h)
  BY <1>2, MemIsState
<1>4. /\ IsState(k) /\ Only(k, h, ParamFields) /\ k.footprint_limit \in Nat
      /\ k.contiguous = h.contiguous /\ k.enomem = h.enomem
  BY <1>1, <1>3, InitializedParams
<1>5. CASE value >= PageSize /\ value \in PowersOfTwo
  <2>1. m' = UnitSet(k, value) /\ live' = live
    BY <1>1, <1>5 DEF MalloptGranularity, UnitSet
  <2>2. Only(UnitSet(k, value), k, {"granularity"}) /\ UnitSet(k, value).granularity = value
    BY <1>4, WithUnit
  <2>3. Only(m', k, {"granularity"}) /\ m'.granularity = value
    BY <2>1, <2>2
  <2>4. /\ m'.footprint_limit = k.footprint_limit /\ m'.contiguous = k.contiguous
        /\ m'.enomem = k.enomem
    BY <2>3 DEF Only, FieldNames
  <2>5. Only(m', h, ParamFields)
    BY <1>4, <2>3 DEF Only, ParamFields
  <2>6. value \in 0 .. MAX_SIZE_T /\ value % 8 = 0 /\ value # 0
    <3>1. PageSize >= 16 /\ PageSize \in Nat
      BY SystemAssumption, MinChunkSize, PowersOfTwoAre
    <3>2. QED
      BY <1>5, <3>1, PowersOfTwoAre, Requests DEF SizeTs, MAX_SIZE_T
  <2>7. Goes(h, live, m', live)
    BY <1>4, <2>3, <2>4, <2>5, <2>6, ParamGoes
  <2>8. QED
    BY <2>1, <2>7
<1>6. CASE ~(value >= PageSize /\ value \in PowersOfTwo)
  <2>1. m' = k /\ live' = live
    BY <1>1, <1>6 DEF MalloptGranularity
  <2>2. Only(k, k, {"trim_check", "trim_threshold"})
    BY <1>4 DEF Only
  <2>3. Goes(h, live, k, live)
    BY <1>1, <2>2, TrimGoes
  <2>4. QED
    BY <2>1, <2>3
<1>7. QED
  BY <1>5, <1>6

LEMMA LimitGoes ==
  ASSUME NEW sz, Holds(m, live, sz), NEW h, h = Called, NEW bytes \in SizeTs,
         SetFootprintLimit(bytes)
  PROVE  Goes(h, live, m', live')
<1>1. /\ Holds(h, live, sz) /\ ~h.enomem /\ IsState(h) /\ Params(h)
      /\ h.granularity = m.granularity
  BY CalledHolds
<1>2. h.granularity \in Nat /\ bytes \in Nat
  BY <1>1, SizesAreNat, Requests DEF Params, MAX_SIZE_T
<1>3. PICK s : s = FootprintLimit(m, bytes)
  OBVIOUS
<1>4. s \in Nat
  <2>1. CASE m.granularity = 0
    BY <1>3, <2>1 DEF FootprintLimit, granularity_align
  <2>2. CASE m.granularity # 0
    <3>1. AlignUp(bytes, m.granularity) \in Nat
      BY <1>1, <1>2, <2>2, AlignUpIsNat
    <3>2. QED
      BY <1>3, <2>2, <3>1 DEF FootprintLimit, granularity_align
  <2>3. QED
    BY <2>1, <2>2
<1>5. m' = LimitSet(h, s) /\ live' = live
  BY <1>3 DEF SetFootprintLimit, LimitSet
<1>6. Only(LimitSet(h, s), h, {"footprint_limit"}) /\ LimitSet(h, s).footprint_limit = s
  BY <1>1, WithLimit
<1>7. Only(m', h, {"footprint_limit"}) /\ m'.footprint_limit = s
  BY <1>5, <1>6
<1>8. /\ m'.granularity = h.granularity /\ m'.contiguous = h.contiguous /\ m'.enomem = h.enomem
  BY <1>7 DEF Only, FieldNames
<1>9. Only(m', h, ParamFields)
  BY <1>7 DEF Only, ParamFields
<1>10. h.granularity \in 0 .. MAX_SIZE_T /\ h.granularity % 8 = 0
  BY <1>1 DEF Params
<1>11. Goes(h, live, m', live)
  BY <1>1, <1>4, <1>7, <1>8, <1>9, <1>10, ParamGoes
<1>12. QED
  BY <1>5, <1>11

-----------------------------------------------------------------------------
(* The invariant.                                                          *)

(* The memory consists of chunks whose heads, feet and bins are right, or  *)
(* there is none yet, and the chunks in use are those of the users'        *)
(* blocks. The sizes of the chunks, sz, are the proof's own: no state      *)
(* variable tells them.                                                    *)
IInv == program \in Programs /\ \E sz : Holds(m, live, sz)

LEMMA ProgramFacts ==
  ASSUME program \in Programs
  PROVE  /\ program.heap_base \in 1 .. HeapEnd /\ program.memory_end \in HeapEnd .. MaxMemory
         /\ program.junk \in BOOLEAN /\ program.max_bulk \in Nat
         /\ program.requests \subseteq Nat /\ program.resizes \subseteq Nat
         /\ program.limits \subseteq SizeTs /\ program.granularities \subseteq SizeTs
         /\ program.products \subseteq Nat \X Nat /\ program.arrays \subseteq Nat \X Nat
         /\ program.alignments \subseteq Nat \X Nat
         /\ \A a \in program.alignments : \E x \in PowersOfTwo : a[1] <= x
         /\ \A bytes \in program.pages : bytes \in Nat /\ bytes + PageSize <= WordSize
         /\ \A a \in program.arrays : SumsUp([i \in 1 .. a[1] |-> a[2]])
         /\ \A g \in program.groups : g \in Seq(Nat) /\ SumsUp(g)
<1>1. SizeTs \subseteq Nat
  BY SizesAreNat
<1>2. /\ program.heap_base \in 1 .. HeapEnd /\ program.memory_end \in HeapEnd .. MaxMemory
      /\ program.junk \in BOOLEAN /\ program.max_bulk \in Nat
      /\ program.requests \cup program.resizes \cup program.limits \subseteq SizeTs
      /\ program.granularities \cup program.thresholds \cup program.pads \subseteq SizeTs
  BY ProgramsAssumption
<1>3. /\ program.products \subseteq SizeTs \X SizeTs
      /\ program.alignments \subseteq SizeTs \X SizeTs
      /\ program.arrays \subseteq SizeTs \X SizeTs
  BY ProgramsAssumption
<1>4. /\ \A a \in program.alignments : \E x \in PowersOfTwo : a[1] <= x
      /\ \A bytes \in program.pages : bytes \in Nat /\ bytes + PageSize <= WordSize
      /\ \A a \in program.arrays : SumsUp([i \in 1 .. a[1] |-> a[2]])
  BY ProgramsAssumption
<1>5. program.groups \subseteq Seq(SizeTs) /\ \A g \in program.groups : SumsUp(g)
  BY ProgramsAssumption
<1>6. SizeTs \X SizeTs \subseteq Nat \X Nat
  BY <1>1
<1>7. ASSUME NEW g \in program.groups
      PROVE  g \in Seq(Nat)
  <2>1. g \in Seq(SizeTs)
    BY <1>5
  <2>2. ASSUME NEW i \in 1 .. Len(g)
        PROVE  g[i] \in Nat
    <3>1. g[i] \in SizeTs
      BY <2>1
    <3>2. QED
      BY <1>1, <3>1
  <2>3. QED
    BY <2>1, <2>2, SequenceOf
<1>8. QED
  BY <1>1, <1>2, <1>3, <1>4, <1>5, <1>6, <1>7

LEMMA InitHolds ==
  ASSUME Init
  PROVE  IInv
<1> DEFINE b == program.heap_base
           e == program.memory_end
           j == program.junk
           sz == <<>>
<1>1. /\ program \in Programs /\ live = <<>>
      /\ m = ZeroState(b, e, j)
  BY DEF Init
<1>2. b \in 1 .. HeapEnd /\ e \in HeapEnd .. MaxMemory /\ j \in BOOLEAN
  BY <1>1, ProgramFacts
<1> HIDE DEF b, e, j, sz
<1>3. Owned(live) = {} /\ IsFunction(live) /\ BlocksIn(live, sz)
  BY <1>1 DEF Owned, IsFunction, BlocksIn
<1>4. IsState(m)
  BY <1>1 DEF IsState, FieldNames, ZeroState
<1>5. /\ m.heap_base = b /\ m.memory_end = e /\ m.junk = j /\ m.brk = HeapEnd
      /\ m.footprint_limit = 0 /\ m.contiguous = TRUE /\ m.enomem = FALSE /\ m.ok = TRUE
      /\ m.granularity = 0
  BY <1>1 DEF ZeroState
<1>6. /\ m.base = 0 /\ m.segsize = 0 /\ m.footprint = 0 /\ m.max_footprint = 0
      /\ m.head = <<>> /\ m.foot = <<>> /\ m.bins = NoBins
      /\ m.top = 0 /\ m.topsize = 0 /\ m.dv = 0 /\ m.dvsize = 0
  BY <1>1 DEF ZeroState
<1>7. Params(m)
  <2>1. m.granularity \in 0 .. MAX_SIZE_T /\ m.granularity % 8 = 0
    <3>1. MAX_SIZE_T \in Nat
      BY Requests DEF MAX_SIZE_T
    <3>2. m.granularity = 0 /\ 0 % 8 = 0
      BY <1>5
    <3>3. QED
      BY <3>1, <3>2
  <2>2. m.footprint_limit \in Nat /\ m.contiguous \in BOOLEAN /\ m.enomem \in BOOLEAN /\ m.ok
    <3>1. m.footprint_limit = 0 /\ m.contiguous = TRUE /\ m.enomem = FALSE
      BY <1>5
    <3>2. m.ok
      BY <1>1 DEF ZeroState
    <3>3. m.footprint_limit \in Nat
      BY <3>1
    <3>4. m.contiguous \in BOOLEAN /\ m.enomem \in BOOLEAN
      BY <3>1
    <3>5. QED
      BY <3>2, <3>3, <3>4
  <2>3. m.heap_base \in 1 .. HeapEnd /\ m.memory_end \in HeapEnd .. MaxMemory
    <3>1. m.heap_base = b /\ m.memory_end = e
      BY <1>5
    <3>2. QED
      BY <1>2, <3>1
  <2>4. QED
    BY <2>1, <2>2, <2>3 DEF Params
<1>12. DOMAIN m.head = {} /\ DOMAIN m.foot = {}
  BY <1>6
<1>8. WellFormed(m)
  BY <1>2, <1>4, <1>5, <1>12 DEF WellFormed
<1>9. NoHeap(m)
  BY <1>5, <1>6, <1>8, <1>12 DEF NoHeap, NothingIn
<1>10. Holds(m, live, sz)
  BY <1>3, <1>7, <1>9 DEF Holds, Mem
<1>11. QED
  BY <1>1, <1>10 DEF IInv

LEMMA AllocationGoes ==
  ASSUME program \in Programs, NEW sz, Holds(m, live, sz), NEW h, h = Called,
         NEW env, Allocation(env)
  PROVE  Goes(h, live, m', live')
<1>1. Holds(h, live, sz) /\ ~h.enomem
  BY CalledHolds
<1> USE <1>1
<1>2. CASE \E bytes \in program.requests : Malloc(bytes, env)
  BY <1>2, MallocGoes, ProgramFacts
<1>3. CASE \E p \in program.products : Calloc(p[1], p[2], env)
  <2>1. PICK p \in program.products : Calloc(p[1], p[2], env)
    BY <1>3
  <2>2. p[1] \in Nat /\ p[2] \in Nat
    BY ProgramFacts
  <2>3. QED
    BY <2>1, <2>2, CallocGoes
<1>4. CASE \E mem \in DOMAIN live \cup {0}, bytes \in program.resizes : Realloc(mem, bytes, env)
  BY <1>4, ReallocsGoes, ProgramFacts
<1>5. CASE \E a \in program.alignments : Memalign(a[1], a[2], env) \/ PosixMemalign(a[1], a[2], env)
  <2>1. PICK a \in program.alignments : Memalign(a[1], a[2], env) \/ PosixMemalign(a[1], a[2], env)
    BY <1>5
  <2>2. a[1] \in Nat /\ a[2] \in Nat /\ \E x \in PowersOfTwo : a[1] <= x
    BY ProgramFacts
  <2>3. QED
    BY <2>1, <2>2, MemalignGoes
<1>6. CASE \E bytes \in program.pages : Valloc(bytes, env) \/ Pvalloc(bytes, env)
  BY <1>6, VallocGoes, ProgramFacts
<1>7. CASE \E a \in program.arrays, own \in BOOLEAN : IndependentCalloc(a[1], a[2], own, env)
  <2>1. PICK a \in program.arrays, own \in BOOLEAN : IndependentCalloc(a[1], a[2], own, env)
    BY <1>7
  <2>2. a[1] \in Nat /\ a[2] \in Nat /\ SumsUp([i \in 1 .. a[1] |-> a[2]])
    BY ProgramFacts
  <2>3. QED
    BY <2>1, <2>2, IndependentCallocGoes
<1>8. CASE \E g \in program.groups, own \in BOOLEAN : IndependentComalloc(g, own, env)
  BY <1>8, IndependentComallocGoes, ProgramFacts
<1>9. QED
  BY <1>2, <1>3, <1>4, <1>5, <1>6, <1>7, <1>8 DEF Allocation

LEMMA ReleaseGoes ==
  ASSUME program \in Programs, NEW sz, Holds(m, live, sz), NEW h, h = Called, Release
  PROVE  Goes(h, live, m', live')
<1>1. Holds(h, live, sz) /\ ~h.enomem
  BY CalledHolds
<1>2. CASE \E mem \in DOMAIN live : Free(mem)
  BY <1>1, <1>2, FreesGoes
<1>3. CASE \E S \in SUBSET DOMAIN live :
             /\ Cardinality(S) \in 1 .. program.max_bulk
             /\ \E array \in SetToSeqs(S) : BulkFree(array)
  <2>1. PICK S \in SUBSET DOMAIN live :
               /\ Cardinality(S) \in 1 .. program.max_bulk
               /\ \E array \in SetToSeqs(S) : BulkFree(array)
    BY <1>3
  <2>2. PICK array \in SetToSeqs(S) : BulkFree(array)
    BY <2>1
  <2>3. PICK k : k = program.max_bulk
    OBVIOUS
  <2>4. k \in Nat /\ Cardinality(S) \in 1 .. k /\ S \subseteq DOMAIN live
    BY <2>1, <2>3, ProgramFacts
  <2>5. QED
    BY <1>1, <2>2, <2>4, BulkFreesGoes
<1>4. QED
  BY <1>2, <1>3 DEF Release

LEMMA ParametersGo ==
  ASSUME program \in Programs, NEW sz, Holds(m, live, sz), NEW h, h = Called, Parameters
  PROVE  Goes(h, live, m', live')
<1>1. Holds(h, live, sz) /\ ~h.enomem
  BY CalledHolds
<1>2. CASE \E bytes \in program.limits : SetFootprintLimit(bytes)
  BY <1>2, LimitGoes, ProgramFacts
<1>3. CASE \E value \in program.granularities : MalloptGranularity(value)
  BY <1>1, <1>3, GranularityGoes, ProgramFacts
<1>4. CASE \E value \in program.thresholds : MalloptTrimThreshold(value)
  BY <1>1, <1>4, TrimThresholdGoes
<1>5. CASE \E pad \in program.pads : MallocTrim(pad)
  BY <1>1, <1>5, MallocTrimGoes
<1>6. QED
  BY <1>2, <1>3, <1>4, <1>5 DEF Parameters

LEMMA NextGoes ==
  ASSUME IInv, Next
  PROVE  Goes(Called, live, m', live') /\ program' = program
<1>1. PICK sz : Holds(m, live, sz)
  BY DEF IInv
<1>2. PICK h : h = Called
  OBVIOUS
<1>3. program \in Programs /\ program' = program
  BY DEF IInv, Next
<1>4. Holds(h, live, sz) /\ ~h.enomem
  BY <1>1, <1>2, CalledHolds
<1>5. CASE \E env \in Answers : Allocation(env)
  BY <1>1, <1>2, <1>3, <1>5, AllocationGoes
<1>6. CASE \E mem \in DOMAIN live, bytes \in program.resizes : ReallocInPlace(mem, bytes)
  BY <1>2, <1>3, <1>4, <1>6, ReallocsInPlaceGoes, ProgramFacts
<1>7. CASE Release
  BY <1>1, <1>2, <1>3, <1>7, ReleaseGoes
<1>8. CASE Parameters
  BY <1>1, <1>2, <1>3, <1>8, ParametersGo
<1>9. QED
  BY <1>2, <1>3, <1>5, <1>6, <1>7, <1>8 DEF Next

LEMMA StepHolds ==
  ASSUME IInv, [Next]_vars
  PROVE  IInv'
<1>1. CASE Next
  <2>1. Goes(Called, live, m', live') /\ program' = program
    BY <1>1, NextGoes
  <2>2. \E t : Holds(m', live', t)
    BY <2>1 DEF Goes
  <2>3. QED
    BY <2>1, <2>2 DEF IInv
<1>2. CASE UNCHANGED vars
  BY <1>2 DEF IInv, vars
<1>3. QED
  BY <1>1, <1>2

(* The heap is sound after any calls by any program: its memory is a       *)
(* sequence of chunks without gap or overlap, every head, foot and bin is  *)
(* right, and the chunks in use are exactly those of the blocks the users  *)
(* have, each as large as was asked for and aligned as was asked for.      *)
THEOREM HeapIsSound == Spec => []IInv
<1>1. Init => IInv
  BY InitHolds
<1>2. IInv /\ [Next]_vars => IInv'
  BY StepHolds
<1>3. QED
  BY <1>1, <1>2, PTL DEF Spec

-----------------------------------------------------------------------------
(* What a step may never do.                                               *)

LEMMA CalledIs ==
  ASSUME IInv
  PROVE  /\ Called.footprint = m.footprint /\ Called.footprint_limit = m.footprint_limit
         /\ Called.brk = m.brk /\ Called.top = m.top /\ (is_initialized(Called) <=> is_initialized(m))
         /\ Called.head = m.head /\ Called.foot = m.foot /\ Called.bins = m.bins /\ Called.dv = m.dv
<1>1. PICK sz : Holds(m, live, sz)
  BY DEF IInv
<1>2. PICK h : h = Called
  OBVIOUS
<1>3. /\ h.footprint = m.footprint /\ h.footprint_limit = m.footprint_limit
      /\ h.brk = m.brk /\ h.top = m.top /\ Only(h, m, ParamFields)
  BY <1>1, <1>2, CalledHolds
<1>4. h.head = m.head /\ h.foot = m.foot /\ h.bins = m.bins /\ h.dv = m.dv
  BY <1>3 DEF Only, FieldNames, ParamFields
<1>5. is_initialized(h) <=> is_initialized(m)
  BY <1>3 DEF is_initialized
<1>6. QED
  BY <1>2, <1>3, <1>4, <1>5

(* A call that fails for lack of memory has changed nothing a later call   *)
(* depends on but the way MORECORE is called, whatever the heap looks like *)
(* and wherever in the call the memory ran out.                            *)
THEOREM FailureIsHarmless == Spec => FailureChangesNothing
<1>1. ASSUME IInv, [Next]_vars
      PROVE  [m'.enomem => /\ live' = live
                           /\ m'.brk = m.brk
                           /\ is_initialized(m) =>
                                /\ m'.footprint = m.footprint
                                /\ m'.head = m.head /\ m'.foot = m.foot /\ m'.bins = m.bins
                                /\ m'.top = m.top /\ m'.dv = m.dv]_vars
  <2>1. SUFFICES ASSUME Next, m'.enomem
                 PROVE  /\ live' = live
                        /\ m'.brk = m.brk
                        /\ is_initialized(m) =>
                             /\ m'.footprint = m.footprint
                             /\ m'.head = m.head /\ m'.foot = m.foot /\ m'.bins = m.bins
                             /\ m'.top = m.top /\ m'.dv = m.dv
    BY <1>1
  <2>2. PICK h : h = Called
    OBVIOUS
  <2>3. Goes(h, live, m', live')
    BY <1>1, <2>1, <2>2, NextGoes
  <2>4. live' = live /\ Unchanged(h, m')
    BY <2>1, <2>3 DEF Goes
  <2>5. m'.brk = h.brk /\ (is_initialized(h) => Only(m', h, {"contiguous", "enomem"}))
    BY <2>4 DEF Unchanged
  <2>6. is_initialized(h) => /\ m'.footprint = h.footprint /\ m'.head = h.head
                             /\ m'.foot = h.foot /\ m'.bins = h.bins
                             /\ m'.top = h.top /\ m'.dv = h.dv
    BY <2>5 DEF Only, FieldNames
  <2>7. /\ h.footprint = m.footprint /\ h.brk = m.brk /\ h.top = m.top
        /\ (is_initialized(h) <=> is_initialized(m))
        /\ h.head = m.head /\ h.foot = m.foot /\ h.bins = m.bins /\ h.dv = m.dv
    BY <1>1, <2>2, CalledIs
  <2>8. QED
    BY <2>4, <2>5, <2>6, <2>7
<1>2. QED
  BY <1>1, HeapIsSound, PTL DEF Spec, FailureChangesNothing

(* Memory from the system stays within a limit that was set, for every way *)
(* in which a call may come to ask for it.                                 *)
THEOREM LimitsAreKept == Spec => LimitIsKept
<1>1. ASSUME IInv, [Next]_vars
      PROVE  [m'.footprint > m.footprint /\ is_initialized(m) /\ m.footprint_limit # 0
                => m'.footprint <= m.footprint_limit]_vars
  <2>1. SUFFICES ASSUME Next
                 PROVE  m'.footprint > m.footprint /\ is_initialized(m) /\ m.footprint_limit # 0
                          => m'.footprint <= m.footprint_limit
    BY <1>1
  <2>2. PICK h : h = Called
    OBVIOUS
  <2>3. Goes(h, live, m', live')
    BY <1>1, <2>1, <2>2, NextGoes
  <2>4. Growth(h, m')
    BY <2>3 DEF Goes
  <2>5. /\ h.footprint = m.footprint /\ h.footprint_limit = m.footprint_limit
        /\ (is_initialized(h) <=> is_initialized(m))
    BY <1>1, <2>2, CalledIs
  <2>6. QED
    BY <2>4, <2>5 DEF Growth
<1>2. QED
  BY <1>1, HeapIsSound, PTL DEF Spec, LimitIsKept

-----------------------------------------------------------------------------
(* Refinement.                                                             *)

Bytes(f) == [x \in DOMAIN f |-> f[x].bytes]

(* Where blocks are. *)
BlocksApart(f) ==
  /\ \A x \in DOMAIN f : /\ x \in 0 .. MaxMemory /\ x % 8 = 0
                         /\ f[x].bytes \in Nat /\ x + f[x].bytes <= MaxMemory
  /\ \A x \in DOMAIN f, y \in DOMAIN f :
       x # y => x + f[x].bytes <= y - 4 \/ y + f[y].bytes <= x - 4

LEMMA HeldApart ==
  ASSUME NEW n, NEW f, NEW sz, Holds(n, f, sz)
  PROVE  BlocksApart(f)
<1>1. ASSUME NEW x \in DOMAIN f, NEW c, c = mem2chunk(x)
      PROVE  /\ x \in Nat /\ c \in Nat /\ x = c + 8 /\ c % 8 = 0 /\ c \in DOMAIN sz
             /\ sz[c] \in Nat /\ f[x].bytes \in Nat /\ sz[c] >= f[x].bytes + 4
             /\ c + sz[c] + 40 <= MaxMemory /\ MaxMemory \in Nat
             /\ \A d \in DOMAIN sz : d \in Nat /\ sz[d] \in Nat /\ (c < d => c + sz[c] <= d)
                                     /\ (d < c => d + sz[d] <= c)
  <2>1. /\ x \in Nat /\ c \in Nat /\ c \in Owned(f) /\ x = chunk2mem(c)
        /\ Params(n) /\ Heap(n, sz, Owned(f))
    BY <1>1, BlockPlace
  <2>2. /\ End(n) \in Nat /\ End(n) + 40 = n.brk /\ n.brk \in Nat /\ Owned(f) \subseteq DOMAIN sz
        /\ \A d \in DOMAIN sz : d \in Nat /\ d + sz[d] <= End(n) /\ sz[d] \in Nat
    BY <2>1, HeapFacts
  <2>3. Tiling(Lo(n), End(n), sz)
    BY <2>1 DEF Heap, HeapOf, Layout
  <2>4. \A d \in DOMAIN sz : d % 8 = 0
    BY <2>3 DEF Tiling
  <2>5. \A d \in DOMAIN sz : (c < d => c + sz[c] <= d) /\ (d < c => d + sz[d] <= c)
    BY <2>1, <2>2, <2>3 DEF Tiling
  <2>6. n.brk <= n.memory_end /\ n.memory_end \in HeapEnd .. MaxMemory
    BY <2>1 DEF Heap, Segment, Params
  <2>7. HeapEnd \in Nat /\ MaxMemory \in Nat
    BY SystemAssumption
  <2>8. x = c + 8
    BY <2>1 DEF chunk2mem, TWO_SIZE_T_SIZES, SIZE_T_SIZE
  <2>9. f[x].bytes \in Nat /\ sz[c] >= f[x].bytes + 4
    BY <1>1 DEF Holds, BlocksIn
  <2>10. c + sz[c] + 40 <= MaxMemory
    <3>1. c + sz[c] <= End(n) /\ sz[c] \in Nat
      BY <2>1, <2>2
    <3>2. End(n) + 40 <= MaxMemory
      BY <2>2, <2>6, <2>7
    <3>3. QED
      BY <2>1, <2>2, <2>7, <3>1, <3>2
  <2>11. QED
    BY <2>1, <2>2, <2>4, <2>5, <2>7, <2>8, <2>9, <2>10
<1>2. ASSUME NEW x \in DOMAIN f
      PROVE  /\ x \in 0 .. MaxMemory /\ x % 8 = 0
             /\ f[x].bytes \in Nat /\ x + f[x].bytes <= MaxMemory
  <2>1. PICK c : c = mem2chunk(x)
    OBVIOUS
  <2>2. PICK s : s = sz[c]
    OBVIOUS
  <2>3. PICK b : b = f[x].bytes
    OBVIOUS
  <2>4. /\ x \in Nat /\ c \in Nat /\ x = c + 8 /\ c % 8 = 0
        /\ s \in Nat /\ b \in Nat /\ s >= b + 4
        /\ c + s + 40 <= MaxMemory /\ MaxMemory \in Nat
    BY <1>1, <2>1, <2>2, <2>3
  <2>5. x \in 0 .. MaxMemory /\ x + b <= MaxMemory
    BY <2>4
  <2>6. x % 8 = 0
    BY <2>4
  <2>7. QED
    BY <2>3, <2>4, <2>5, <2>6
<1>3. ASSUME NEW x \in DOMAIN f, NEW y \in DOMAIN f, x # y
      PROVE  x + f[x].bytes <= y - 4 \/ y + f[y].bytes <= x - 4
  <2>1. PICK c : c = mem2chunk(x)
    OBVIOUS
  <2>2. PICK d : d = mem2chunk(y)
    OBVIOUS
  <2>3. PICK s : s = sz[c]
    OBVIOUS
  <2>4. PICK r : r = sz[d]
    OBVIOUS
  <2>5. PICK a : a = f[x].bytes
    OBVIOUS
  <2>6. PICK b : b = f[y].bytes
    OBVIOUS
  <2>7. c \in Nat /\ x = c + 8 /\ s \in Nat /\ a \in Nat /\ s >= a + 4
    BY <1>1, <2>1, <2>3, <2>5
  <2>8. d \in Nat /\ y = d + 8 /\ r \in Nat /\ b \in Nat /\ r >= b + 4 /\ d \in DOMAIN sz
    BY <1>1, <2>2, <2>4, <2>6
  <2>9. (c < d => c + s <= d) /\ (d < c => d + r <= c)
    BY <1>1, <2>1, <2>3, <2>4, <2>8
  <2>10. x + a <= y - 4 \/ y + b <= x - 4
    BY <1>3, <2>7, <2>8, <2>9
  <2>11. QED
    BY <2>5, <2>6, <2>10
<1>4. QED
  BY <1>2, <1>3 DEF BlocksApart

LEMMA BytesAre ==
  ASSUME NEW f
  PROVE  DOMAIN Bytes(f) = DOMAIN f /\ \A x \in DOMAIN f : Bytes(f)[x] = f[x].bytes
BY DEF Bytes

LEMMA FitsIs ==
  ASSUME NEW f, BlocksApart(f), NEW G, G = Bytes(f), NEW y \in DOMAIN f, NEW F,
         y \notin DOMAIN F, \A x \in DOMAIN F : x \in DOMAIN f /\ F[x] = f[x].bytes
  PROVE  Users!Fits(y, G[y], F)
<1>1. G[y] = f[y].bytes
  BY BytesAre
<1>2. /\ y \in 0 .. MaxMemory /\ y % 8 = 0
      /\ f[y].bytes \in Nat /\ y + f[y].bytes <= MaxMemory
  BY DEF BlocksApart
<1>3. ASSUME NEW x \in DOMAIN F
      PROVE  y + f[y].bytes <= x - 4 \/ x + F[x] <= y - 4
  <2>1. x \in DOMAIN f /\ F[x] = f[x].bytes /\ x # y
    OBVIOUS
  <2>2. y + f[y].bytes <= x - 4 \/ x + f[x].bytes <= y - 4
    BY <2>1 DEF BlocksApart
  <2>3. QED
    BY <2>1, <2>2
<1>4. CHUNK_OVERHEAD = 4 /\ MALLOC_ALIGNMENT = 8
  BY DEF CHUNK_OVERHEAD, SIZE_T_SIZE, MALLOC_ALIGNMENT
<1>5. QED
  BY <1>1, <1>2, <1>3, <1>4 DEF Users!Fits, Users!Apart, Users!Mems

LEMMA DropsRelease ==
  ASSUME NEW f, NEW g, Drops(f, g), NEW F, F = Bytes(f), NEW G, G = Bytes(g)
  PROVE  \E S \in SUBSET DOMAIN F : G = Users!Without(F, S)
<1> DEFINE S == DOMAIN f \ DOMAIN g
<1>1. DOMAIN F = DOMAIN f /\ DOMAIN f \ S = DOMAIN g
  BY BytesAre DEF Drops
<1>2. \A x \in DOMAIN g : F[x] = g[x].bytes
  BY BytesAre DEF Drops
<1>3. S \in SUBSET DOMAIN F
  BY <1>1
<1> HIDE DEF S
<1>4. Users!Without(F, S) = [x \in DOMAIN g |-> F[x]]
  BY <1>1 DEF Users!Without
<1>5. G = [x \in DOMAIN g |-> F[x]]
  BY <1>2 DEF Bytes
<1>6. QED
  BY <1>3, <1>4, <1>5

LEMMA SwapsResize ==
  ASSUME NEW f, NEW g, Swaps(f, g), BlocksApart(g), NEW F, F = Bytes(f), NEW G, G = Bytes(g)
  PROVE  \E x \in DOMAIN F, y \in DOMAIN G :
           /\ Users!Fits(y, G[y], Users!Without(F, {x}))
           /\ G = Users!With(Users!Without(F, {x}), y, G[y])
<1>1. DOMAIN F = DOMAIN f /\ DOMAIN G = DOMAIN g
  BY BytesAre
<1>2. PICK x \in DOMAIN f, y \in DOMAIN g :
        /\ y \notin DOMAIN f \ {x} /\ DOMAIN g = (DOMAIN f \ {x}) \cup {y}
        /\ \A z \in DOMAIN f \ {x} : g[z] = f[z]
  BY DEF Swaps
<1>3. PICK w : w = Users!Without(F, {x})
  OBVIOUS
<1>4. DOMAIN w = DOMAIN f \ {x} /\ \A z \in DOMAIN w : w[z] = F[z]
  BY <1>1, <1>3 DEF Users!Without
<1>5. \A z \in DOMAIN w : z \in DOMAIN g /\ w[z] = g[z].bytes
  BY <1>2, <1>4, BytesAre
<1>6. y \notin DOMAIN w
  BY <1>2, <1>4
<1>7. Users!Fits(y, G[y], w)
  BY <1>5, <1>6, FitsIs
<1>8. DOMAIN w \cup {y} = DOMAIN g
  BY <1>2, <1>4
<1>9. \A z \in DOMAIN g : g[z].bytes = IF z = y THEN G[y] ELSE w[z]
  BY <1>5, <1>8, BytesAre
<1>10. G = Users!With(w, y, G[y])
  BY <1>8, <1>9 DEF Users!With, Bytes
<1>11. QED
  BY <1>1, <1>2, <1>3, <1>7, <1>10

LEMMA AddsAllocate ==
  ASSUME NEW f, NEW g, Adds(f, g), BlocksApart(g), NEW F, F = Bytes(f), NEW G, G = Bytes(g),
         NEW new, new = Users!Without(G, DOMAIN F), DOMAIN new # {}
  PROVE  /\ DOMAIN new \cap DOMAIN F = {}
         /\ \A x \in DOMAIN new : /\ Users!Fits(x, new[x], F)
                                  /\ Users!Fits(x, new[x], Users!Without(new, {x}))
         /\ G = [x \in DOMAIN F \cup DOMAIN new |-> IF x \in DOMAIN new THEN new[x] ELSE F[x]]
<1>1. DOMAIN F = DOMAIN f /\ DOMAIN G = DOMAIN g
  BY BytesAre
<1>2. DOMAIN new = DOMAIN g \ DOMAIN f /\ \A x \in DOMAIN new : new[x] = G[x]
  BY <1>1 DEF Users!Without
<1>3. ASSUME NEW x \in DOMAIN new
      PROVE  Users!Fits(x, new[x], F)
  <2>1. x \in DOMAIN g /\ x \notin DOMAIN F /\ new[x] = G[x]
    BY <1>1, <1>2
  <2>2. \A z \in DOMAIN F : z \in DOMAIN g /\ F[z] = g[z].bytes
    BY <1>1, BytesAre DEF Adds
  <2>3. Users!Fits(x, G[x], F)
    BY <2>1, <2>2, FitsIs
  <2>4. QED
    BY <2>1, <2>3
<1>4. ASSUME NEW x \in DOMAIN new
      PROVE  Users!Fits(x, new[x], Users!Without(new, {x}))
  <2>1. PICK w : w = Users!Without(new, {x})
    OBVIOUS
  <2>2. x \in DOMAIN g /\ new[x] = G[x]
    BY <1>2
  <2>3. x \notin DOMAIN w /\ \A z \in DOMAIN w : z \in DOMAIN new /\ w[z] = new[z]
    BY <2>1 DEF Users!Without
  <2>4. \A z \in DOMAIN w : z \in DOMAIN g /\ w[z] = g[z].bytes
    BY <1>2, <2>3, BytesAre
  <2>5. Users!Fits(x, G[x], w)
    BY <2>2, <2>3, <2>4, FitsIs
  <2>6. QED
    BY <2>1, <2>2, <2>5
<1>5. G = [x \in DOMAIN F \cup DOMAIN new |-> IF x \in DOMAIN new THEN new[x] ELSE F[x]]
  <2>1. DOMAIN F \cup DOMAIN new = DOMAIN g
    BY <1>1, <1>2 DEF Adds
  <2>2. \A x \in DOMAIN g : g[x].bytes = IF x \in DOMAIN new THEN new[x] ELSE F[x]
    BY <1>1, <1>2, BytesAre DEF Adds
  <2>3. QED
    BY <2>1, <2>2 DEF Bytes
<1>6. DOMAIN new \cap DOMAIN F = {}
  BY <1>1, <1>2
<1>7. QED
  BY <1>3, <1>4, <1>5, <1>6

(* All that is there is what was there. *)
LEMMA NothingAdded ==
  ASSUME NEW f, NEW g, Adds(f, g), NEW F, F = Bytes(f), NEW G, G = Bytes(g),
         DOMAIN Users!Without(G, DOMAIN F) = {}
  PROVE  G = F
<1>1. DOMAIN F = DOMAIN f /\ DOMAIN G = DOMAIN g
  BY BytesAre
<1>2. DOMAIN g \ DOMAIN f = {}
  BY <1>1 DEF Users!Without
<1>3. DOMAIN f = DOMAIN g
  BY <1>2 DEF Adds
<1>4. \A x \in DOMAIN f : g[x].bytes = f[x].bytes
  BY DEF Adds
<1>5. QED
  BY <1>3, <1>4 DEF Bytes

(* The blocks of malloc's users are those of the abstract allocator: they  *)
(* do not overlap, lie in the memory of the program, are aligned, and stay *)
(* as they are until their owner asks for a change, in every call with any *)
(* arguments and whatever the system answers.                              *)
THEOREM MallocImplementsAllocator == Spec => ImplementsAllocator
<1> USE DEF Users!vars
<1>1. Init => Users!Init
  <2>1. SUFFICES ASSUME Init
                 PROVE  [mem \in DOMAIN live |-> live[mem].bytes] = [x \in {} |-> 0]
    BY DEF Users!Init
  <2>2. DOMAIN live = {}
    BY <2>1 DEF Init
  <2>3. QED
    BY <2>2
<1>2. ASSUME IInv, [Next]_vars
      PROVE  [Users!Next]_(Users!vars)
  <2>1. CASE Next
    <3>1. PICK h : h = Called
      OBVIOUS
    <3>2. Goes(h, live, m', live')
      BY <1>2, <2>1, <3>1, NextGoes
    <3>3. PICK t : Holds(m', live', t)
      BY <3>2 DEF Goes
    <3>4. BlocksApart(live')
      BY <3>3, HeldApart
    <3>5. PICK F : F = Bytes(live)
      OBVIOUS
    <3>6. PICK G : G = Bytes(live')
      OBVIOUS
    <3>7. CASE Drops(live, live')
      <4>1. \E S \in SUBSET DOMAIN F : G = Users!Without(F, S)
        BY <3>5, <3>6, <3>7, DropsRelease
      <4>2. QED
        BY <3>5, <3>6, <4>1 DEF Users!Next, Users!Release, Bytes
    <3>8. CASE Swaps(live, live')
      <4>1. \E x \in DOMAIN F, y \in DOMAIN G :
               /\ Users!Fits(y, G[y], Users!Without(F, {x}))
               /\ G = Users!With(Users!Without(F, {x}), y, G[y])
        BY <3>4, <3>5, <3>6, <3>8, SwapsResize
      <4>2. QED
        BY <3>5, <3>6, <4>1 DEF Users!Next, Users!Resize, Bytes
    <3>9. CASE Adds(live, live')
      <4>1. PICK new : new = Users!Without(G, DOMAIN F)
        OBVIOUS
      <4>2. CASE DOMAIN new = {}
        <5>1. G = F
          BY <3>5, <3>6, <3>9, <4>1, <4>2, NothingAdded
        <5>2. QED
          BY <3>5, <3>6, <5>1 DEF Bytes
      <4>3. CASE DOMAIN new # {}
        <5>1. /\ DOMAIN new \cap DOMAIN F = {}
              /\ \A x \in DOMAIN new : /\ Users!Fits(x, new[x], F)
                                       /\ Users!Fits(x, new[x], Users!Without(new, {x}))
              /\ G = [x \in DOMAIN F \cup DOMAIN new |-> IF x \in DOMAIN new THEN new[x] ELSE F[x]]
          BY <3>4, <3>5, <3>6, <3>9, <4>1, <4>3, AddsAllocate
        <5>2. QED
          BY <3>5, <3>6, <4>1, <4>3, <5>1 DEF Users!Next, Users!AllocateAll, Users!NewBlocks, Bytes
      <4>4. QED
        BY <4>2, <4>3
    <3>10. QED
      BY <3>2, <3>7, <3>8, <3>9 DEF Goes, Moves
  <2>2. CASE UNCHANGED vars
    BY <2>2 DEF vars
  <2>3. QED
    BY <1>2, <2>1, <2>2
<1>3. QED
  BY <1>1, <1>2, HeapIsSound, PTL DEF Spec, Users!Spec, ImplementsAllocator

-----------------------------------------------------------------------------
(* The chunks that do_check_malloc_state meets on its way to top are all.  *)

StepFrom(h, x) == IF x >= h.top THEN x ELSE next_chunk(h, x)
WalksBy(q, h, z, n) == q = [i \in 0 .. n |-> IF i = 0 THEN z ELSE StepFrom(h, q[i - 1])]

Visited(q, n) == {q[i] : i \in 0 .. n}

LEMMA WalkExists ==
  ASSUME NEW h, NEW z, NEW n \in Nat
  PROVE  \E q : WalksBy(q, h, z, n)
<1> DEFINE P(c) == \E f : WalksBy(f, h, z, c)
           T == {c \in Nat : P(c)}
<1>1. P(0)
  <2> DEFINE f == [i \in 0 .. 0 |-> z]
  <2>1. f = [i \in 0 .. 0 |-> IF i = 0 THEN z ELSE StepFrom(h, f[i - 1])]
    <3>1. \A i \in 0 .. 0 : i = 0
      OBVIOUS
    <3>2. QED
      BY <3>1
  <2>2. WalksBy(f, h, z, 0)
    BY <2>1 DEF WalksBy
  <2>3. QED
    BY <2>2
<1>2. ASSUME NEW c \in Nat, P(c)
      PROVE  P(c + 1)
  <2>1. PICK f : f = [i \in 0 .. c |-> IF i = 0 THEN z ELSE StepFrom(h, f[i - 1])]
    BY <1>2 DEF WalksBy
  <2> DEFINE g == [i \in 0 .. c + 1 |-> IF i = 0 THEN z ELSE StepFrom(h, f[i - 1])]
  <2>2. \A i \in 0 .. c : g[i] = f[i]
    <3>1. \A i \in 0 .. c : i \in 0 .. c + 1
      OBVIOUS
    <3>2. QED
      BY <2>1, <3>1
  <2>3. g = [i \in 0 .. c + 1 |-> IF i = 0 THEN z ELSE StepFrom(h, g[i - 1])]
    <3>1. \A i \in 0 .. c + 1 : i # 0 => i - 1 \in 0 .. c
      OBVIOUS
    <3>2. \A i \in 0 .. c + 1 : (IF i = 0 THEN z ELSE StepFrom(h, f[i - 1]))
                                = (IF i = 0 THEN z ELSE StepFrom(h, g[i - 1]))
      <4> HIDE DEF g
      <4>1. QED
        BY <2>2, <3>1
    <3>3. QED
      BY <3>2
  <2>4. WalksBy(g, h, z, c + 1)
    BY <2>3 DEF WalksBy
  <2>5. QED
    BY <2>4
<1>3. 0 \in T /\ \A c \in Nat : c \in T => c + 1 \in T
  <2> HIDE DEF P
  <2>1. QED
    BY <1>1, <1>2
<1>4. Nat \subseteq T
  <2> HIDE DEF T
  <2>1. QED
    BY <1>3, Induction
<1>5. QED
  BY <1>4

LEMMA ChunksAre ==
  ASSUME NEW n \in Nat, n = Cardinality(DOMAIN m.head)
  PROVE  \E q : WalksBy(q, m, First, n) /\ Chunks = Visited(q, n)
<1> DEFINE k == Cardinality(DOMAIN m.head)
           Walk(q) == q = [i \in 0 .. k |->
                             IF i = 0 THEN First
                             ELSE IF q[i - 1] >= m.top THEN q[i - 1] ELSE next_chunk(m, q[i - 1])]
           f == CHOOSE q : Walk(q)
<1>1. \E q : Walk(q)
  <2>1. PICK q : WalksBy(q, m, First, n)
    BY WalkExists
  <2>2. Walk(q)
    BY <2>1 DEF WalksBy, StepFrom
  <2>3. QED
    BY <2>2
<1>2. Walk(f)
  <2> HIDE DEF Walk
  <2>1. QED
    BY <1>1
<1>3. Chunks = Visited(f, n)
  BY DEF Chunks, Visited
<1>4. WalksBy(f, m, First, n)
  <2> HIDE DEF f
  <2>1. QED
    BY <1>2 DEF WalksBy, StepFrom
<1>5. QED
  BY <1>3, <1>4

(* The heads of a heap: one for each chunk, and one behind them all.       *)
LEMMA HeapHeads ==
  ASSUME NEW h, NEW sz, NEW U, Params(h), Heap(h, sz, U), NEW e, e = End(h)
  PROVE  /\ DOMAIN h.head = DOMAIN sz \cup {e} /\ e \notin DOMAIN sz
         /\ \A c \in DOMAIN sz : /\ HeadAt(h, c) = h.head[c] /\ HeadAt(h, c) \in HeadRecords
                                 /\ chunksize(h, c) = sz[c] /\ next_chunk(h, c) = c + sz[c]
                                 /\ (cinuse(h, c) <=> c \in U)
                                 /\ c # h.top => (pinuse(h, c + sz[c]) <=> c \in U)
         /\ h.top \notin U /\ h.top + sz[h.top] = e
<1>1. /\ Tiling(Lo(h), e, sz) /\ Heads(h.head, h.foot, Lo(h), e, h.top, sz, U, e)
  BY DEF Heap, HeapOf, Layout
<1>2. e \notin DOMAIN sz /\ e \in Nat
  BY <1>1, TilingArith
<1>3. DOMAIN h.head = DOMAIN sz \cup {e}
  BY <1>1, <1>2 DEF Heads
<1>4. \A c \in DOMAIN sz : /\ c \in DOMAIN h.head /\ h.head[c] \in HeadRecords
                           /\ h.head[c].size = sz[c] /\ (h.head[c].cinuse <=> c \in U)
  BY <1>1, <1>2 DEF Heads
<1>5. h.top \notin U /\ h.top + sz[h.top] = e
  BY <1>1, TilingArith DEF Heads
<1>6. ASSUME NEW c \in DOMAIN sz, c # h.top
      PROVE  pinuse(h, c + sz[c]) <=> c \in U
  <2>1. c + sz[c] \in DOMAIN sz /\ c + sz[c] # e
    BY <1>1, <1>2, <1>6, TilingArith DEF Heads
  <2>2. h.head[c + sz[c]].pinuse <=> c \in U
    BY <1>1, <1>2, <1>6, <2>1 DEF Heads
  <2>3. QED
    BY <1>4, <2>1, <2>2 DEF pinuse, HeadAt
<1>7. QED
  BY <1>2, <1>3, <1>4, <1>5, <1>6 DEF chunksize, next_chunk, cinuse, HeadAt

(* The order of chunks. *)
LEMMA ChunkOrder ==
  ASSUME NEW h, NEW sz, NEW U, Params(h), Heap(h, sz, U), NEW c \in DOMAIN sz
  PROVE  /\ c \in Nat /\ sz[c] \in Nat /\ sz[c] > 0 /\ h.top \in Nat /\ c <= h.top
         /\ Lo(h) <= c /\ Lo(h) \in DOMAIN sz
         /\ c # h.top => c + sz[c] \in DOMAIN sz
         /\ \A d \in DOMAIN sz : d < c + sz[c] => d <= c
<1>1. /\ Tiling(Lo(h), End(h), sz)
      /\ Heads(h.head, h.foot, Lo(h), End(h), h.top, sz, U, End(h))
  BY DEF Heap, HeapOf, Layout
<1>2. h.top \in DOMAIN sz /\ h.top + sz[h.top] = End(h)
  BY <1>1 DEF Heads
<1>3. /\ Lo(h) \in DOMAIN sz
      /\ \A d \in DOMAIN sz : /\ d \in Nat /\ sz[d] \in Nat /\ sz[d] > 0
                              /\ Lo(h) <= d /\ d < End(h) /\ d + sz[d] <= End(h)
                              /\ d + sz[d] \in DOMAIN sz \/ d + sz[d] = End(h)
      /\ \A d \in DOMAIN sz, x \in DOMAIN sz : /\ d < x => d + sz[d] <= x
                                               /\ d + sz[d] = x + sz[x] => d = x
  BY <1>1, TilingArith
<1>4. c <= h.top
  <2>1. h.top < c => h.top + sz[h.top] <= c
    BY <1>2, <1>3
  <2>2. c \in Nat /\ c < End(h) /\ h.top \in Nat
    BY <1>2, <1>3
  <2>3. ~(h.top < c)
    <3>1. SUFFICES ASSUME h.top < c
                   PROVE  FALSE
      OBVIOUS
    <3>2. End(h) <= c /\ End(h) \in Nat
      BY <1>1, <1>2, <2>1, <3>1, TilingArith
    <3>3. QED
      BY <2>2, <3>2
  <2>4. QED
    BY <2>2, <2>3
<1>5. c # h.top => c + sz[c] \in DOMAIN sz
  BY <1>2, <1>3
<1>6. ASSUME NEW d \in DOMAIN sz, d < c + sz[c]
      PROVE  d <= c
  <2>1. c < d => c + sz[c] <= d
    BY <1>3
  <2>2. d \in Nat /\ c \in Nat /\ sz[c] \in Nat
    BY <1>3
  <2>3. QED
    BY <1>6, <2>1, <2>2
<1>7. QED
  BY <1>2, <1>3, <1>4, <1>5, <1>6

(* The first i steps of the walk. *)
Walked(q, i, sz, top) ==
  /\ q[i] \in DOMAIN sz
  /\ \A d \in DOMAIN sz : d <= q[i] => \E j \in 0 .. i : q[j] = d
  /\ \A j \in 0 .. i : q[j] \in DOMAIN sz
  /\ q[i] # top => \A j \in 0 .. i, l \in 0 .. i : j < l => q[j] < q[l]

LEMMA WalkAdvances ==
  ASSUME NEW h, NEW sz, NEW U, Params(h), Heap(h, sz, U), NEW q, NEW i \in Nat,
         Walked(q, i, sz, h.top), NEW k, k = i + 1, q[k] = StepFrom(h, q[i])
  PROVE  Walked(q, k, sz, h.top)
<1>1. PICK x : x = q[i]
  OBVIOUS
<1>2. x \in DOMAIN sz
  BY <1>1 DEF Walked
<1>3. /\ x \in Nat /\ sz[x] \in Nat /\ sz[x] > 0 /\ h.top \in Nat /\ x <= h.top
      /\ x # h.top => x + sz[x] \in DOMAIN sz
      /\ \A d \in DOMAIN sz : d < x + sz[x] => d <= x
  BY <1>2, ChunkOrder
<1>4. next_chunk(h, x) = x + sz[x]
  BY <1>2, HeapHeads
<1>5. k \in 0 .. k /\ \A j \in 0 .. i : j \in 0 .. k
  OBVIOUS
<1>6. \A j \in 0 .. k : j \in 0 .. i \/ j = k
  OBVIOUS
<1>7. CASE x = h.top
  <2>1. q[k] = x
    BY <1>1, <1>3, <1>7 DEF StepFrom
  <2>2. QED
    BY <1>1, <1>2, <1>5, <1>6, <1>7, <2>1 DEF Walked
<1>8. CASE x # h.top
  <2>1. q[k] = x + sz[x]
    BY <1>1, <1>3, <1>4, <1>8 DEF StepFrom
  <2>2. PICK y : y = x + sz[x]
    OBVIOUS
  <2>3. y \in DOMAIN sz /\ y \in Nat /\ x < y /\ q[k] = y
    BY <1>3, <1>8, <2>1, <2>2
  <2>4. ASSUME NEW d \in DOMAIN sz, d <= q[k]
        PROVE  \E j \in 0 .. k : q[j] = d
    <3>1. d = y \/ d < x + sz[x]
      <4>1. d \in Nat
        BY ChunkOrder
      <4>2. d <= y
        BY <2>3, <2>4
      <4>3. QED
        BY <2>2, <2>3, <4>1, <4>2
    <3>2. d = y \/ d <= x
      BY <1>3, <3>1
    <3>3. QED
      BY <1>1, <1>5, <2>3, <3>2 DEF Walked
  <2>5. \A j \in 0 .. k : q[j] \in DOMAIN sz
    BY <1>6, <2>3 DEF Walked
  <2>6. ASSUME NEW j \in 0 .. k, NEW l \in 0 .. k, j < l
        PROVE  q[j] < q[l]
    <3>1. CASE l \in 0 .. i
      <4>1. j \in 0 .. i
        BY <2>6, <3>1
      <4>2. QED
        BY <1>1, <1>8, <2>6, <3>1, <4>1 DEF Walked
    <3>2. CASE l = k
      <4>1. j \in 0 .. i
        BY <2>6, <3>2
      <4>2. j = i \/ j < i
        BY <4>1
      <4>3. q[j] = x \/ q[j] < x
        BY <1>1, <1>8, <4>1, <4>2 DEF Walked
      <4>4. q[j] \in Nat
        BY <2>5, <2>6, ChunkOrder
      <4>5. QED
        BY <1>3, <2>3, <3>2, <4>3, <4>4
    <3>3. QED
      BY <1>6, <3>1, <3>2
  <2>7. QED
    BY <2>3, <2>4, <2>5, <2>6 DEF Walked
<1>9. QED
  BY <1>7, <1>8

LEMMA WalkCovers ==
  ASSUME NEW h, NEW sz, NEW U, Params(h), Heap(h, sz, U), NEW n \in Nat,
         n = Cardinality(DOMAIN h.head), IsFiniteSet(DOMAIN h.head), NEW z, z = Lo(h),
         NEW q, WalksBy(q, h, z, n)
  PROVE  Visited(q, n) = DOMAIN sz
<1> DEFINE P(i) == i <= n => Walked(q, i, sz, h.top)
           T == {i \in Nat : P(i)}
<1>1. q[0] = z /\ \A i \in 1 .. n : q[i] = StepFrom(h, q[i - 1])
  <2>1. q = [i \in 0 .. n |-> IF i = 0 THEN z ELSE StepFrom(h, q[i - 1])]
    BY DEF WalksBy
  <2>2. 0 \in 0 .. n /\ \A i \in 1 .. n : i \in 0 .. n /\ i # 0
    OBVIOUS
  <2>3. QED
    BY <2>1, <2>2
<1>2. P(0)
  <2>1. h.top \in DOMAIN sz
    BY HeapFacts
  <2>2. z \in DOMAIN sz /\ z \in Nat /\ \A d \in DOMAIN sz : d \in Nat /\ z <= d
    BY <2>1, ChunkOrder
  <2>3. 0 \in 0 .. 0 /\ \A j \in 0 .. 0 : j = 0
    OBVIOUS
  <2>4. \A d \in DOMAIN sz : d <= z => d = z
    BY <2>2
  <2>5. QED
    BY <1>1, <2>2, <2>3, <2>4 DEF Walked
<1>3. ASSUME NEW i \in Nat, P(i)
      PROVE  P(i + 1)
  <2>1. SUFFICES ASSUME i + 1 <= n
                 PROVE  Walked(q, i + 1, sz, h.top)
    OBVIOUS
  <2>2. i <= n /\ i + 1 \in 1 .. n /\ (i + 1) - 1 = i
    BY <2>1
  <2>3. q[i + 1] = StepFrom(h, q[i])
    BY <1>1, <2>2
  <2>4. Walked(q, i, sz, h.top)
    BY <1>3, <2>2
  <2>5. QED
    BY <2>3, <2>4, WalkAdvances
<1>4. 0 \in T /\ \A i \in Nat : i \in T => i + 1 \in T
  <2> HIDE DEF P
  <2>1. QED
    BY <1>2, <1>3
<1>5. Nat \subseteq T
  <2> HIDE DEF T
  <2>1. QED
    BY <1>4, Induction
<1>6. Walked(q, n, sz, h.top)
  BY <1>5
<1> HIDE DEF P, T
<1>7. q[n] = h.top
  <2>1. SUFFICES ASSUME q[n] # h.top
                 PROVE  FALSE
    OBVIOUS
  <2>2. \A j \in 0 .. n, l \in 0 .. n : j < l => q[j] < q[l]
    BY <1>6, <2>1 DEF Walked
  <2>3. \A j \in 0 .. n : q[j] \in DOMAIN sz /\ q[j] \in Nat
    BY <1>6, ChunkOrder DEF Walked
  <2>4. \A j \in 0 .. n, l \in 0 .. n : q[j] = q[l] => j = l
    <3>1. ASSUME NEW j \in 0 .. n, NEW l \in 0 .. n, q[j] = q[l]
          PROVE  j = l
      <4>1. ~(j < l) /\ ~(l < j)
        BY <2>2, <2>3, <3>1
      <4>2. QED
        BY <4>1
    <3>2. QED
      BY <3>1
  <2>5. q \in [0 .. n -> DOMAIN h.head]
    <3>1. DOMAIN q = 0 .. n /\ q = [j \in 0 .. n |-> q[j]]
      <4>1. q = [i \in 0 .. n |-> IF i = 0 THEN z ELSE StepFrom(h, q[i - 1])]
        BY DEF WalksBy
      <4>2. QED
        BY <4>1
    <3>2. \A j \in 0 .. n : q[j] \in DOMAIN h.head
      BY <2>3, HeapHeads
    <3>3. QED
      BY <3>1, <3>2
  <2>6. q \in Injection(0 .. n, DOMAIN h.head)
    BY <2>4, <2>5 DEF Injection, IsInjective
  <2>7. Cardinality(0 .. n) <= n
    BY <2>6, FS_Injection, Zenon
  <2>8. Cardinality(0 .. n) = n + 1
    <3>1. 0 \in Int /\ n \in Int
      OBVIOUS
    <3>2. Cardinality(0 .. n) = IF 0 > n THEN 0 ELSE n - 0 + 1
      BY <3>1, FS_Interval, Zenon
    <3>3. QED
      BY <3>2
  <2>9. QED
    BY <2>7, <2>8
<1>8. \A d \in DOMAIN sz : d <= q[n]
  BY <1>7, ChunkOrder
<1>9. QED
  BY <1>6, <1>8 DEF Walked, Visited

LEMMA ChunksAreAll ==
  ASSUME NEW sz, NEW U, Params(m), Heap(m, sz, U)
  PROVE  /\ First = Lo(m) /\ Chunks = DOMAIN sz /\ Fence = End(m) /\ m.top \in DOMAIN sz
         /\ is_initialized(m)
<1>1. First = Lo(m)
  BY DEF First, Lo
<1>2. /\ is_initialized(m) /\ m.top \in DOMAIN sz /\ m.topsize = sz[m.top] /\ End(m) \in Nat
      /\ \A c \in DOMAIN sz : c \in Nat /\ c + sz[c] <= End(m) /\ sz[c] \in Nat
  BY HeapFacts
<1>3. Fence = End(m) /\ DOMAIN m.head = DOMAIN sz \cup {End(m)}
  BY <1>2, HeapHeads DEF Fence
<1>4. IsFiniteSet(DOMAIN m.head)
  <2>1. DOMAIN m.head \in SUBSET Nat /\ \A c \in DOMAIN m.head : c <= End(m)
    BY <1>2, <1>3
  <2>2. QED
    BY <1>2, <2>1, FS_BoundedSetOfNaturals
<1>5. PICK n : n = Cardinality(DOMAIN m.head)
  OBVIOUS
<1>6. n \in Nat
  BY <1>4, <1>5, FS_CardinalityType
<1>7. PICK q : WalksBy(q, m, First, n) /\ Chunks = Visited(q, n)
  BY <1>5, <1>6, ChunksAre
<1>10. PICK z : z = First
  OBVIOUS
<1>11. z = Lo(m) /\ WalksBy(q, m, z, n)
  BY <1>1, <1>7, <1>10
<1>8. Visited(q, n) = DOMAIN sz
  BY <1>4, <1>5, <1>6, <1>11, WalkCovers
<1>9. QED
  BY <1>1, <1>2, <1>3, <1>7, <1>8

(* What the bits of a chunk say of it, and of the one in front of it.      *)
LEMMA UseIs ==
  ASSUME NEW h, NEW sz, NEW U, Params(h), Heap(h, sz, U), NEW c \in DOMAIN sz
  PROVE  /\ is_inuse(h, c) <=> c \in U
         /\ c \notin U => pinuse(h, c)
         /\ ~pinuse(h, c) => \E d \in DOMAIN sz \ U : d # h.top /\ d + sz[d] = c
<1>1. /\ Tiling(Lo(h), End(h), sz)
      /\ Heads(h.head, h.foot, Lo(h), End(h), h.top, sz, U, End(h))
  BY DEF Heap, HeapOf, Layout
<1>2. End(h) \notin DOMAIN sz /\ Lo(h) \in DOMAIN sz /\ h.top + sz[h.top] = End(h)
  BY <1>1, TilingArith DEF Heads
<1>3. cinuse(h, c) <=> c \in U
  BY HeapHeads
<1>4. CASE c = Lo(h)
  <2>1. h.head[c].pinuse
    BY <1>1, <1>2, <1>4 DEF Heads
  <2>2. pinuse(h, c)
    BY <2>1, HeapHeads DEF pinuse
  <2>3. QED
    BY <1>3, <2>2 DEF is_inuse
<1>5. CASE c # Lo(h)
  <2>1. PICK d \in DOMAIN sz : d + sz[d] = c
    BY <1>1, <1>5 DEF Tiling
  <2>2. d # h.top
    BY <1>2, <2>1
  <2>3. pinuse(h, c) <=> d \in U
    BY <2>1, <2>2, HeapHeads
  <2>4. d \notin U => c \in U
    BY <1>1, <2>1, <2>2 DEF Heads
  <2>5. QED
    BY <1>3, <2>1, <2>2, <2>3, <2>4 DEF is_inuse
<1>6. QED
  BY <1>4, <1>5

LEMMA InUseIs ==
  ASSUME NEW sz, NEW U, Params(m), Heap(m, sz, U)
  PROVE  InUse = U /\ IsFree = FreeChunks(sz, U, m.top)
<1>1. Chunks = DOMAIN sz
  BY ChunksAreAll
<1>2. \A c \in DOMAIN sz : is_inuse(m, c) <=> c \in U
  BY UseIs
<1>3. U \subseteq DOMAIN sz /\ m.top \notin U
  BY HeapFacts, HeapHeads
<1>4. QED
  BY <1>1, <1>2, <1>3 DEF InUse, IsFree, FreeChunks

(* Nothing is there before the first call that needs memory. *)
LEMMA NothingYet ==
  ASSUME NEW h, NEW f, NEW sz, Holds(h, f, sz)
  PROVE  Params(h) /\ (is_initialized(h) => Heap(h, sz, Owned(f))) /\ (~is_initialized(h) => NoHeap(h) /\ DOMAIN f = {})
<1>1. Mem(h, sz, Owned(f))
  BY DEF Holds
<1>2. Params(h) /\ (is_initialized(h) <=> Heap(h, sz, Owned(f)))
  BY <1>1, MemIsState
<1>3. ~is_initialized(h) => NoHeap(h) /\ Owned(f) = {}
  BY <1>1, <1>2 DEF Mem
<1>4. Owned(f) = {} => DOMAIN f = {}
  BY DEF Owned
<1>5. QED
  BY <1>2, <1>3, <1>4

LEMMA BlocksOfChunks ==
  ASSUME NEW h, NEW f, NEW sz, Holds(h, f, sz)
  PROVE  {chunk2mem(q) : q \in Owned(f)} = DOMAIN f
<1>1. \A x \in DOMAIN f : mem2chunk(x) \in Owned(f) /\ x = chunk2mem(mem2chunk(x))
  BY BlockPlace
<1>2. \A q \in Owned(f) : \E x \in DOMAIN f : q = mem2chunk(x)
  BY DEF Owned
<1>3. QED
  BY <1>1, <1>2

(* A chunk is in use exactly if its block is a user's, and a user's block  *)
(* has what was asked for, after any calls by any program.                 *)
THEOREM BlocksAreTheUsers == Spec => []UsersHaveTheirBlocks
<1>1. IInv => UsersHaveTheirBlocks
  <2>1. SUFFICES ASSUME IInv
                 PROVE  UsersHaveTheirBlocks
    OBVIOUS
  <2>2. PICK sz : Holds(m, live, sz)
    BY <2>1 DEF IInv
  <2>3. Params(m) /\ (is_initialized(m) => Heap(m, sz, Owned(live)))
    BY <2>2, NothingYet
  <2>4. is_initialized(m) => {chunk2mem(q) : q \in InUse} = DOMAIN live
    BY <2>2, <2>3, InUseIs, BlocksOfChunks
  <2>5. ASSUME NEW mem \in DOMAIN live
        PROVE  usable_size(mem) >= live[mem].bytes /\ mem % live[mem].align = 0
    <3>1. PICK c : c = mem2chunk(mem)
      OBVIOUS
    <3>2. /\ mem \in Nat /\ mem >= 8 /\ c \in Owned(live) /\ Heap(m, sz, Owned(live))
      BY <2>2, <3>1, BlockPlace
    <3>3. c \in DOMAIN sz /\ sz[c] \in Nat
      BY <2>3, <3>2, HeapFacts
    <3>4. is_inuse(m, c) /\ chunksize(m, c) = sz[c]
      BY <2>3, <3>2, <3>3, UseIs, HeapHeads
    <3>5. usable_size(mem) = sz[c] - 4
      BY <3>1, <3>2, <3>4 DEF usable_size, CHUNK_OVERHEAD, SIZE_T_SIZE
    <3>6. live[mem].bytes \in Nat /\ sz[c] >= live[mem].bytes + 4 /\ mem % live[mem].align = 0
      BY <2>2, <3>1 DEF Holds, BlocksIn
    <3>7. QED
      BY <3>3, <3>5, <3>6
  <2>6. QED
    BY <2>4, <2>5 DEF UsersHaveTheirBlocks
<1>2. QED
  BY <1>1, HeapIsSound, PTL

LEMMA BinsOf ==
  ASSUME NEW h, NEW sz, NEW U, Params(h), Heap(h, sz, U), NEW s \in DOMAIN h.bins
  PROVE  IsBin(h.bins[s], s, h.dv, sz, FreeChunks(sz, U, h.top))
BY DEF Heap, HeapOf, Layout, BinsOK

(* A sequence without repetition has as many elements as places. *)
LEMMA DistinctElements ==
  ASSUME NEW S, NEW q \in Seq(S), \A i \in 1 .. Len(q), j \in 1 .. Len(q) : q[i] = q[j] => i = j
  PROVE  Cardinality(ToSet(q)) = Len(q)
<1>1. PICK n : n = Len(q)
  OBVIOUS
<1>2. n \in Nat /\ DOMAIN q = 1 .. n
  BY <1>1
<1>3. q \in [1 .. n -> ToSet(q)]
  <2>1. q = [i \in 1 .. n |-> q[i]]
    BY <1>1
  <2>2. \A i \in 1 .. n : q[i] \in ToSet(q)
    BY <1>2 DEF ToSet
  <2>3. QED
    BY <2>1, <2>2
<1>4. q \in Bijection(1 .. n, ToSet(q))
  <2>1. q \in Injection(1 .. n, ToSet(q))
    BY <1>1, <1>3 DEF Injection, IsInjective
  <2>2. q \in Surjection(1 .. n, ToSet(q))
    BY <1>2, <1>3 DEF Surjection, ToSet
  <2>3. QED
    BY <2>1, <2>2 DEF Bijection
<1>5. ExistsBijection(1 .. n, ToSet(q))
  BY <1>4 DEF ExistsBijection
<1>6. QED
  BY <1>1, <1>2, <1>5, FS_CountingElements, Zenon

(* No memory is lost: chunks and the foot are all of the segment, and the  *)
(* bins hold free chunks only, each of them once, for every heap that any  *)
(* sequence of calls leads to.                                             *)
THEOREM NoMemoryIsLost == Spec => []AllMemoryAccounted
<1>1. IInv => AllMemoryAccounted
  <2>1. SUFFICES ASSUME IInv, is_initialized(m)
                 PROVE  /\ DOMAIN m.head = Chunks \cup {Fence}
                        /\ m.top \in Chunks
                        /\ Fence + TOP_FOOT_SIZE = m.base + m.segsize
                        /\ m.base + m.segsize = m.brk
                        /\ m.footprint = m.segsize /\ m.footprint <= m.max_footprint
                        /\ \A s \in DOMAIN m.bins :
                             /\ ToSet(m.bins[s]) \subseteq IsFree \ {m.dv}
                             /\ Cardinality(ToSet(m.bins[s])) = Len(m.bins[s])
    BY DEF AllMemoryAccounted
  <2>2. PICK sz : Holds(m, live, sz)
    BY <2>1 DEF IInv
  <2>3. PICK U : U = Owned(live)
    OBVIOUS
  <2>4. Params(m) /\ Heap(m, sz, U)
    BY <2>1, <2>2, <2>3, NothingYet
  <2>5. Chunks = DOMAIN sz /\ Fence = End(m) /\ m.top \in DOMAIN sz
    BY <2>4, ChunksAreAll
  <2>6. DOMAIN m.head = Chunks \cup {Fence} /\ m.top \in Chunks
    BY <2>4, <2>5, HeapHeads
  <2>7. m.brk = m.base + m.segsize /\ m.footprint = m.segsize /\ m.footprint <= m.max_footprint
    BY <2>4 DEF Heap, Segment
  <2>8. Fence + TOP_FOOT_SIZE = m.base + m.segsize
    <3>1. End(m) + 40 = m.brk
      BY <2>4, HeapFacts
    <3>2. QED
      BY <2>5, <2>7, <3>1, TopFootSize
  <2>9. ASSUME NEW s \in DOMAIN m.bins
        PROVE  /\ ToSet(m.bins[s]) \subseteq IsFree \ {m.dv}
               /\ Cardinality(ToSet(m.bins[s])) = Len(m.bins[s])
    <3>1. PICK q : q = m.bins[s]
      OBVIOUS
    <3>2. PICK F : F = FreeChunks(sz, U, m.top)
      OBVIOUS
    <3>3. IsBin(q, s, m.dv, sz, F)
      BY <2>4, <3>1, <3>2, BinsOf
    <3>4. /\ q \in Seq(F) /\ \A i \in 1 .. Len(q) : q[i] # m.dv
          /\ \A i \in 1 .. Len(q), j \in 1 .. Len(q) : q[i] = q[j] => i = j
      BY <3>3 DEF IsBin
    <3>5. ToSet(q) \subseteq F \ {m.dv}
      BY <3>4 DEF ToSet
    <3>6. Cardinality(ToSet(q)) = Len(q)
      BY <3>4, DistinctElements
    <3>7. IsFree = F
      BY <2>4, <3>2, InUseIs
    <3>8. QED
      BY <3>1, <3>5, <3>6, <3>7
  <2>10. QED
    BY <2>6, <2>7, <2>8, <2>9
<1>2. QED
  BY <1>1, HeapIsSound, PTL

(* Any chunk has a block at a multiple of 8, from the segment's base on.   *)
LEMMA AnyChunk ==
  ASSUME NEW sz, NEW U, Params(m), Heap(m, sz, U), NEW c \in DOMAIN sz
  PROVE  do_check_any_chunk(c) /\ sz[c] % 8 = 0 /\ (c # m.top => sz[c] >= 16)
<1>1. /\ Tiling(Lo(m), End(m), sz)
      /\ Heads(m.head, m.foot, Lo(m), End(m), m.top, sz, U, End(m))
  BY DEF Heap, HeapOf, Layout
<1>2. c \in Nat /\ c % 8 = 0 /\ sz[c] % 8 = 0 /\ End(m) # c
  BY <1>1, TilingArith DEF Tiling
<1>3. chunk2mem(c) % 8 = 0
  BY <1>2, MemOf
<1>4. c >= m.base
  <2>1. m.base <= c /\ m.base \in Nat
    BY HeapFacts DEF Heap, Segment
  <2>2. QED
    BY <1>2, <2>1
<1>5. c # m.top => sz[c] >= 16
  BY <1>1, <1>2 DEF Heads
<1>6. QED
  BY <1>2, <1>3, <1>4, <1>5 DEF do_check_any_chunk, is_aligned, ok_address, MALLOC_ALIGNMENT

LEMMA NotBinned ==
  ASSUME NEW sz, NEW U, Params(m), Heap(m, sz, U), NEW c,
         c \notin FreeChunks(sz, U, m.top) \/ c = m.dv
  PROVE  ~bin_find(c)
<1>1. SUFFICES ASSUME bin_find(c)
               PROVE  FALSE
  OBVIOUS
<1>2. PICK s : s = chunksize(m, c)
  OBVIOUS
<1>3. s \in DOMAIN m.bins /\ Contains(m.bins[s], c)
  BY <1>1, <1>2 DEF bin_find
<1>4. PICK q : q = m.bins[s]
  OBVIOUS
<1>5. PICK F : F = FreeChunks(sz, U, m.top)
  OBVIOUS
<1>6. IsBin(q, s, m.dv, sz, F)
  BY <1>3, <1>4, <1>5, BinsOf
<1>7. q \in Seq(F) /\ \A i \in 1 .. Len(q) : q[i] # m.dv
  BY <1>6 DEF IsBin
<1>8. PICK i \in 1 .. Len(q) : q[i] = c
  BY <1>3, <1>4, <1>7 DEF Contains
<1>9. c \in F /\ c # m.dv
  BY <1>7, <1>8
<1>10. QED
  BY <1>5, <1>9

LEMMA TopChecks ==
  ASSUME NEW sz, NEW U, Params(m), Heap(m, sz, U)
  PROVE  do_check_top_chunk
<1>1. m.top \in DOMAIN sz /\ m.topsize = sz[m.top] /\ m.top \in Nat /\ End(m) \in Nat
  BY HeapFacts
<1>2. m.top \notin U /\ m.top + sz[m.top] = End(m) /\ chunksize(m, m.top) = sz[m.top]
  BY <1>1, HeapHeads
<1>3. do_check_any_chunk(m.top) /\ pinuse(m, m.top)
  BY <1>1, <1>2, AnyChunk, UseIs
<1>4. m.topsize \in Nat /\ m.topsize > 0
  BY <1>1, ChunkOrder
<1>5. m.topsize = m.base + m.segsize - m.top - TOP_FOOT_SIZE
  <2>1. m.base \in Nat /\ m.segsize \in Nat /\ m.brk = m.base + m.segsize
    BY DEF Heap, Segment
  <2>2. (m.top + m.topsize) + 40 = m.base + m.segsize
    BY <1>1, <1>2, <2>1, HeapFacts
  <2>3. QED
    BY <1>1, <1>4, <2>1, <2>2, TopFootSize
<1>6. ~pinuse(m, Fence)
  <2>1. Fence = End(m)
    BY ChunksAreAll
  <2>2. Heads(m.head, m.foot, Lo(m), End(m), m.top, sz, U, End(m))
    BY DEF Heap, HeapOf, Layout
  <2>3. /\ End(m) \in DOMAIN m.head
        /\ m.head[End(m)] = [size |-> TOP_FOOT_SIZE, pinuse |-> FALSE, cinuse |-> FALSE]
    BY <2>2 DEF Heads
  <2>4. ~m.head[End(m)].pinuse
    BY <2>3
  <2>5. QED
    BY <2>1, <2>3, <2>4 DEF pinuse, HeadAt
<1>7. ~bin_find(m.top)
  BY NotBinned DEF FreeChunks
<1>8. QED
  BY <1>1, <1>2, <1>3, <1>4, <1>5, <1>6, <1>7 DEF do_check_top_chunk

LEMMA DvChecks ==
  ASSUME NEW sz, NEW U, Params(m), Heap(m, sz, U), m.dvsize # 0
  PROVE  do_check_dv_chunk
<1>1. BinsOK(m.bins, m.dv, m.dvsize, sz, FreeChunks(sz, U, m.top))
  BY DEF Heap, HeapOf, Layout
<1>2. m.dv \in FreeChunks(sz, U, m.top) /\ m.dvsize = sz[m.dv]
  BY <1>1 DEF BinsOK
<1>3. m.dv \in DOMAIN sz /\ m.dv # m.top
  BY <1>2 DEF FreeChunks
<1>4. do_check_any_chunk(m.dv) /\ sz[m.dv] >= 16 /\ chunksize(m, m.dv) = sz[m.dv]
  BY <1>3, AnyChunk, HeapHeads
<1>5. ~bin_find(m.dv)
  BY NotBinned
<1>6. QED
  BY <1>2, <1>4, <1>5, MinChunkSize DEF do_check_dv_chunk

LEMMA InUseChecks ==
  ASSUME NEW sz, NEW U, Params(m), Heap(m, sz, U), NEW c \in U
  PROVE  do_check_inuse_chunk(c) /\ ~bin_find(c)
<1>1. c \in DOMAIN sz /\ c # m.top
  BY HeapFacts, HeapHeads
<1>2. /\ do_check_any_chunk(c) /\ sz[c] % 8 = 0 /\ sz[c] >= 16
      /\ chunksize(m, c) = sz[c] /\ next_chunk(m, c) = c + sz[c]
  BY <1>1, AnyChunk, HeapHeads
<1>3. pinuse(m, next_chunk(m, c))
  BY <1>1, <1>2, HeapHeads
<1>4. ~pinuse(m, c) => next_chunk(m, c - prev_foot(m, c)) = c
  <2>1. SUFFICES ASSUME ~pinuse(m, c)
                 PROVE  next_chunk(m, c - prev_foot(m, c)) = c
    OBVIOUS
  <2>2. PICK d \in DOMAIN sz \ U : d # m.top /\ d + sz[d] = c
    BY <1>1, <2>1, UseIs
  <2>3. Heads(m.head, m.foot, Lo(m), End(m), m.top, sz, U, End(m))
    BY DEF Heap, HeapOf, Layout
  <2>4. c \in DOMAIN m.foot /\ m.foot[c] = sz[d]
    BY <2>2, <2>3 DEF Heads
  <2>5. d \in Nat /\ sz[d] \in Nat
    BY <2>2, ChunkOrder
  <2>6. c - prev_foot(m, c) = d
    BY <2>2, <2>4, <2>5 DEF prev_foot
  <2>7. QED
    BY <2>2, <2>6, HeapHeads
<1>5. ~bin_find(c)
  BY NotBinned DEF FreeChunks
<1>6. QED
  BY <1>2, <1>3, <1>4, <1>5, MinChunkSize DEF do_check_inuse_chunk, MALLOC_ALIGNMENT

LEMMA FreeChecks ==
  ASSUME NEW sz, NEW U, Params(m), Heap(m, sz, U), NEW c \in FreeChunks(sz, U, m.top)
  PROVE  do_check_free_chunk(c) /\ (c = m.dv \/ bin_find(c))
<1>1. c \in DOMAIN sz /\ c \notin U /\ c # m.top
  BY DEF FreeChunks
<1>2. /\ do_check_any_chunk(c) /\ sz[c] % 8 = 0 /\ sz[c] >= 16
      /\ chunksize(m, c) = sz[c] /\ next_chunk(m, c) = c + sz[c] /\ pinuse(m, c)
  BY <1>1, AnyChunk, HeapHeads, UseIs
<1>3. ~pinuse(m, c + sz[c])
  BY <1>1, HeapHeads
<1>4. Heads(m.head, m.foot, Lo(m), End(m), m.top, sz, U, End(m))
  BY DEF Heap, HeapOf, Layout
<1>5. c + sz[c] \in U /\ c + sz[c] \in DOMAIN m.foot /\ m.foot[c + sz[c]] = sz[c]
  BY <1>1, <1>4 DEF Heads
<1>6. c + sz[c] # m.top /\ is_inuse(m, c + sz[c])
  <2>1. c + sz[c] \in DOMAIN sz /\ m.top \notin U
    BY <1>5, HeapFacts, HeapHeads
  <2>2. QED
    BY <1>5, <2>1, UseIs
<1>7. prev_foot(m, c + sz[c]) = sz[c]
  BY <1>5 DEF prev_foot
<1>8. c = m.dv \/ bin_find(c)
  <2>1. BinsOK(m.bins, m.dv, m.dvsize, sz, FreeChunks(sz, U, m.top))
    BY DEF Heap, HeapOf, Layout
  <2>2. c # m.dv => Binned(m.bins, c, sz[c])
    BY <2>1 DEF BinsOK
  <2>3. QED
    BY <1>2, <2>2 DEF Binned, bin_find
<1>9. QED
  BY <1>2, <1>3, <1>5, <1>6, <1>7, <1>8, MinChunkSize DEF do_check_free_chunk, MALLOC_ALIGNMENT

(* do_check_malloc_state finds nothing, and no run-time check fails: sizes, *)
(* bits and feet agree wherever two chunks meet, no two free chunks are    *)
(* neighbours, and a free chunk is in its bin or is dv.                    *)
THEOREM ChecksFindNothing == Spec => []StateChecks
<1>1. IInv => StateChecks
  <2>1. SUFFICES ASSUME IInv
                 PROVE  StateChecks
    OBVIOUS
  <2>2. PICK sz : Holds(m, live, sz)
    BY <2>1 DEF IInv
  <2>3. PICK U : U = Owned(live)
    OBVIOUS
  <2>4. Params(m) /\ (is_initialized(m) => Heap(m, sz, U))
    BY <2>2, <2>3, NothingYet
  <2>5. m.ok
    BY <2>4 DEF Params
  <2>6. is_initialized(m) => do_check_top_chunk /\ (m.dvsize # 0 => do_check_dv_chunk)
    BY <2>4, TopChecks, DvChecks
  <2>7. is_initialized(m) => traverse_and_check
    <3>1. SUFFICES ASSUME is_initialized(m)
                   PROVE  traverse_and_check
      OBVIOUS
    <3>2. Heap(m, sz, U)
      BY <2>4, <3>1
    <3>3. pinuse(m, First)
      <4>1. First = Lo(m) /\ m.top \in DOMAIN sz
        BY <2>4, <3>2, ChunksAreAll
      <4>2. Lo(m) \in DOMAIN sz
        BY <2>4, <3>2, <4>1, ChunkOrder
      <4>3. /\ Heads(m.head, m.foot, Lo(m), End(m), m.top, sz, U, End(m))
            /\ Tiling(Lo(m), End(m), sz)
        BY <3>2 DEF Heap, HeapOf, Layout
      <4>4. m.head[Lo(m)].pinuse
        BY <4>2, <4>3, TilingArith DEF Heads
      <4>5. QED
        BY <2>4, <3>2, <4>1, <4>2, <4>4, HeapHeads DEF pinuse
    <3>4. InUse = U /\ IsFree = FreeChunks(sz, U, m.top)
      BY <2>4, <3>2, InUseIs
    <3>5. \A q \in InUse : do_check_inuse_chunk(q) /\ ~bin_find(q)
      BY <2>4, <3>2, <3>4, InUseChecks
    <3>6. \A q \in IsFree : do_check_free_chunk(q) /\ (q = m.dv \/ bin_find(q))
      BY <2>4, <3>2, <3>4, FreeChecks
    <3>7. QED
      BY <3>3, <3>5, <3>6 DEF traverse_and_check
  <2>8. QED
    BY <2>5, <2>6, <2>7 DEF StateChecks
<1>2. QED
  BY <1>1, HeapIsSound, PTL

-----------------------------------------------------------------------------
(* What a request gets of the free memory there is.                        *)

(* A free chunk is dv, or it is in the bin of its size.                    *)
LEMMA FreeIsDvOrBinned ==
  ASSUME NEW h, NEW lo, NEW e, NEW sz, NEW U, HeapOf(h, lo, e, sz, U),
         NEW q \in FreeChunks(sz, U, h.top)
  PROVE  (q = h.dv /\ h.dvsize = sz[q]) \/ sz[q] \in DOMAIN h.bins
<1>1. BinsOK(h.bins, h.dv, h.dvsize, sz, FreeChunks(sz, U, h.top))
  BY DEF HeapOf, Layout
<1>2. CASE q = h.dv
  <2>1. q \in Nat /\ sz[q] >= 16
    BY FreeFacts
  <2>2. h.dv # 0
    <3>1. PICK F : F = FreeChunks(sz, U, h.top)
      OBVIOUS
    <3>2. q \in DOMAIN sz
      BY DEF FreeChunks
    <3>3. QED
      BY <1>1, <1>2, <3>1 DEF BinsOK
  <2>3. QED
    BY <1>2, <2>2, DvSize
<1>3. CASE q # h.dv
  BY <1>1, <1>3 DEF BinsOK, Binned
<1>4. QED
  BY <1>2, <1>3

(* The free chunk p is large enough for nb, and none that is would be      *)
(* smaller.                                                                *)
BestOf(p, nb, sz, F) ==
  p \in F /\ sz[p] >= nb /\ \A q \in F : sz[q] >= nb => sz[p] <= sz[q]

(* The oldest chunk of the smallest tree bin that fits, if it is better    *)
(* than dv: no free chunk is a better fit.                                 *)
LEMMA OldestIsBest ==
  ASSUME NEW h, NEW lo, NEW e, NEW sz, NEW U, HeapOf(h, lo, e, sz, U), e < WordSize,
         NEW nb \in Nat, nb >= 256, NEW S, S = AtLeast(TreeBinned(h), nb), S # {},
         NEW s, s = Min(S), BetterThanDv(h, s, nb), NEW v, v = Head(h.bins[s])
  PROVE  /\ tmalloc_large(h, nb).mem = chunk2mem(v)
         /\ BestOf(v, nb, sz, FreeChunks(sz, U, h.top))
<1>1. tmalloc_large(h, nb).mem = chunk2mem(v)
  BY DEF tmalloc_large, Result
<1>2. S \subseteq DOMAIN h.bins /\ \A x \in S : x >= nb
  BY DEF TreeBinned, AtLeast
<1>3. s \in S /\ \A y \in S : s <= y
  <2>1. S \subseteq Nat
    BY <1>2, BinChunk
  <2>2. QED
    BY <2>1, MinIs
<1>4. s \in Nat /\ s >= nb /\ v \in FreeChunks(sz, U, h.top) /\ sz[v] = s
  BY <1>2, <1>3, BinChunk
<1>5. ASSUME NEW q \in FreeChunks(sz, U, h.top), sz[q] >= nb
      PROVE  s <= sz[q]
  <2>1. sz[q] \in Nat /\ sz[q] <= e /\ e \in Nat
    BY FreeFacts
  <2>2. CASE sz[q] \in DOMAIN h.bins
    <3>1. ~is_small(sz[q])
      BY <1>5, <2>1 DEF is_small, small_index, SMALLBIN_WIDTH, NSMALLBINS
    <3>2. sz[q] \in S
      BY <1>5, <2>2, <3>1 DEF AtLeast, TreeBinned
    <3>3. QED
      BY <1>3, <3>2
  <2>3. CASE h.dvsize = sz[q]
    <3>1. h.dvsize - nb \in 0 .. WordSize - 1 /\ WordSize \in Nat \ {0}
      BY <1>5, <2>1, <2>3, WordAssumption
    <3>2. Word(h.dvsize - nb) = h.dvsize - nb
      BY <3>1, WordOfSmall DEF Word
    <3>3. s - nb < h.dvsize - nb
      BY <3>2 DEF BetterThanDv
    <3>4. QED
      BY <1>4, <2>1, <2>3, <3>3
  <2>4. QED
    BY <2>2, <2>3, FreeIsDvOrBinned
<1>6. QED
  BY <1>1, <1>4, <1>5 DEF BestOf

(* If it is not, and there is a chunk at all, dv is the best fit.          *)
LEMMA DvIsBest ==
  ASSUME NEW h, NEW lo, NEW e, NEW sz, NEW U, HeapOf(h, lo, e, sz, U), e < WordSize,
         NEW nb \in Nat, nb >= 256, NEW S, S = AtLeast(TreeBinned(h), nb),
         NEW s, s = Min(S), S = {} \/ ~BetterThanDv(h, s, nb),
         NEW p \in FreeChunks(sz, U, h.top), sz[p] >= nb
  PROVE  nb <= h.dvsize /\ BestOf(h.dv, nb, sz, FreeChunks(sz, U, h.top))
<1>1. S \subseteq DOMAIN h.bins /\ \A x \in S : x >= nb
  BY DEF TreeBinned, AtLeast
<1>2. S \subseteq Nat
  BY <1>1, BinChunk
<1>3. S # {} => s \in S /\ \A y \in S : s <= y
  BY <1>2, MinIs
<1>4. /\ h.dvsize \in Nat /\ h.dvsize <= e /\ e \in Nat
      /\ h.dvsize # 0 => h.dv \in FreeChunks(sz, U, h.top) /\ h.dvsize = sz[h.dv]
  BY DvSize
<1>5. \A q \in FreeChunks(sz, U, h.top) :
        sz[q] \in Nat /\ (sz[q] >= nb => h.dvsize = sz[q] \/ sz[q] \in S)
  <2>1. ASSUME NEW q \in FreeChunks(sz, U, h.top)
        PROVE  sz[q] \in Nat /\ (sz[q] >= nb => h.dvsize = sz[q] \/ sz[q] \in S)
    <3>1. sz[q] \in Nat
      BY FreeFacts
    <3>2. sz[q] >= nb => ~is_small(sz[q])
      BY <3>1 DEF is_small, small_index, SMALLBIN_WIDTH, NSMALLBINS
    <3>3. h.dvsize = sz[q] \/ sz[q] \in DOMAIN h.bins
      BY FreeIsDvOrBinned
    <3>4. QED
      BY <3>1, <3>2, <3>3 DEF AtLeast, TreeBinned
  <2>2. QED
    BY <2>1
<1>6. S # {} => s \in Nat /\ s >= nb /\ s <= e
  BY <1>1, <1>3, BinChunk
<1>7. nb <= h.dvsize
  <2>1. CASE S = {}
    BY <1>5, <2>1
  <2>2. CASE S # {}
    <3>1. ~(h.dvsize < nb)
      BY <1>4, <1>6, <2>2, BetterWhenDvIsSmall
    <3>2. QED
      BY <1>4, <3>1
  <2>3. QED
    BY <2>1, <2>2
<1>8. S # {} => h.dvsize <= s
  <2>1. h.dvsize - nb \in 0 .. WordSize - 1 /\ WordSize \in Nat \ {0}
    BY <1>4, <1>7, WordAssumption
  <2>2. Word(h.dvsize - nb) = h.dvsize - nb
    BY <2>1, WordOfSmall DEF Word
  <2>3. S # {} => ~(s - nb < h.dvsize - nb)
    BY <2>2 DEF BetterThanDv
  <2>4. QED
    BY <1>4, <1>6, <2>3
<1>9. h.dv \in FreeChunks(sz, U, h.top) /\ h.dvsize = sz[h.dv]
  BY <1>4, <1>7
<1>10. \A q \in FreeChunks(sz, U, h.top) : sz[q] >= nb => h.dvsize <= sz[q]
  <2>1. ASSUME NEW q \in FreeChunks(sz, U, h.top), sz[q] >= nb
        PROVE  h.dvsize <= sz[q]
    <3>1. CASE h.dvsize = sz[q]
      BY <1>4, <3>1
    <3>2. CASE sz[q] \in S
      <4>1. S # {} /\ s <= sz[q] /\ sz[q] \in Nat
        BY <1>3, <1>5, <3>2
      <4>2. QED
        BY <1>4, <1>6, <1>8, <4>1
    <3>3. QED
      BY <1>5, <2>1, <3>1, <3>2
  <2>2. QED
    BY <2>1
<1>11. QED
  BY <1>7, <1>9, <1>10 DEF BestOf

(* A large request gets the best fit, if there is a free chunk for it.     *)
LEMMA LargeRequestIsBest ==
  ASSUME NEW h, NEW lo, NEW e, NEW sz, NEW U, HeapOf(h, lo, e, sz, U), NEW env, e < MAX_SIZE_T,
         NEW nb \in Nat, nb = MAX_SIZE_T \/ (nb >= 256 /\ nb % 8 = 0 /\ nb < MAX_SIZE_T),
         NEW x \in FreeChunks(sz, U, h.top), sz[x] >= nb
  PROVE  \E p \in Nat : /\ LargeRequest(h, nb, env).mem = chunk2mem(p)
                        /\ BestOf(p, nb, sz, FreeChunks(sz, U, h.top))
<1>1. sz[x] \in Nat /\ sz[x] <= e /\ e \in Nat /\ MAX_SIZE_T \in Nat
  BY FreeFacts, Requests
<1>2. nb < MAX_SIZE_T /\ nb >= 256 /\ e < WordSize /\ nb # MAX_SIZE_T
  BY <1>1, Requests DEF MAX_SIZE_T
<1>3. PICK S : S = AtLeast(TreeBinned(h), nb)
  OBVIOUS
<1>4. PICK s : s = Min(S)
  OBVIOUS
<1>5. PICK r : r = tmalloc_large(h, nb)
  OBVIOUS
<1>6. LargeRequest(h, nb, env) = IF r.mem # 0 THEN r ELSE UseDvTopOrSystem(h, nb, env)
  BY <1>2, <1>5 DEF LargeRequest
<1>7. CASE S # {} /\ BetterThanDv(h, s, nb)
  <2>1. PICK v : v = Head(h.bins[s])
    OBVIOUS
  <2>2. r.mem = chunk2mem(v) /\ BestOf(v, nb, sz, FreeChunks(sz, U, h.top))
    BY <1>2, <1>3, <1>4, <1>5, <1>7, <2>1, OldestIsBest
  <2>3. v \in Nat
    BY <2>2, FreeFacts DEF BestOf
  <2>4. r.mem # 0
    BY <2>2, <2>3 DEF chunk2mem, TWO_SIZE_T_SIZES
  <2>5. QED
    BY <1>6, <2>2, <2>3, <2>4
<1>8. CASE S = {} \/ ~BetterThanDv(h, s, nb)
  <2>1. r.mem = 0
    BY <1>3, <1>4, <1>5, <1>8 DEF tmalloc_large, Result
  <2>2. nb <= h.dvsize /\ BestOf(h.dv, nb, sz, FreeChunks(sz, U, h.top))
    BY <1>2, <1>3, <1>4, <1>8, DvIsBest
  <2>3. LargeRequest(h, nb, env) = UseDv(h, nb)
    BY <1>6, <2>1, <2>2 DEF UseDvTopOrSystem
  <2>4. LargeRequest(h, nb, env).mem = chunk2mem(h.dv)
    BY <2>3 DEF UseDv, Result
  <2>5. h.dv \in Nat
    BY DvSize
  <2>6. QED
    BY <2>2, <2>4, <2>5
<1>9. QED
  BY <1>7, <1>8

(* Nothing is there, and nothing free, before the first call. *)
LEMMA NothingFree ==
  ASSUME NoHeap(m)
  PROVE  IsFree = {} /\ m.topsize = 0
<1>1. DOMAIN m.head = {} /\ m.top = 0 /\ m.topsize = 0 /\ m.base = 0
  BY DEF NoHeap, NothingIn
<1>2. First = 0
  BY <1>1 DEF First, align_as_chunk, align_offset, chunk2mem, TWO_SIZE_T_SIZES, MALLOC_ALIGNMENT
<1>3. PICK n : n = Cardinality(DOMAIN m.head)
  OBVIOUS
<1>4. n = 0 /\ n \in Nat
  BY <1>1, <1>3, FS_EmptySet
<1>5. PICK q : WalksBy(q, m, First, n) /\ Chunks = Visited(q, n)
  BY <1>3, <1>4, ChunksAre
<1>6. q[0] = 0
  BY <1>2, <1>4, <1>5 DEF WalksBy
<1>7. Chunks = {0}
  <2>1. 0 .. n = {0}
    BY <1>4
  <2>2. QED
    BY <1>5, <1>6, <2>1 DEF Visited
<1>8. QED
  BY <1>1, <1>7 DEF IsFree

(* A request that fails finds no free chunk that is large enough, and top  *)
(* no larger; a large one that does not fail gets the best fit.            *)
LEMMA OverlooksNothing ==
  ASSUME NEW sz, NEW U, Mem(m, sz, U), NEW bytes \in Nat, NEW env,
         NEW mem, mem = dlmalloc(m, bytes, env).mem
  PROVE  ~Overlooks(bytes, mem)
<1>1. PICK nb : nb = ChunkSizeFor(bytes)
  OBVIOUS
<1>2. /\ nb \in Nat /\ nb >= 16
      /\ bytes > MAX_SMALL_REQUEST => nb = MAX_SIZE_T \/ (nb >= 256 /\ nb % 8 = 0 /\ nb < MAX_SIZE_T)
  BY <1>1, ChunkSizes DEF NbOK
<1>3. CASE NoHeap(m)
  BY <1>2, <1>3, NothingFree, <1>1 DEF Overlooks
<1>4. CASE Heap(m, sz, U)
  <2>1. Params(m) /\ is_initialized(m)
    BY <1>4, ChunksAreAll DEF Mem
  <2>2. PICK F : F = FreeChunks(sz, U, m.top)
    OBVIOUS
  <2>3. IsFree = F /\ \A q \in F : chunksize(m, q) = sz[q]
    BY <1>4, <2>1, <2>2, InUseIs, HeapHeads DEF FreeChunks
  <2>4. PICK lo, e : lo = Lo(m) /\ e = End(m)
    OBVIOUS
  <2>5. HeapOf(m, lo, e, sz, U) /\ e < MAX_SIZE_T
    BY <1>4, <2>1, <2>4, HeapFacts DEF Heap
  <2>6. m.topsize \in Nat /\ m.dvsize \in Nat
    BY <2>5, DvSize
  <2>7. mem # 0 \/ Exhausted(m, nb)
    <3>1. PICK r : r = dlmalloc(m, bytes, env)
      OBVIOUS
    <3>2. Grants(m, r, nb, sz, U) \/ Exhausted(m, nb)
      BY <1>1, <2>1, <3>1, MallocOutcome
    <3>3. CASE Grants(m, r, nb, sz, U)
      <4>1. PICK p \in Nat : r.mem = chunk2mem(p)
        BY <3>3 DEF Grants
      <4>2. QED
        BY <3>1, <4>1 DEF chunk2mem, TWO_SIZE_T_SIZES
    <3>4. QED
      BY <3>2, <3>3
  <2>8. Exhausted(m, nb) => m.topsize <= nb /\ \A q \in F : sz[q] \in Nat /\ sz[q] < nb
    BY <2>2, <2>5, FreeIsDvOrBinned, FreeFacts DEF Exhausted
  <2>9. ~(mem = 0 /\ ((\E q \in F : sz[q] >= nb) \/ m.topsize > nb))
    BY <1>2, <2>6, <2>7, <2>8
  <2>10. ASSUME bytes > MAX_SMALL_REQUEST, NEW x \in F, sz[x] >= nb
         PROVE  mem2chunk(mem) \in F /\ sz[mem2chunk(mem)] >= nb
                /\ \A q \in F : sz[q] >= nb => sz[mem2chunk(mem)] <= sz[q]
    <3>1. dlmalloc(m, bytes, env) = LargeRequest(m, nb, env)
      <4>1. ~(bytes <= MAX_SMALL_REQUEST)
        BY <2>10, Requests
      <4>2. QED
        BY <1>1, <2>1, <4>1 DEF dlmalloc
    <3>2. PICK p \in Nat : mem = chunk2mem(p) /\ BestOf(p, nb, sz, F)
      BY <1>2, <2>2, <2>5, <2>10, <3>1, LargeRequestIsBest
    <3>3. mem2chunk(mem) = p
      BY <3>2 DEF mem2chunk, chunk2mem, TWO_SIZE_T_SIZES
    <3>4. QED
      BY <3>2, <3>3 DEF BestOf
  <2>11. PICK fits : fits = {q \in IsFree : chunksize(m, q) >= ChunkSizeFor(bytes)}
    OBVIOUS
  <2>12. \A q : q \in fits <=> q \in F /\ sz[q] >= nb
    BY <1>1, <2>3, <2>11
  <2>13. ~(mem = 0 /\ (fits # {} \/ m.topsize > ChunkSizeFor(bytes)))
    BY <1>1, <2>9, <2>12
  <2>14. \A q \in F : sz[q] \in Nat
    BY <2>2, <2>5, FreeFacts
  <2>15. bytes > MAX_SMALL_REQUEST /\ fits # {} =>
           mem2chunk(mem) \in fits /\ \A q \in fits : ~(chunksize(m, mem2chunk(mem)) > chunksize(m, q))
    BY <2>3, <2>10, <2>12, <2>14
  <2>16. QED
    BY <2>11, <2>13, <2>15 DEF Overlooks
<1>5. QED
  BY <1>3, <1>4 DEF Mem

(* malloc is served without the system while a free chunk or top would     *)
(* do, and a large request gets the chunk that fits best.                  *)
THEOREM FreeMemoryIsFound == Spec => []FindsFreeMemory
<1>1. IInv => FindsFreeMemory
  <2>1. SUFFICES ASSUME IInv
                 PROVE  FindsFreeMemory
    OBVIOUS
  <2>2. PICK sz : Holds(m, live, sz)
    BY <2>1 DEF IInv
  <2>3. Mem(m, sz, Owned(live))
    BY <2>2 DEF Holds
  <2>4. program.requests \subseteq Nat
    BY <2>1, ProgramFacts DEF IInv
  <2>5. ASSUME NEW bytes \in program.requests
        PROVE  ~Overlooks(bytes, dlmalloc(m, bytes, <<FALSE, FALSE>>).mem)
    <3>1. PICK env : env = <<FALSE, FALSE>>
      OBVIOUS
    <3>2. ~Overlooks(bytes, dlmalloc(m, bytes, env).mem)
      BY <2>3, <2>4, OverlooksNothing
    <3>3. QED
      BY <3>1, <3>2
  <2>6. QED
    BY <2>5 DEF FindsFreeMemory
<1>2. QED
  BY <1>1, HeapIsSound, PTL
=============================================================================
