---------------------------- MODULE HeapProofs ----------------------------
(***************************************************************************)
(* What malloc, free and realloc do to a heap, for every heap and every    *)
(* request: lemmas on the operators of MallocState, MallocFree and         *)
(* MallocVariants. A heap is described by the function sz from its chunks  *)
(* to their sizes and the set U of the chunks in use; a call leads to a    *)
(* heap of the same kind in which the chunks of U have at least what they  *)
(* had. While a call joins and splits chunks, one of them is a hole: it    *)
(* belongs to nobody, and its head need not be right.                      *)
(***************************************************************************)
EXTENDS Dlmalloc, FiniteSetTheorems, SequenceTheorems, TLAPS

-----------------------------------------------------------------------------
(* Natural numbers. *)

(* The intervals 0 .. k are finite, and finite sets are well-founded.      *)
LEMMA LeastElement ==
  ASSUME NEW T, T \subseteq Nat, T # {}
  PROVE  \E n \in T : \A k \in T : n <= k
<1> DEFINE U == {0 .. k : k \in T}
<1>1. U \subseteq FiniteSubsetsOf(Nat)
  <2>1. \A k \in Nat : IsFiniteSet(0 .. k)
    BY FS_Interval
  <2>2. QED
    BY <2>1 DEF FiniteSubsetsOf
<1>2. U # {}
  OBVIOUS
<1>3. PICK u \in U : \A v \in U : ~(<<v, u>> \in StrictSubsetOrdering(Nat))
  <2> HIDE DEF U
  <2> QED
    BY <1>1, <1>2, FS_StrictSubsetOrderingWellFounded, WFMin
<1>4. PICK n \in T : u = 0 .. n
  BY <1>3
<1>5. ASSUME NEW k \in T, k < n
      PROVE  FALSE
  <2>1. 0 .. k \in U
    OBVIOUS
  <2>2. 0 .. k \subseteq 0 .. n /\ 0 .. k # 0 .. n
    <3>1. n \in 0 .. n /\ n \notin 0 .. k
      BY <1>5
    <3>2. QED
      BY <1>5, <3>1
  <2>3. <<0 .. k, u>> \in StrictSubsetOrdering(Nat)
    <3>1. 0 .. k \in SUBSET Nat /\ 0 .. n \in SUBSET Nat
      OBVIOUS
    <3>2. QED
      BY <2>2, <3>1, <1>4, Zenon DEF StrictSubsetOrdering
  <2>4. QED
    BY <1>3, <2>1, <2>3, Zenon
<1>6. \A k \in T : n <= k
  BY <1>5
<1>7. QED
  BY <1>6

(* Induction, stated of a set of numbers: {n \in Nat : P(n)}.              *)
LEMMA Induction ==
  ASSUME NEW T, 0 \in T, \A n \in Nat : n \in T => n + 1 \in T
  PROVE  Nat \subseteq T
<1>1. SUFFICES ASSUME Nat \ T # {}
               PROVE  FALSE
  OBVIOUS
<1>2. PICK n \in Nat \ T : \A k \in Nat \ T : n <= k
  BY <1>1, LeastElement
<1>3. n # 0 /\ n - 1 \in Nat
  BY <1>2
<1>4. n - 1 \in T
  BY <1>2, <1>3
<1>5. QED
  BY <1>2, <1>3, <1>4

(* A C unsigned division rounds down. *)
LEMMA QuotientBounds ==
  ASSUME NEW n \in Nat, NEW d \in Nat \ {0}
  PROVE  /\ n \div d \in Nat
         /\ (n \div d) * d <= n
         /\ n < (n \div d) * d + d
  OBVIOUS

(* Quotient and remainder put the number together again. *)
LEMMA QuotientRemainder ==
  ASSUME NEW n \in Nat, NEW d \in Nat \ {0}
  PROVE  /\ n = (n \div d) * d + (n % d)
         /\ n % d \in 0 .. d - 1
         /\ n \div d \in Nat
  <1>1. n = (n \div d) * d + (n % d)
    OBVIOUS
  <1>2. n % d \in 0 .. d - 1
    OBVIOUS
  <1>3. n \div d \in Nat
    OBVIOUS
  <1> QED
    BY <1>1, <1>2, <1>3

(* A value that fits the word is its own remainder. *)
LEMMA WordOfSmall ==
  ASSUME NEW d \in Nat \ {0}, NEW n \in 0 .. d - 1
  PROVE  n % d = n
  OBVIOUS

(* One carry out of the word. *)
LEMMA WordOfCarry ==
  ASSUME NEW d \in Nat \ {0}, NEW n \in Int, d <= n, n < 2 * d
  PROVE  n % d = n - d
  OBVIOUS

(* One borrow. *)
LEMMA WordOfBorrow ==
  ASSUME NEW d \in Nat \ {0}, NEW n \in Int, -d <= n, n < 0
  PROVE  n % d = n + d
  OBVIOUS

(* One more whole part is p more. *)
LEMMA ScaleUp ==
  ASSUME NEW a \in Int, NEW b \in Int, NEW p \in Nat \ {0}, a < b
  PROVE  a * p + p <= b * p
  OBVIOUS

LEMMA ScaleMonotone ==
  ASSUME NEW a \in Int, NEW b \in Int, NEW p \in Nat, a <= b
  PROVE  a * p <= b * p
  OBVIOUS

-----------------------------------------------------------------------------
(* Tilings.  The chunks of a heap and their sizes, as a function sz from   *)
(* addresses: they fill the memory from lo to e without gap or overlap.    *)

Tiling(lo, e, sz) ==
  /\ lo \in Nat /\ e \in Nat /\ lo \in DOMAIN sz
  /\ sz = [c \in DOMAIN sz |-> sz[c]]
  /\ \A c \in DOMAIN sz : /\ c \in Nat /\ c % 8 = 0 /\ lo <= c /\ c < e
                          /\ sz[c] \in Nat /\ sz[c] % 8 = 0 /\ sz[c] > 0
  /\ \A c \in DOMAIN sz : c + sz[c] = e \/ c + sz[c] \in DOMAIN sz
  /\ \A c \in DOMAIN sz : c = lo \/ \E d \in DOMAIN sz : d + sz[d] = c
  /\ \A c \in DOMAIN sz, d \in DOMAIN sz : c < d => c + sz[c] <= d

(* The chunk at c in two, the first of them of a bytes; and in one with    *)
(* the chunk behind it.                                                    *)
CutChunk(sz, c, a) ==
  [x \in DOMAIN sz \cup {c + a} |->
     IF x = c THEN a ELSE IF x = c + a THEN sz[c] - a ELSE sz[x]]

JoinChunks(sz, c) ==
  [x \in DOMAIN sz \ {c + sz[c]} |-> IF x = c THEN sz[c] + sz[c + sz[c]] ELSE sz[x]]

LEMMA TilingFacts ==
  ASSUME NEW lo, NEW e, NEW sz, Tiling(lo, e, sz), NEW c \in DOMAIN sz
  PROVE  /\ c \in Nat /\ sz[c] \in Nat /\ c + sz[c] <= e /\ c + sz[c] # c /\ e \notin DOMAIN sz
         /\ \A d \in DOMAIN sz : ~(c < d /\ d < c + sz[c])
         /\ \A d \in DOMAIN sz : c + sz[c] = d + sz[d] => c = d
<1>1. /\ c \in Nat /\ sz[c] \in Nat /\ c < e /\ sz[c] > 0 /\ e \in Nat
      /\ \A d \in DOMAIN sz : /\ d \in Nat /\ sz[d] \in Nat /\ d < e /\ sz[d] > 0
                              /\ c < d => c + sz[c] <= d
                              /\ d < c => d + sz[d] <= c
      /\ c + sz[c] = e \/ c + sz[c] \in DOMAIN sz
  BY DEF Tiling
<1>2. QED
  BY <1>1

LEMMA SplitTiles ==
  ASSUME NEW lo, NEW e, NEW sz, Tiling(lo, e, sz), NEW c \in DOMAIN sz,
         NEW a \in Nat, 0 < a, a < sz[c], a % 8 = 0
  PROVE  Tiling(lo, e, CutChunk(sz, c, a))
<1> DEFINE t == CutChunk(sz, c, a)
<1>1. /\ c \in Nat /\ sz[c] \in Nat /\ c % 8 = 0 /\ sz[c] % 8 = 0 /\ lo <= c /\ lo \in Nat /\ e \in Nat
      /\ c + sz[c] <= e
  BY TilingFacts DEF Tiling
<1>2. c + a \notin DOMAIN sz
  BY <1>1, TilingFacts
<1>3. /\ DOMAIN t = DOMAIN sz \cup {c + a} /\ t[c] = a /\ t[c + a] = sz[c] - a
      /\ \A x \in DOMAIN sz : x # c => t[x] = sz[x]
  BY <1>1, <1>2 DEF CutChunk
<1>4. t = [x \in DOMAIN t |-> t[x]]
  BY DEF CutChunk
<1> HIDE DEF t
<1>5. ASSUME NEW x \in DOMAIN t
      PROVE  /\ x \in Nat /\ x % 8 = 0 /\ lo <= x /\ x < e
             /\ t[x] \in Nat /\ t[x] % 8 = 0 /\ t[x] > 0
  <2>1. CASE x = c + a
    BY <1>1, <1>3, <2>1
  <2>2. CASE x = c
    BY <1>1, <1>3, <2>2 DEF Tiling
  <2>3. CASE x # c /\ x # c + a
    BY <1>3, <2>3 DEF Tiling
  <2>4. QED
    BY <2>1, <2>2, <2>3
<1>6. ASSUME NEW x \in DOMAIN t
      PROVE  x + t[x] = e \/ x + t[x] \in DOMAIN t
  <2>1. CASE x = c + a
    <3>1. x + t[x] = c + sz[c]
      BY <1>1, <1>3, <2>1
    <3>2. QED
      BY <1>3, <3>1 DEF Tiling
  <2>2. CASE x = c
    BY <1>1, <1>3, <2>2 DEF Tiling
  <2>3. CASE x # c /\ x # c + a
    BY <1>3, <2>3 DEF Tiling
  <2>4. QED
    BY <2>1, <2>2, <2>3
<1>7. ASSUME NEW x \in DOMAIN t
      PROVE  x = lo \/ \E d \in DOMAIN t : d + t[d] = x
  <2>1. CASE x = c + a
    BY <1>3, <2>1
  <2>2. CASE x # c + a
    <3>1. x = lo \/ \E d \in DOMAIN sz : d + sz[d] = x
      BY <1>3, <2>2 DEF Tiling
    <3>2. ASSUME NEW d \in DOMAIN sz, d + sz[d] = x
          PROVE  \E y \in DOMAIN t : y + t[y] = x
      <4>1. CASE d = c
        <5>1. c + a + t[c + a] = x
          BY <1>1, <1>3, <3>2, <4>1
        <5>2. QED
          BY <1>3, <5>1
      <4>2. CASE d # c
        BY <1>3, <3>2, <4>2
      <4>3. QED
        BY <4>1, <4>2
    <3>3. QED
      BY <3>1, <3>2
  <2>3. QED
    BY <2>1, <2>2
<1>8. ASSUME NEW x \in DOMAIN t, NEW y \in DOMAIN t, x < y
      PROVE  x + t[x] <= y
  <2>1. \A d \in DOMAIN sz : /\ d \in Nat /\ sz[d] \in Nat
                             /\ c < d => c + sz[c] <= d
                             /\ d < c => d + sz[d] <= c
    BY DEF Tiling
  <2>2. CASE x = c + a
    BY <1>1, <1>3, <1>8, <2>1, <2>2
  <2>3. CASE x = c
    BY <1>1, <1>3, <1>8, <2>1, <2>3
  <2>4. CASE x # c /\ x # c + a /\ y = c + a
    BY <1>1, <1>3, <1>8, <2>1, <2>4
  <2>5. CASE x # c /\ x # c + a /\ y # c + a
    BY <1>3, <1>8, <2>5 DEF Tiling
  <2>6. QED
    BY <2>2, <2>3, <2>4, <2>5
<1>9. lo \in DOMAIN t
  BY <1>3 DEF Tiling
<1>10. QED
  BY <1>1, <1>4, <1>5, <1>6, <1>7, <1>8, <1>9 DEF t, Tiling

LEMMA MergeTiles ==
  ASSUME NEW lo, NEW e, NEW sz, Tiling(lo, e, sz), NEW c \in DOMAIN sz, c + sz[c] \in DOMAIN sz
  PROVE  Tiling(lo, e, JoinChunks(sz, c))
<1> DEFINE n == c + sz[c]
           t == JoinChunks(sz, c)
<1>1. /\ c \in Nat /\ sz[c] \in Nat /\ c % 8 = 0 /\ sz[c] % 8 = 0 /\ lo <= c /\ lo \in Nat /\ e \in Nat
      /\ n \in Nat /\ sz[n] \in Nat /\ sz[n] % 8 = 0 /\ sz[c] > 0 /\ sz[n] > 0 /\ n + sz[n] <= e
      /\ c < n /\ c < e
  BY TilingFacts DEF Tiling
<1>2. /\ DOMAIN t = DOMAIN sz \ {n} /\ t[c] = sz[c] + sz[n]
      /\ \A x \in DOMAIN sz : x # c /\ x # n => t[x] = sz[x]
  BY <1>1 DEF JoinChunks
<1>3. t = [x \in DOMAIN t |-> t[x]]
  BY DEF JoinChunks
<1> HIDE DEF t
<1>4. c \in DOMAIN t /\ c + t[c] = n + sz[n]
  BY <1>1, <1>2
<1>5. ASSUME NEW x \in DOMAIN t
      PROVE  /\ x \in Nat /\ x % 8 = 0 /\ lo <= x /\ x < e
             /\ t[x] \in Nat /\ t[x] % 8 = 0 /\ t[x] > 0
  <2>1. CASE x = c
    BY <1>1, <1>2, <2>1
  <2>2. CASE x # c
    BY <1>2, <2>2 DEF Tiling
  <2>3. QED
    BY <2>1, <2>2
<1>6. ASSUME NEW x \in DOMAIN t
      PROVE  x + t[x] = e \/ x + t[x] \in DOMAIN t
  <2>1. CASE x = c
    <3>1. n + sz[n] = e \/ n + sz[n] \in DOMAIN sz
      BY DEF Tiling
    <3>2. n + sz[n] # n
      BY <1>1
    <3>3. QED
      BY <1>2, <1>4, <2>1, <3>1, <3>2
  <2>2. CASE x # c
    <3>1. x \in DOMAIN sz /\ t[x] = sz[x]
      BY <1>2, <2>2
    <3>2. x + sz[x] # n
      BY <2>2, <3>1, TilingFacts
    <3>3. x + sz[x] = e \/ x + sz[x] \in DOMAIN sz
      BY <3>1 DEF Tiling
    <3>4. QED
      BY <1>2, <3>1, <3>2, <3>3
  <2>3. QED
    BY <2>1, <2>2
<1>7. ASSUME NEW x \in DOMAIN t
      PROVE  x = lo \/ \E d \in DOMAIN t : d + t[d] = x
  <2>1. x \in DOMAIN sz /\ x # n
    BY <1>2
  <2>2. x = lo \/ \E d \in DOMAIN sz : d + sz[d] = x
    BY <2>1 DEF Tiling
  <2>3. ASSUME NEW d \in DOMAIN sz, d + sz[d] = x
        PROVE  \E y \in DOMAIN t : y + t[y] = x
    <3>1. CASE d = n
      BY <1>4, <2>3, <3>1
    <3>2. CASE d # n
      <4>1. d # c
        BY <2>1, <2>3
      <4>2. QED
        BY <1>2, <2>3, <3>2, <4>1
    <3>3. QED
      BY <3>1, <3>2
  <2>4. QED
    BY <2>2, <2>3
<1>8. ASSUME NEW x \in DOMAIN t, NEW y \in DOMAIN t, x < y
      PROVE  x + t[x] <= y
  <2>1. x \in DOMAIN sz /\ y \in DOMAIN sz /\ y # n /\ x + sz[x] <= y
    BY <1>2, <1>8 DEF Tiling
  <2>2. CASE x = c
    <3>1. n < y
      <4>1. n <= y /\ n # y /\ y \in Nat
        BY <2>1, <2>2 DEF Tiling
      <4>2. QED
        BY <1>1, <4>1
    <3>2. n + sz[n] <= y
      BY <2>1, <3>1 DEF Tiling
    <3>3. QED
      BY <1>4, <2>2, <3>2
  <2>3. CASE x # c
    BY <1>2, <2>1, <2>3
  <2>4. QED
    BY <2>2, <2>3
<1>9. lo \in DOMAIN t
  <2>1. lo # n
    BY <1>1
  <2>2. QED
    BY <1>2, <2>1 DEF Tiling
<1>10. QED
  BY <1>1, <1>3, <1>5, <1>6, <1>7, <1>8, <1>9 DEF t, Tiling

-----------------------------------------------------------------------------
(* Heads.                                                                  *)

HeadRecords == [size : Nat, pinuse : BOOLEAN, cinuse : BOOLEAN]

(* No head is left of what was inside the chunk at p.                      *)
NoHeads(head, p, s) == \A x \in DOMAIN head : ~(p < x /\ x < p + s)

(* What pinuse says of p: there is nothing in front of it, or a chunk in   *)
(* use.                                                                    *)
PredUsed(lo, sz, U, p) == p = lo \/ \E d \in U : d + sz[d] = p

(* The heads and feet of the chunks of sz, of which U are in use and top   *)
(* ends at the fencepost e. Heads are where chunks begin and tell their    *)
(* sizes; cinuse of a chunk and pinuse of the next one agree; a free chunk *)
(* has a foot, is followed by one in use, and has MIN_CHUNK_SIZE bytes.    *)
(* The chunk at p may be a hole: it counts as in use, its head is being    *)
(* written, and nothing is known of what is inside. With p = e there is    *)
(* none.                                                                   *)
Heads(head, foot, lo, e, top, sz, U, p) ==
  /\ U \subseteq DOMAIN sz /\ top \in DOMAIN sz /\ top + sz[top] = e
  /\ top \in U => p = top
  /\ p \in DOMAIN sz => p \in U
  /\ \A x \in DOMAIN head : /\ x \in Nat
                            /\ \/ x \in DOMAIN sz \/ x = e
                               \/ p \in DOMAIN sz /\ p < x /\ x < p + sz[p]
  /\ \A c \in DOMAIN sz : c # p => /\ c \in DOMAIN head /\ head[c] \in HeadRecords
                                   /\ head[c].size = sz[c]
                                   /\ head[c].cinuse <=> c \in U
  /\ e \in DOMAIN head
  /\ head[e] = [size |-> TOP_FOOT_SIZE, pinuse |-> FALSE, cinuse |-> FALSE]
  /\ \A c \in DOMAIN sz : c # p /\ c # top /\ c + sz[c] # p
                            => (head[c + sz[c]].pinuse <=> c \in U)
  /\ lo # p => head[lo].pinuse
  /\ \A c \in DOMAIN sz \ U : c # top => /\ c + sz[c] \in U
                                         /\ c + sz[c] \in DOMAIN foot
                                         /\ foot[c + sz[c]] = sz[c]
  /\ \A c \in DOMAIN sz : c # p /\ c # top => sz[c] >= 16

LEMMA TilingArith ==
  ASSUME NEW lo, NEW e, NEW sz, Tiling(lo, e, sz)
  PROVE  /\ lo \in Nat /\ e \in Nat /\ e \notin DOMAIN sz /\ lo \in DOMAIN sz
         /\ \A c \in DOMAIN sz : /\ c \in Nat /\ sz[c] \in Nat /\ sz[c] > 0
                                 /\ lo <= c /\ c < e /\ c + sz[c] <= e
                                 /\ c + sz[c] \in DOMAIN sz \/ c + sz[c] = e
         /\ \A c \in DOMAIN sz, d \in DOMAIN sz : /\ c < d => c + sz[c] <= d
                                                  /\ c + sz[c] = d + sz[d] => c = d
BY TilingFacts DEF Tiling

LEMMA OpenUsed ==
  ASSUME NEW head, NEW foot, NEW lo, NEW e, NEW top, NEW sz, NEW U, Tiling(lo, e, sz),
         Heads(head, foot, lo, e, top, sz, U, e), NEW p \in U
  PROVE  Heads(head, foot, lo, e, top, sz, U, p)
BY TilingArith DEF Heads

LEMMA OpenFree ==
  ASSUME NEW head, NEW foot, NEW lo, NEW e, NEW top, NEW sz, NEW U, Tiling(lo, e, sz),
         Heads(head, foot, lo, e, top, sz, U, e), NEW p \in DOMAIN sz \ U
  PROVE  Heads(head, foot, lo, e, top, sz, U \cup {p}, p)
BY TilingArith DEF Heads

(* What a write inside the chunk at p, or to PINUSE_BIT behind it, leaves. *)
Writes(head, foot, head2, foot2, e, p, s) ==
  /\ \A x \in DOMAIN head2 : x \in Nat /\ (x \in DOMAIN head \/ (p <= x /\ x < p + s))
  /\ \A x \in DOMAIN head : x < p \/ x > p + s => x \in DOMAIN head2 /\ head2[x] = head[x]
  /\ p + s \in DOMAIN head => /\ p + s \in DOMAIN head2
                              /\ head2[p + s] \in HeadRecords
                              /\ head2[p + s].size = head[p + s].size
                              /\ head2[p + s].cinuse = head[p + s].cinuse
                              /\ p + s = e => head2[e] = head[e]
  /\ \A x \in DOMAIN foot : x <= p \/ x > p + s => x \in DOMAIN foot2 /\ foot2[x] = foot[x]

LEMMA HoleFrame ==
  ASSUME NEW head, NEW foot, NEW lo, NEW e, NEW top, NEW sz, NEW U, Tiling(lo, e, sz),
         NEW p \in DOMAIN sz, Heads(head, foot, lo, e, top, sz, U, p),
         NEW head2, NEW foot2, Writes(head, foot, head2, foot2, e, p, sz[p])
  PROVE  Heads(head2, foot2, lo, e, top, sz, U, p)
<1>1. /\ lo \in Nat /\ e \in Nat /\ e \notin DOMAIN sz /\ lo \in DOMAIN sz
      /\ \A c \in DOMAIN sz : /\ c \in Nat /\ sz[c] \in Nat /\ sz[c] > 0
                              /\ lo <= c /\ c < e /\ c + sz[c] <= e
                              /\ c + sz[c] \in DOMAIN sz \/ c + sz[c] = e
      /\ \A c \in DOMAIN sz, d \in DOMAIN sz : /\ c < d => c + sz[c] <= d
                                               /\ c + sz[c] = d + sz[d] => c = d
  BY TilingArith
<1>2. \A c \in DOMAIN sz : c # p => c < p \/ c > p + sz[p] \/ c = p + sz[p]
  BY <1>1
<1>3. ASSUME NEW c \in DOMAIN sz, c # p
      PROVE  /\ c \in DOMAIN head2 /\ head2[c] \in HeadRecords
             /\ head2[c].size = sz[c]
             /\ head2[c].cinuse <=> c \in U
             /\ c # p + sz[p] => head2[c] = head[c]
  BY <1>2, <1>3 DEF Heads, Writes
<1>4. e \in DOMAIN head2 /\ head2[e] = head[e]
  BY <1>1 DEF Heads, Writes
<1>5. ASSUME NEW x \in DOMAIN head2
      PROVE  /\ x \in Nat
             /\ x \in DOMAIN sz \/ x = e \/ (p \in DOMAIN sz /\ p < x /\ x < p + sz[p])
  BY <1>1 DEF Heads, Writes
<1>6. ASSUME NEW c \in DOMAIN sz, c # p, c # top, c + sz[c] # p
      PROVE  head2[c + sz[c]].pinuse <=> c \in U
  <2>1. c + sz[c] # p + sz[p]
    BY <1>1, <1>6
  <2>2. CASE c + sz[c] = e
    BY <1>4, <1>6, <2>2 DEF Heads
  <2>3. CASE c + sz[c] \in DOMAIN sz
    BY <1>3, <1>6, <2>1, <2>3 DEF Heads
  <2>4. QED
    BY <1>1, <2>2, <2>3
<1>7. lo # p => head2[lo].pinuse
  <2>1. lo # p + sz[p]
    BY <1>1
  <2>2. QED
    BY <1>1, <1>3, <2>1 DEF Heads
<1>8. ASSUME NEW c \in DOMAIN sz \ U, c # top
      PROVE  /\ c + sz[c] \in U
             /\ c + sz[c] \in DOMAIN foot2 /\ foot2[c + sz[c]] = sz[c]
  <2>1. c # p /\ c + sz[c] \in U /\ c + sz[c] \in DOMAIN foot /\ foot[c + sz[c]] = sz[c] /\ c + sz[c] \in DOMAIN sz
    BY <1>8 DEF Heads
  <2>2. c + sz[c] <= p \/ c + sz[c] > p + sz[p]
    BY <1>1, <2>1
  <2>3. QED
    BY <2>1, <2>2 DEF Writes
<1>9. QED
  BY <1>3, <1>4, <1>5, <1>6, <1>7, <1>8 DEF Heads

(* A hole joins the chunk behind it, or the one in front, or moves on over *)
(* a first part that is done; at last it is closed, as a chunk in use, as  *)
(* a free one or as top.                                                   *)
LEMMA JoinedSizes ==
  ASSUME NEW lo, NEW e, NEW sz, Tiling(lo, e, sz), NEW p \in DOMAIN sz,
         NEW n \in DOMAIN sz, p + sz[p] = n
  PROVE  LET t == JoinChunks(sz, p)
         IN  /\ DOMAIN t = DOMAIN sz \ {n} /\ t[p] = sz[p] + sz[n] /\ p + t[p] = n + sz[n]
             /\ p \in DOMAIN t /\ n # p
             /\ \A c \in DOMAIN sz : c # p /\ c # n => t[c] = sz[c]
<1>1. n # p /\ p \in Nat /\ sz[p] \in Nat /\ sz[n] \in Nat
  BY TilingArith
<1>2. QED
  BY <1>1 DEF JoinChunks

LEMMA CutSizes ==
  ASSUME NEW lo, NEW e, NEW sz, Tiling(lo, e, sz), NEW p \in DOMAIN sz,
         NEW a \in Nat, 0 < a, a < sz[p], NEW r, r = p + a
  PROVE  LET t == CutChunk(sz, p, a)
         IN  /\ DOMAIN t = DOMAIN sz \cup {r} /\ t[p] = a /\ t[r] = sz[p] - a
             /\ r + t[r] = p + sz[p]
             /\ r \notin DOMAIN sz /\ r # p /\ r # e
             /\ \A c \in DOMAIN sz : c # p => t[c] = sz[c]
<1>1. p \in Nat /\ sz[p] \in Nat /\ e \in Nat /\ r \notin DOMAIN sz /\ r # p /\ r # e
  <2>1. p \in Nat /\ sz[p] \in Nat /\ e \in Nat /\ p + sz[p] <= e
    BY TilingArith
  <2>2. \A d \in DOMAIN sz : ~(p < d /\ d < p + sz[p])
    BY TilingFacts
  <2>3. QED
    BY <2>1, <2>2
<1>2. QED
  BY <1>1 DEF CutChunk

LEMMA MergeNext ==
  ASSUME NEW head, NEW foot, NEW lo, NEW e, NEW top, NEW sz, NEW U, Tiling(lo, e, sz),
         NEW p \in DOMAIN sz, Heads(head, foot, lo, e, top, sz, U, p),
         NEW n \in DOMAIN sz, p + sz[p] = n
  PROVE  Heads(head, foot, lo, e, IF n = top THEN p ELSE top, JoinChunks(sz, p), U \ {n}, p)
<1> DEFINE t == JoinChunks(sz, p)
           V == U \ {n}
           top2 == IF n = top THEN p ELSE top
<1> SUFFICES Heads(head, foot, lo, e, top2, t, V, p)
  OBVIOUS
<1>1. /\ lo \in Nat /\ e \in Nat /\ e \notin DOMAIN sz /\ lo \in DOMAIN sz
      /\ \A c \in DOMAIN sz : /\ c \in Nat /\ sz[c] \in Nat /\ sz[c] > 0
                              /\ lo <= c /\ c < e /\ c + sz[c] <= e
                              /\ c + sz[c] \in DOMAIN sz \/ c + sz[c] = e
      /\ \A c \in DOMAIN sz, d \in DOMAIN sz : /\ c < d => c + sz[c] <= d
                                               /\ c + sz[c] = d + sz[d] => c = d
  BY TilingArith
<1>2. /\ DOMAIN t = DOMAIN sz \ {n} /\ t[p] = sz[p] + sz[n] /\ p + t[p] = n + sz[n]
      /\ p \in DOMAIN t /\ n # p
      /\ \A c \in DOMAIN sz : c # p /\ c # n => t[c] = sz[c]
  BY JoinedSizes
<1> HIDE DEF t
<1>3. /\ U \subseteq DOMAIN sz /\ top \in DOMAIN sz /\ top + sz[top] = e
      /\ p \in U /\ (top \in U => p = top) /\ p # top
  BY <1>1 DEF Heads
<1>4. /\ V \subseteq DOMAIN t /\ top2 \in DOMAIN t /\ top2 + t[top2] = e
      /\ (top2 \in V => p = top2) /\ p \in V
  BY <1>2, <1>3
<1> HIDE DEF V, top2
<1>5. ASSUME NEW x \in DOMAIN head
      PROVE  /\ x \in Nat
             /\ x \in DOMAIN t \/ x = e \/ (p \in DOMAIN t /\ p < x /\ x < p + t[p])
  <2>1. x \in Nat /\ (x \in DOMAIN sz \/ x = e \/ (p < x /\ x < p + sz[p]))
    BY DEF Heads
  <2>2. p < n /\ n < n + sz[n] /\ p \in Nat /\ n \in Nat /\ sz[n] \in Nat
    BY <1>1
  <2>3. QED
    BY <1>2, <2>1, <2>2
<1>6. ASSUME NEW c \in DOMAIN t, c # p
      PROVE  /\ c \in DOMAIN head /\ head[c] \in HeadRecords /\ head[c].size = t[c]
             /\ head[c].cinuse <=> c \in V
  BY <1>2, <1>6 DEF Heads, V
<1>7. ASSUME NEW c \in DOMAIN t, c # p, c # top2, c + t[c] # p
      PROVE  head[c + t[c]].pinuse <=> c \in V
  <2>1. c \in DOMAIN sz /\ c # n /\ t[c] = sz[c] /\ c # top
    BY <1>2, <1>3, <1>7 DEF V, top2
  <2>2. QED
    BY <1>7, <2>1 DEF Heads, V
<1>8. ASSUME NEW c \in DOMAIN t \ V, c # top2
      PROVE  /\ c + t[c] \in V /\ c + t[c] \in DOMAIN foot /\ foot[c + t[c]] = t[c]
  <2>1. c \in DOMAIN sz /\ c # n /\ c # p /\ t[c] = sz[c] /\ c # top /\ c \notin U
    BY <1>2, <1>3, <1>8 DEF V, top2
  <2>2. c + sz[c] # n
    BY <1>1, <2>1
  <2>3. QED
    BY <2>1, <2>2 DEF Heads, V
<1>9. ASSUME NEW c \in DOMAIN t, c # p, c # top2
      PROVE  t[c] >= 16
  BY <1>2, <1>9 DEF Heads, top2
<1>10. e \in DOMAIN head /\ head[e] = [size |-> TOP_FOOT_SIZE, pinuse |-> FALSE, cinuse |-> FALSE]
       /\ (lo # p => head[lo].pinuse)
  BY DEF Heads
<1>11. QED
  BY <1>4, <1>5, <1>6, <1>7, <1>8, <1>9, <1>10 DEF Heads

LEMMA MergePrev ==
  ASSUME NEW head, NEW foot, NEW lo, NEW e, NEW top, NEW sz, NEW U, Tiling(lo, e, sz),
         NEW p \in DOMAIN sz, Heads(head, foot, lo, e, top, sz, U, p),
         NEW q \in DOMAIN sz \ U, q + sz[q] = p
  PROVE  Heads(head, foot, lo, e, IF p = top THEN q ELSE top,
               JoinChunks(sz, q), (U \ {p}) \cup {q}, q)
<1> DEFINE t == JoinChunks(sz, q)
           V == (U \ {p}) \cup {q}
           top2 == IF p = top THEN q ELSE top
<1> SUFFICES Heads(head, foot, lo, e, top2, t, V, q)
  OBVIOUS
<1>1. /\ lo \in Nat /\ e \in Nat /\ e \notin DOMAIN sz /\ lo \in DOMAIN sz
      /\ \A c \in DOMAIN sz : /\ c \in Nat /\ sz[c] \in Nat /\ sz[c] > 0
                              /\ lo <= c /\ c < e /\ c + sz[c] <= e
                              /\ c + sz[c] \in DOMAIN sz \/ c + sz[c] = e
      /\ \A c \in DOMAIN sz, d \in DOMAIN sz : /\ c < d => c + sz[c] <= d
                                               /\ c + sz[c] = d + sz[d] => c = d
  BY TilingArith
<1>2. /\ DOMAIN t = DOMAIN sz \ {p} /\ t[q] = sz[q] + sz[p] /\ q + t[q] = p + sz[p]
      /\ q \in DOMAIN t /\ p # q
      /\ \A c \in DOMAIN sz : c # q /\ c # p => t[c] = sz[c]
  BY JoinedSizes
<1> HIDE DEF t
<1>3. /\ U \subseteq DOMAIN sz /\ top \in DOMAIN sz /\ top + sz[top] = e
      /\ p \in U /\ (top \in U => p = top) /\ q # top
  BY <1>1 DEF Heads
<1>4. /\ V \subseteq DOMAIN t /\ top2 \in DOMAIN t /\ top2 + t[top2] = e
      /\ (top2 \in V => q = top2) /\ q \in V
  BY <1>2, <1>3
<1> HIDE DEF V, top2
<1>5. ASSUME NEW x \in DOMAIN head
      PROVE  /\ x \in Nat
             /\ x \in DOMAIN t \/ x = e \/ (q \in DOMAIN t /\ q < x /\ x < q + t[q])
  <2>1. x \in Nat /\ (x \in DOMAIN sz \/ x = e \/ (p < x /\ x < p + sz[p]))
    BY DEF Heads
  <2>2. q < p /\ p < p + sz[p] /\ p \in Nat /\ q \in Nat /\ sz[p] \in Nat
    BY <1>1
  <2>3. QED
    BY <1>2, <2>1, <2>2
<1>6. ASSUME NEW c \in DOMAIN t, c # q
      PROVE  /\ c \in DOMAIN head /\ head[c] \in HeadRecords /\ head[c].size = t[c]
             /\ head[c].cinuse <=> c \in V
  BY <1>2, <1>6 DEF Heads, V
<1>7. ASSUME NEW c \in DOMAIN t, c # q, c # top2, c + t[c] # q
      PROVE  head[c + t[c]].pinuse <=> c \in V
  <2>1. c \in DOMAIN sz /\ c # p /\ t[c] = sz[c] /\ c # top
    BY <1>2, <1>3, <1>7 DEF V, top2
  <2>2. c + sz[c] # p
    BY <1>1, <1>7, <2>1
  <2>3. QED
    BY <1>7, <2>1, <2>2 DEF Heads, V
<1>8. ASSUME NEW c \in DOMAIN t \ V, c # top2
      PROVE  /\ c + t[c] \in V /\ c + t[c] \in DOMAIN foot /\ foot[c + t[c]] = t[c]
  <2>1. c \in DOMAIN sz /\ c # p /\ c # q /\ t[c] = sz[c] /\ c # top /\ c \notin U
    BY <1>2, <1>3, <1>8 DEF V, top2
  <2>2. c + sz[c] # p
    BY <1>1, <2>1
  <2>3. QED
    BY <2>1, <2>2 DEF Heads, V
<1>9. ASSUME NEW c \in DOMAIN t, c # q, c # top2
      PROVE  t[c] >= 16
  BY <1>2, <1>9 DEF Heads, top2
<1>10. e \in DOMAIN head /\ head[e] = [size |-> TOP_FOOT_SIZE, pinuse |-> FALSE, cinuse |-> FALSE]
       /\ (lo # q => head[lo].pinuse)
  <2>1. lo # p
    BY <1>1
  <2>2. QED
    BY <2>1 DEF Heads
<1>11. QED
  BY <1>4, <1>5, <1>6, <1>7, <1>8, <1>9, <1>10 DEF Heads

LEMMA AdvanceHole ==
  ASSUME NEW head, NEW foot, NEW lo, NEW e, NEW top, NEW sz, NEW U, Tiling(lo, e, sz),
         NEW p \in DOMAIN sz, Heads(head, foot, lo, e, top, sz, U, p),
         NEW a \in Nat, 16 <= a, a < sz[p],
         p \in DOMAIN head, head[p] \in HeadRecords, head[p].size = a, head[p].cinuse,
         head[p].pinuse <=> PredUsed(lo, sz, U, p),
         NoHeads(head, p, a), NEW r, r = p + a
  PROVE  Heads(head, foot, lo, e, IF p = top THEN r ELSE top,
               CutChunk(sz, p, a), U \cup {r}, r)
<1> DEFINE t == CutChunk(sz, p, a)
           V == U \cup {r}
           top2 == IF p = top THEN r ELSE top
<1> SUFFICES Heads(head, foot, lo, e, top2, t, V, r)
  OBVIOUS
<1>1. /\ lo \in Nat /\ e \in Nat /\ e \notin DOMAIN sz /\ lo \in DOMAIN sz
      /\ \A c \in DOMAIN sz : /\ c \in Nat /\ sz[c] \in Nat /\ sz[c] > 0
                              /\ lo <= c /\ c < e /\ c + sz[c] <= e
                              /\ c + sz[c] \in DOMAIN sz \/ c + sz[c] = e
      /\ \A c \in DOMAIN sz, d \in DOMAIN sz : /\ c < d => c + sz[c] <= d
                                               /\ c + sz[c] = d + sz[d] => c = d
  BY TilingArith
<1>2. /\ DOMAIN t = DOMAIN sz \cup {r} /\ t[p] = a /\ t[r] = sz[p] - a
      /\ r + t[r] = p + sz[p]
      /\ r \notin DOMAIN sz /\ r # p /\ r # e
      /\ \A c \in DOMAIN sz : c # p => t[c] = sz[c]
  BY CutSizes
<1> HIDE DEF t
<1>3. /\ U \subseteq DOMAIN sz /\ top \in DOMAIN sz /\ top + sz[top] = e
      /\ p \in U /\ (top \in U => p = top)
  BY <1>1 DEF Heads
<1>4. /\ V \subseteq DOMAIN t /\ top2 \in DOMAIN t /\ top2 + t[top2] = e
      /\ (top2 \in V => r = top2) /\ r \in V
  BY <1>2, <1>3
<1> HIDE DEF V, top2
<1>5. ASSUME NEW x \in DOMAIN head
      PROVE  /\ x \in Nat
             /\ x \in DOMAIN t \/ x = e \/ (r \in DOMAIN t /\ r < x /\ x < r + t[r])
  <2>1. x \in Nat /\ (x \in DOMAIN sz \/ x = e \/ (p < x /\ x < p + sz[p]))
    BY DEF Heads
  <2>2. ~(p < x /\ x < r)
    BY DEF NoHeads
  <2>3. p \in Nat /\ r \in Nat /\ sz[p] \in Nat
    BY <1>1
  <2>4. QED
    BY <1>2, <2>1, <2>2, <2>3
<1>6. ASSUME NEW c \in DOMAIN t, c # r
      PROVE  /\ c \in DOMAIN head /\ head[c] \in HeadRecords /\ head[c].size = t[c]
             /\ head[c].cinuse <=> c \in V
  <2>1. CASE c = p
    BY <1>2, <1>3, <1>6, <2>1 DEF V
  <2>2. CASE c # p
    BY <1>2, <1>6, <2>2 DEF Heads, V
  <2>3. QED
    BY <2>1, <2>2
<1>7. ASSUME NEW c \in DOMAIN t, c # r, c # top2, c + t[c] # r
      PROVE  head[c + t[c]].pinuse <=> c \in V
  <2>1. c \in DOMAIN sz /\ c # p /\ t[c] = sz[c] /\ c # top
    BY <1>2, <1>3, <1>7 DEF V, top2
  <2>2. CASE c + sz[c] = p
    <3>1. PredUsed(lo, sz, U, p) <=> c \in U
      BY <1>1, <1>3, <2>1, <2>2 DEF PredUsed
    <3>2. QED
      BY <1>7, <2>1, <2>2, <3>1 DEF V
  <2>3. CASE c + sz[c] # p
    BY <1>7, <2>1, <2>3 DEF Heads, V
  <2>4. QED
    BY <2>2, <2>3
<1>8. ASSUME NEW c \in DOMAIN t \ V, c # top2
      PROVE  /\ c + t[c] \in V /\ c + t[c] \in DOMAIN foot /\ foot[c + t[c]] = t[c]
  <2>1. c \in DOMAIN sz /\ c # p /\ t[c] = sz[c] /\ c # top /\ c \notin U
    BY <1>2, <1>3, <1>8 DEF V, top2
  <2>3. QED
    BY <2>1 DEF Heads, V
<1>9. ASSUME NEW c \in DOMAIN t, c # r, c # top2
      PROVE  t[c] >= 16
  <2>1. CASE c = p
    BY <1>2, <1>9, <2>1
  <2>2. CASE c # p
    BY <1>2, <1>3, <1>9, <2>2 DEF Heads, top2
  <2>3. QED
    BY <2>1, <2>2
<1>10. e \in DOMAIN head /\ head[e] = [size |-> TOP_FOOT_SIZE, pinuse |-> FALSE, cinuse |-> FALSE]
       /\ (lo # r => head[lo].pinuse)
  <2>1. lo = p => PredUsed(lo, sz, U, p)
    BY DEF PredUsed
  <2>2. QED
    BY <2>1 DEF Heads
<1>11. QED
  BY <1>4, <1>5, <1>6, <1>7, <1>8, <1>9, <1>10 DEF Heads
LEMMA CloseUsed ==
  ASSUME NEW head, NEW foot, NEW lo, NEW e, NEW top, NEW sz, NEW U, Tiling(lo, e, sz),
         NEW p \in DOMAIN sz, Heads(head, foot, lo, e, top, sz, U, p), p # top, sz[p] >= 16,
         p \in DOMAIN head, head[p] \in HeadRecords, head[p].size = sz[p], head[p].cinuse,
         head[p].pinuse <=> PredUsed(lo, sz, U, p),
         NoHeads(head, p, sz[p]), head[p + sz[p]].pinuse
  PROVE  Heads(head, foot, lo, e, top, sz, U, e)
<1>1. /\ lo \in Nat /\ e \in Nat /\ e \notin DOMAIN sz /\ lo \in DOMAIN sz
      /\ \A c \in DOMAIN sz : /\ c \in Nat /\ sz[c] \in Nat /\ sz[c] > 0
                              /\ lo <= c /\ c < e /\ c + sz[c] <= e
                              /\ c + sz[c] \in DOMAIN sz \/ c + sz[c] = e
      /\ \A c \in DOMAIN sz, d \in DOMAIN sz : /\ c < d => c + sz[c] <= d
                                               /\ c + sz[c] = d + sz[d] => c = d
  BY TilingArith
<1>2. /\ U \subseteq DOMAIN sz /\ top \in DOMAIN sz /\ top + sz[top] = e
      /\ p \in U /\ top \notin U
  BY DEF Heads
<1>3. ASSUME NEW x \in DOMAIN head
      PROVE  x \in Nat /\ (x \in DOMAIN sz \/ x = e)
  BY DEF Heads, NoHeads
<1>4. ASSUME NEW c \in DOMAIN sz
      PROVE  /\ c \in DOMAIN head /\ head[c] \in HeadRecords /\ head[c].size = sz[c]
             /\ head[c].cinuse <=> c \in U
             /\ c # top => sz[c] >= 16
  BY <1>2 DEF Heads
<1>5. ASSUME NEW c \in DOMAIN sz, c # top
      PROVE  head[c + sz[c]].pinuse <=> c \in U
  <2>1. CASE c = p
    BY <1>2, <2>1
  <2>2. CASE c + sz[c] = p
    <3>1. PredUsed(lo, sz, U, p) <=> c \in U
      BY <1>1, <1>2, <2>2 DEF PredUsed
    <3>2. QED
      BY <2>2, <3>1
  <2>3. CASE c # p /\ c + sz[c] # p
    BY <1>5, <2>3 DEF Heads
  <2>4. QED
    BY <2>1, <2>2, <2>3
<1>6. head[lo].pinuse
  BY DEF Heads, PredUsed
<1>7. /\ e \in DOMAIN head
      /\ head[e] = [size |-> TOP_FOOT_SIZE, pinuse |-> FALSE, cinuse |-> FALSE]
      /\ \A c \in DOMAIN sz \ U : c # top => /\ c + sz[c] \in U
                                             /\ c + sz[c] \in DOMAIN foot
                                             /\ foot[c + sz[c]] = sz[c]
  BY DEF Heads
<1>8. QED
  BY <1>1, <1>2, <1>3, <1>4, <1>5, <1>6, <1>7 DEF Heads

LEMMA CloseFree ==
  ASSUME NEW head, NEW foot, NEW lo, NEW e, NEW top, NEW sz, NEW U, Tiling(lo, e, sz),
         NEW p \in DOMAIN sz, Heads(head, foot, lo, e, top, sz, U, p), sz[p] >= 16,
         p \in DOMAIN head, head[p] \in HeadRecords, head[p].size = sz[p], ~head[p].cinuse,
         head[p].pinuse, PredUsed(lo, sz, U, p), NoHeads(head, p, sz[p]),
         p + sz[p] \in U, ~head[p + sz[p]].pinuse,
         p + sz[p] \in DOMAIN foot, foot[p + sz[p]] = sz[p]
  PROVE  Heads(head, foot, lo, e, top, sz, U \ {p}, e)
<1> DEFINE V == U \ {p}
<1> SUFFICES Heads(head, foot, lo, e, top, sz, V, e)
  OBVIOUS
<1>1. /\ lo \in Nat /\ e \in Nat /\ e \notin DOMAIN sz /\ lo \in DOMAIN sz
      /\ \A c \in DOMAIN sz : /\ c \in Nat /\ sz[c] \in Nat /\ sz[c] > 0
                              /\ lo <= c /\ c < e /\ c + sz[c] <= e
                              /\ c + sz[c] \in DOMAIN sz \/ c + sz[c] = e
      /\ \A c \in DOMAIN sz, d \in DOMAIN sz : /\ c < d => c + sz[c] <= d
                                               /\ c + sz[c] = d + sz[d] => c = d
  BY TilingArith
<1>2. /\ U \subseteq DOMAIN sz /\ top \in DOMAIN sz /\ top + sz[top] = e
      /\ p \in U /\ p # top /\ top \notin U /\ V \subseteq DOMAIN sz /\ top \notin V
  BY <1>1 DEF Heads
<1>3. ASSUME NEW x \in DOMAIN head
      PROVE  x \in Nat /\ (x \in DOMAIN sz \/ x = e)
  BY DEF Heads, NoHeads
<1>4. ASSUME NEW c \in DOMAIN sz
      PROVE  /\ c \in DOMAIN head /\ head[c] \in HeadRecords /\ head[c].size = sz[c]
             /\ head[c].cinuse <=> c \in V
             /\ c # top => sz[c] >= 16
  BY <1>2 DEF Heads
<1>5. ASSUME NEW c \in DOMAIN sz, c + sz[c] = p
      PROVE  c \in U
  BY <1>1, <1>2, <1>5 DEF PredUsed
<1>6. ASSUME NEW c \in DOMAIN sz, c # top
      PROVE  head[c + sz[c]].pinuse <=> c \in V
  <2>1. CASE c = p
    BY <2>1
  <2>2. CASE c + sz[c] = p
    <3>1. c \in U /\ c # p
      BY <1>1, <1>5, <2>2
    <3>2. QED
      BY <2>2, <3>1
  <2>3. CASE c # p /\ c + sz[c] # p
    BY <1>6, <2>3 DEF Heads
  <2>4. QED
    BY <2>1, <2>2, <2>3
<1>7. head[lo].pinuse
  BY DEF Heads
<1>8. ASSUME NEW c \in DOMAIN sz \ V, c # top
      PROVE  /\ c + sz[c] \in V /\ c + sz[c] \in DOMAIN foot /\ foot[c + sz[c]] = sz[c]
  <2>1. CASE c = p
    BY <1>1, <2>1
  <2>2. CASE c # p
    <3>1. c \in DOMAIN sz \ U /\ c + sz[c] # p
      BY <1>5, <2>2
    <3>2. QED
      BY <1>8, <3>1 DEF Heads
  <2>3. QED
    BY <2>1, <2>2
<1>9. /\ e \in DOMAIN head
      /\ head[e] = [size |-> TOP_FOOT_SIZE, pinuse |-> FALSE, cinuse |-> FALSE]
  BY DEF Heads
<1> HIDE DEF V
<1>10. QED
  BY <1>1, <1>2, <1>3, <1>4, <1>6, <1>7, <1>8, <1>9 DEF Heads

LEMMA CloseTop ==
  ASSUME NEW head, NEW foot, NEW lo, NEW e, NEW top, NEW sz, NEW U, Tiling(lo, e, sz),
         top \in DOMAIN sz, Heads(head, foot, lo, e, top, sz, U, top),
         top \in DOMAIN head, head[top] \in HeadRecords, head[top].size = sz[top],
         ~head[top].cinuse, head[top].pinuse,
         PredUsed(lo, sz, U, top), NoHeads(head, top, sz[top])
  PROVE  Heads(head, foot, lo, e, top, sz, U \ {top}, e)
<1> DEFINE V == U \ {top}
<1> SUFFICES Heads(head, foot, lo, e, top, sz, V, e)
  OBVIOUS
<1>1. /\ lo \in Nat /\ e \in Nat /\ e \notin DOMAIN sz /\ lo \in DOMAIN sz
      /\ \A c \in DOMAIN sz : /\ c \in Nat /\ sz[c] \in Nat /\ sz[c] > 0
                              /\ lo <= c /\ c < e /\ c + sz[c] <= e
                              /\ c + sz[c] \in DOMAIN sz \/ c + sz[c] = e
      /\ \A c \in DOMAIN sz, d \in DOMAIN sz : /\ c < d => c + sz[c] <= d
                                               /\ c + sz[c] = d + sz[d] => c = d
  BY TilingArith
<1>2. /\ U \subseteq DOMAIN sz /\ top \in DOMAIN sz /\ top + sz[top] = e
      /\ V \subseteq DOMAIN sz /\ top \notin V
  BY <1>1 DEF Heads
<1>3. ASSUME NEW x \in DOMAIN head
      PROVE  x \in Nat /\ (x \in DOMAIN sz \/ x = e)
  BY DEF Heads, NoHeads
<1>4. ASSUME NEW c \in DOMAIN sz
      PROVE  /\ c \in DOMAIN head /\ head[c] \in HeadRecords /\ head[c].size = sz[c]
             /\ head[c].cinuse <=> c \in V
             /\ c # top => sz[c] >= 16
  BY <1>2 DEF Heads
<1>5. ASSUME NEW c \in DOMAIN sz, c + sz[c] = top
      PROVE  c \in U
  BY <1>1, <1>2, <1>5 DEF PredUsed
<1>6. ASSUME NEW c \in DOMAIN sz, c # top
      PROVE  head[c + sz[c]].pinuse <=> c \in V
  <2>1. CASE c + sz[c] = top
    BY <1>5, <1>6, <2>1
  <2>2. CASE c + sz[c] # top
    BY <1>6, <2>2 DEF Heads
  <2>3. QED
    BY <2>1, <2>2
<1>7. head[lo].pinuse
  BY DEF Heads
<1>8. ASSUME NEW c \in DOMAIN sz \ V, c # top
      PROVE  /\ c + sz[c] \in V /\ c + sz[c] \in DOMAIN foot /\ foot[c + sz[c]] = sz[c]
  <2>1. c \in DOMAIN sz \ U /\ c + sz[c] # top
    BY <1>5, <1>8
  <2>2. QED
    BY <1>8, <2>1 DEF Heads
<1>9. /\ e \in DOMAIN head
      /\ head[e] = [size |-> TOP_FOOT_SIZE, pinuse |-> FALSE, cinuse |-> FALSE]
  BY DEF Heads
<1> HIDE DEF V
<1>10. QED
  BY <1>1, <1>2, <1>3, <1>4, <1>6, <1>7, <1>8, <1>9 DEF Heads

LEMMA RemoveAtIs ==
  ASSUME NEW S, NEW q \in Seq(S), NEW i \in 1 .. Len(q)
  PROVE  /\ RemoveAt(q, i) \in Seq(S) /\ Len(RemoveAt(q, i)) = Len(q) - 1
         /\ \A j \in 1 .. Len(q) - 1 : RemoveAt(q, i)[j] = IF j < i THEN q[j] ELSE q[j + 1]
<1> DEFINE a == SubSeq(q, 1, i - 1)
           b == SubSeq(q, i + 1, Len(q))
<1>1. Len(q) \in Nat /\ \A j \in 1 .. Len(q) : q[j] \in S
  BY ElementOfSeq, LenProperties
<1>2. i - 1 \in Int /\ \A j \in 1 .. i - 1 : q[j] \in S
  BY <1>1
<1>3. /\ a \in Seq(S) /\ Len(a) = (IF 1 <= i - 1 THEN i - 1 - 1 + 1 ELSE 0)
      /\ \A j \in 1 .. i - 1 - 1 + 1 : a[j] = q[1 + j - 1]
  BY <1>2, SubSeqProperties
<1>4. /\ i + 1 \in Int /\ Len(q) \in Int /\ \A j \in i + 1 .. Len(q) : q[j] \in S
  BY <1>1
<1>5. /\ b \in Seq(S) /\ Len(b) = (IF i + 1 <= Len(q) THEN Len(q) - (i + 1) + 1 ELSE 0)
      /\ \A j \in 1 .. Len(q) - (i + 1) + 1 : b[j] = q[i + 1 + j - 1]
  BY <1>4, SubSeqProperties
<1>6. RemoveAt(q, i) = a \o b
  BY DEF RemoveAt
<1> HIDE DEF a, b
<1>7. /\ a \o b \in Seq(S) /\ Len(a \o b) = Len(a) + Len(b)
      /\ \A j \in 1 .. Len(a) + Len(b) : (a \o b)[j] = IF j <= Len(a) THEN a[j] ELSE b[j - Len(a)]
  BY <1>3, <1>5, ConcatProperties
<1>8. Len(a) = i - 1 /\ Len(b) = Len(q) - i
  BY <1>1, <1>3, <1>5
<1>9. ASSUME NEW j \in 1 .. Len(q) - 1
      PROVE  (a \o b)[j] = IF j < i THEN q[j] ELSE q[j + 1]
  <2>1. CASE j < i
    <3>1. j \in 1 .. i - 1 - 1 + 1 /\ j <= Len(a) /\ j \in 1 .. Len(a) + Len(b) /\ 1 + j - 1 = j
      BY <1>1, <1>8, <2>1
    <3>2. a[j] = q[j]
      BY <1>3, <3>1
    <3>3. QED
      BY <1>7, <2>1, <3>1, <3>2
  <2>2. CASE ~(j < i)
    <3> DEFINE k == j - Len(a)
    <3>1. /\ k \in 1 .. Len(q) - (i + 1) + 1 /\ ~(j <= Len(a)) /\ j \in 1 .. Len(a) + Len(b)
          /\ i + 1 + k - 1 = j + 1
      BY <1>1, <1>8, <2>2
    <3>2. b[k] = q[j + 1]
      BY <1>5, <3>1
    <3>3. QED
      BY <1>7, <2>2, <3>1, <3>2
  <2>3. QED
    BY <2>1, <2>2
<1>10. RemoveAt(q, i) \in Seq(S) /\ Len(RemoveAt(q, i)) = Len(q) - 1
  BY <1>1, <1>6, <1>7, <1>8
<1>11. QED
  BY <1>6, <1>9, <1>10

LEMMA SequenceOf ==
  ASSUME NEW S, NEW T, NEW q \in Seq(S), \A i \in 1 .. Len(q) : q[i] \in T
  PROVE  q \in Seq(T)
<1>1. Len(q) \in Int
  BY LenProperties
<1>2. SubSeq(q, 1, Len(q)) \in Seq(T)
  BY <1>1, SubSeqProperties
<1>3. QED
  BY <1>2, SubSeqFull

-----------------------------------------------------------------------------
(* Bins.                                                                   *)

(* q holds free chunks of size s, each of them once, and not dv.           *)
IsBin(q, s, dv, sz, F) ==
  /\ q \in Seq(F) /\ Len(q) > 0
  /\ \A i \in 1 .. Len(q) : sz[q[i]] = s /\ q[i] # dv
  /\ \A i \in 1 .. Len(q), j \in 1 .. Len(q) : q[i] = q[j] => i = j

Binned(bins, c, s) == s \in DOMAIN bins /\ Contains(bins[s], c)

(* Every chunk of F, the free ones, is dv or in the bin of its size, and   *)
(* the bins hold nothing else.                                             *)
BinsOK(bins, dv, dvsize, sz, F) ==
  /\ 0 \notin F
  /\ \A s \in DOMAIN bins : IsBin(bins[s], s, dv, sz, F)
  /\ \A c \in F : c # dv => Binned(bins, c, sz[c])
  /\ \/ dv = 0 /\ dvsize = 0
     \/ dv \in F /\ dvsize = sz[dv]

LEMMA TakeBin ==
  ASSUME NEW q, NEW s, NEW dv, NEW sz, NEW F, IsBin(q, s, dv, sz, F), Len(q) # 1,
         NEW c, Contains(q, c)
  PROVE  /\ IsBin(RemoveAt(q, Place(q, c)), s, dv, sz, F \ {c})
         /\ \A d \in F \ {c} : Contains(q, d) => Contains(RemoveAt(q, Place(q, c)), d)
<1>1. /\ q \in Seq(F) /\ Len(q) \in Nat /\ Len(q) > 1 /\ DOMAIN q = 1 .. Len(q)
      /\ \A i \in 1 .. Len(q) : q[i] \in F /\ sz[q[i]] = s /\ q[i] # dv
      /\ \A i \in 1 .. Len(q), j \in 1 .. Len(q) : q[i] = q[j] => i = j
  <2>1. q \in Seq(F) /\ Len(q) > 0
    BY DEF IsBin
  <2>2. Len(q) \in Nat /\ DOMAIN q = 1 .. Len(q)
    BY <2>1, LenProperties
  <2>3. QED
    BY <2>1, <2>2, ElementOfSeq DEF IsBin
<1> DEFINE k == Place(q, c)
<1>2. k \in 1 .. Len(q) /\ q[k] = c
  BY <1>1 DEF Place, Contains
<1> HIDE DEF k
<1> DEFINE r == RemoveAt(q, k)
<1>3. /\ r \in Seq(F) /\ Len(r) = Len(q) - 1
      /\ \A j \in 1 .. Len(q) - 1 : r[j] = IF j < k THEN q[j] ELSE q[j + 1]
  BY <1>1, <1>2, RemoveAtIs
<1> HIDE DEF r
<1>4. ASSUME NEW j \in 1 .. Len(r)
      PROVE  /\ r[j] \in F \ {c} /\ sz[r[j]] = s /\ r[j] # dv
             /\ \A i \in 1 .. Len(r) : r[i] = r[j] => i = j
  <2>1. /\ j \in 1 .. Len(q) /\ j + 1 \in 1 .. Len(q)
        /\ r[j] = IF j < k THEN q[j] ELSE q[j + 1]
    BY <1>1, <1>3
  <2>2. r[j] \in F /\ sz[r[j]] = s /\ r[j] # dv /\ r[j] # c
    BY <1>1, <1>2, <2>1
  <2>3. ASSUME NEW i \in 1 .. Len(r), r[i] = r[j]
        PROVE  i = j
    <3>1. /\ i \in 1 .. Len(q) /\ i + 1 \in 1 .. Len(q)
          /\ r[i] = IF i < k THEN q[i] ELSE q[i + 1]
      BY <1>1, <1>3
    <3>2. QED
      BY <1>1, <1>2, <2>1, <2>3, <3>1
  <2>4. QED
    BY <2>2, <2>3
<1>5. r \in Seq(F \ {c})
  <2>1. \A j \in 1 .. Len(r) : r[j] \in F \ {c}
    BY <1>4
  <2>2. QED
    BY <1>3, <2>1, SequenceOf
<1>6. IsBin(r, s, dv, sz, F \ {c})
  BY <1>1, <1>3, <1>4, <1>5 DEF IsBin
<1>7. ASSUME NEW d \in F \ {c}, Contains(q, d)
      PROVE  Contains(r, d)
  <2>1. PICK i \in 1 .. Len(q) : q[i] = d
    BY <1>7 DEF Contains
  <2>2. CASE i < k
    <3>1. i \in 1 .. Len(r) /\ r[i] = d
      BY <1>1, <1>2, <1>3, <2>1, <2>2
    <3>2. QED
      BY <3>1 DEF Contains
  <2>3. CASE i > k
    <3> DEFINE h == i - 1
    <3>1. h \in 1 .. Len(q) - 1 /\ ~(h < k) /\ h + 1 = i
      BY <1>1, <1>2, <2>1, <2>3
    <3>2. h \in 1 .. Len(r) /\ r[h] = d
      BY <1>3, <2>1, <3>1
    <3>3. QED
      BY <3>2 DEF Contains
  <2>4. i # k
    BY <1>2, <1>7, <2>1
  <2>5. QED
    BY <1>1, <1>2, <2>1, <2>2, <2>3, <2>4
<1>8. QED
  BY <1>6, <1>7 DEF r, k
LEMMA TakeBins ==
  ASSUME NEW bins, NEW dv, NEW dvsize, NEW sz, NEW F, BinsOK(bins, dv, dvsize, sz, F),
         NEW c \in F, c # dv, NEW s, s = sz[c]
  PROVE  /\ Binned(bins, c, s)
         /\ BinsOK(Take(bins, c, s), dv, dvsize, sz, F \ {c})
<1> DEFINE b == Take(bins, c, s)
           G == F \ {c}
<1>1. s \in DOMAIN bins /\ Contains(bins[s], c) /\ IsBin(bins[s], s, dv, sz, F)
  BY DEF BinsOK, Binned
<1>2. ASSUME NEW t \in DOMAIN bins, t # s
      PROVE  /\ IsBin(bins[t], t, dv, sz, G)
             /\ \A d \in G : Contains(bins[t], d) => sz[d] = t
  <2>1. IsBin(bins[t], t, dv, sz, F)
    BY DEF BinsOK
  <2>2. \A i \in 1 .. Len(bins[t]) : bins[t][i] \in F /\ bins[t][i] # c /\ sz[bins[t][i]] = t
    BY <1>2, <2>1, ElementOfSeq DEF IsBin
  <2>3. bins[t] \in Seq(G)
    BY <2>1, <2>2, SequenceOf DEF IsBin
  <2>4. QED
    BY <2>1, <2>2, <2>3 DEF IsBin, Contains
<1>3. CASE Len(bins[s]) = 1
  <2>1. b = Restrict(bins, DOMAIN bins \ {s})
    BY <1>3 DEF Take
  <2>2. DOMAIN b = DOMAIN bins \ {s} /\ \A t \in DOMAIN b : b[t] = bins[t]
    BY <2>1 DEF Restrict
  <2>3. ASSUME NEW d \in G, d # dv
        PROVE  Binned(b, d, sz[d])
    <3>1. sz[d] \in DOMAIN bins /\ Contains(bins[sz[d]], d)
      BY <2>3 DEF BinsOK, Binned
    <3>2. sz[d] # s
      BY <1>1, <1>3, <3>1 DEF Contains
    <3>3. QED
      BY <2>2, <3>1, <3>2 DEF Binned
  <2>4. \A t \in DOMAIN b : IsBin(b[t], t, dv, sz, G)
    BY <1>2, <2>2
  <2>5. QED
    BY <1>1, <2>3, <2>4 DEF BinsOK, Binned
<1>4. CASE Len(bins[s]) # 1
  <2>1. b = [bins EXCEPT ![s] = RemoveAt(bins[s], Place(bins[s], c))]
    BY <1>4 DEF Take
  <2>2. /\ DOMAIN b = DOMAIN bins /\ \A t \in DOMAIN b : t # s => b[t] = bins[t]
        /\ b[s] = RemoveAt(bins[s], Place(bins[s], c))
    BY <1>1, <2>1
  <2>3. /\ IsBin(b[s], s, dv, sz, G)
        /\ \A d \in G : Contains(bins[s], d) => Contains(b[s], d)
    BY <1>1, <1>4, <2>2, TakeBin
  <2>4. \A t \in DOMAIN b : IsBin(b[t], t, dv, sz, G)
    BY <1>2, <2>2, <2>3
  <2>5. ASSUME NEW d \in G, d # dv
        PROVE  Binned(b, d, sz[d])
    <3>1. sz[d] \in DOMAIN bins /\ Contains(bins[sz[d]], d)
      BY <2>5 DEF BinsOK, Binned
    <3>2. CASE sz[d] = s
      BY <2>2, <2>3, <3>1, <3>2 DEF Binned
    <3>3. CASE sz[d] # s
      BY <2>2, <3>1, <3>3 DEF Binned
    <3>4. QED
      BY <3>2, <3>3
  <2>6. QED
    BY <1>1, <2>4, <2>5 DEF BinsOK, Binned
<1>5. QED
  BY <1>3, <1>4

LEMMA PutBins ==
  ASSUME NEW bins, NEW dv, NEW dvsize, NEW sz, NEW F, BinsOK(bins, dv, dvsize, sz, F),
         NEW c, c \notin F, c # 0, NEW s, s = sz[c]
  PROVE  BinsOK(Put(bins, c, s), dv, dvsize, sz, F \cup {c})
<1> DEFINE G == F \cup {c}
           q == IF s \in DOMAIN bins THEN Append(bins[s], c) ELSE <<c>>
           b == Put(bins, c, s)
<1>1. /\ DOMAIN b = DOMAIN bins \cup {s} /\ b[s] = q
      /\ \A t \in DOMAIN bins : t # s => b[t] = bins[t]
  BY DEF Put, Store
<1>2. c # dv
  BY DEF BinsOK
<1>3. ASSUME NEW t \in DOMAIN bins
      PROVE  IsBin(bins[t], t, dv, sz, G)
  <2>1. IsBin(bins[t], t, dv, sz, F)
    BY DEF BinsOK
  <2>2. bins[t] \in Seq(G)
    BY <2>1, SeqMonotonic DEF IsBin
  <2>3. QED
    BY <2>1, <2>2 DEF IsBin
<1>4. IsBin(q, s, dv, sz, G) /\ Contains(q, c)
  <2>1. CASE s \notin DOMAIN bins
    <3>1. q = <<c>>
      BY <2>1
    <3> HIDE DEF q
    <3>2. q \in Seq(G) /\ Len(q) = 1 /\ q[1] = c
      BY <3>1
    <3>3. QED
      BY <1>2, <3>2 DEF IsBin, Contains
  <2>2. CASE s \in DOMAIN bins
    <3>1. q = Append(bins[s], c) /\ bins[s] \in Seq(F) /\ IsBin(bins[s], s, dv, sz, G)
      BY <1>3, <2>2 DEF BinsOK, IsBin
    <3> HIDE DEF q
    <3> DEFINE n == Len(bins[s])
    <3>2. n \in Nat /\ bins[s] \in Seq(G) /\ \A i \in 1 .. n : bins[s][i] \in F
      BY <3>1, LenProperties, ElementOfSeq DEF IsBin
    <3>3. /\ q \in Seq(G) /\ Len(q) = n + 1
          /\ \A i \in 1 .. n : q[i] = bins[s][i]
          /\ q[n + 1] = c
      BY <3>1, <3>2
    <3> HIDE DEF n
    <3>4. ASSUME NEW i \in 1 .. Len(q)
          PROVE  i = n + 1 \/ i \in 1 .. n
      BY <3>2, <3>3
    <3>5. \A i \in 1 .. Len(q) : sz[q[i]] = s /\ q[i] # dv
      BY <1>2, <3>1, <3>3, <3>4 DEF IsBin, n
    <3>6. ASSUME NEW i \in 1 .. Len(q), NEW j \in 1 .. Len(q), q[i] = q[j]
          PROVE  i = j
      BY <3>1, <3>2, <3>3, <3>4, <3>6 DEF IsBin, n
    <3>7. n + 1 \in 1 .. Len(q)
      BY <3>2, <3>3
    <3>8. QED
      BY <3>2, <3>3, <3>5, <3>6, <3>7 DEF IsBin, Contains
  <2>3. QED
    BY <2>1, <2>2
<1>5. ASSUME NEW d \in F, Contains(bins[s], d), s \in DOMAIN bins
      PROVE  Contains(q, d)
  <2>1. q = Append(bins[s], c) /\ bins[s] \in Seq(F)
    BY <1>5 DEF BinsOK, IsBin
  <2>2. PICK i \in 1 .. Len(bins[s]) : bins[s][i] = d
    BY <1>5 DEF Contains
  <2> HIDE DEF q
  <2>3. i \in 1 .. Len(q) /\ q[i] = d
    BY <2>1, <2>2
  <2>4. QED
    BY <2>3 DEF Contains
<1> HIDE DEF q, b
<1>6. \A t \in DOMAIN b : IsBin(b[t], t, dv, sz, G)
  BY <1>1, <1>3, <1>4
<1>7. ASSUME NEW d \in G, d # dv
      PROVE  Binned(b, d, sz[d])
  <2>1. CASE d = c
    BY <1>1, <1>4, <2>1 DEF Binned
  <2>2. CASE d # c
    <3>1. d \in F /\ sz[d] \in DOMAIN bins /\ Contains(bins[sz[d]], d)
      BY <1>7, <2>2 DEF BinsOK, Binned
    <3>2. QED
      BY <1>1, <1>5, <3>1 DEF Binned
  <2>3. QED
    BY <2>1, <2>2
<1>8. BinsOK(b, dv, dvsize, sz, G)
  BY <1>6, <1>7 DEF BinsOK
<1>9. QED
  BY <1>8 DEF b

(* sz matters where it is that of a free chunk. *)
LEMMA BinsFrame ==
  ASSUME NEW bins, NEW dv, NEW dvsize, NEW sz, NEW F, BinsOK(bins, dv, dvsize, sz, F),
         NEW t, \A c \in F : t[c] = sz[c]
  PROVE  BinsOK(bins, dv, dvsize, t, F)
<1>1. ASSUME NEW s \in DOMAIN bins
      PROVE  IsBin(bins[s], s, dv, t, F)
  BY ElementOfSeq DEF BinsOK, IsBin
<1>2. QED
  BY <1>1 DEF BinsOK

LEMMA DropDv ==
  ASSUME NEW bins, NEW dv, NEW dvsize, NEW sz, NEW F, BinsOK(bins, dv, dvsize, sz, F), dv \in F
  PROVE  BinsOK(bins, 0, 0, sz, F \ {dv})
<1>1. ASSUME NEW s \in DOMAIN bins
      PROVE  IsBin(bins[s], s, 0, sz, F \ {dv})
  <2>1. IsBin(bins[s], s, dv, sz, F)
    BY DEF BinsOK
  <2>2. \A i \in 1 .. Len(bins[s]) : bins[s][i] \in F \ {dv} /\ bins[s][i] # 0
    BY <2>1, ElementOfSeq DEF BinsOK, IsBin
  <2>3. bins[s] \in Seq(F \ {dv})
    BY <2>1, <2>2, SequenceOf DEF IsBin
  <2>4. QED
    BY <2>1, <2>2, <2>3 DEF IsBin
<1>2. QED
  BY <1>1 DEF BinsOK

LEMMA SetDv ==
  ASSUME NEW bins, NEW sz, NEW F, BinsOK(bins, 0, 0, sz, F), NEW c, c \notin F, c # 0,
         NEW s, s = sz[c]
  PROVE  BinsOK(bins, c, s, sz, F \cup {c})
<1>1. ASSUME NEW t \in DOMAIN bins
      PROVE  IsBin(bins[t], t, c, sz, F \cup {c})
  <2>1. IsBin(bins[t], t, 0, sz, F)
    BY DEF BinsOK
  <2>2. \A i \in 1 .. Len(bins[t]) : bins[t][i] \in F /\ bins[t][i] # c
    BY <2>1, ElementOfSeq DEF IsBin
  <2>3. bins[t] \in Seq(F \cup {c})
    BY <2>1, <2>2, SequenceOf DEF IsBin
  <2>4. QED
    BY <2>1, <2>2, <2>3 DEF IsBin
<1>2. \A d \in F \cup {c} : d # c => Binned(bins, d, sz[d])
  BY DEF BinsOK
<1>3. QED
  BY <1>1, <1>2 DEF BinsOK

LEMMA BinHolds ==
  ASSUME NEW bins, NEW dv, NEW dvsize, NEW sz, NEW F, BinsOK(bins, dv, dvsize, sz, F),
         NEW s \in DOMAIN bins
  PROVE  /\ Len(bins[s]) \in Nat \ {0}
         /\ \A i \in 1 .. Len(bins[s]) : bins[s][i] \in F /\ bins[s][i] # dv /\ sz[bins[s][i]] = s
         /\ Last(bins[s]) \in F /\ Last(bins[s]) # dv /\ sz[Last(bins[s])] = s
         /\ Head(bins[s]) \in F /\ Head(bins[s]) # dv /\ sz[Head(bins[s])] = s
<1>1. IsBin(bins[s], s, dv, sz, F)
  BY DEF BinsOK
<1>2. /\ bins[s] \in Seq(F) /\ Len(bins[s]) \in Nat \ {0}
      /\ \A i \in 1 .. Len(bins[s]) : bins[s][i] \in F /\ bins[s][i] # dv /\ sz[bins[s][i]] = s
  BY <1>1, ElementOfSeq, LenProperties DEF IsBin
<1>3. Head(bins[s]) = bins[s][1] /\ Last(bins[s]) = bins[s][Len(bins[s])]
  BY <1>2 DEF Last
<1>4. QED
  BY <1>2, <1>3

-----------------------------------------------------------------------------
(* Fields.                                                                 *)

FieldNames ==
  {"head", "foot", "bins", "top", "topsize", "dv", "dvsize", "base", "segsize", "contiguous",
   "footprint", "max_footprint", "footprint_limit", "trim_check", "granularity",
   "trim_threshold", "heap_base", "brk", "memory_end", "junk", "enomem", "ok"}

(* h is a record with these fields, and n one that differs in those of S. *)
IsState(h)    == h = [f \in FieldNames |-> h[f]]
Only(n, h, S) == IsState(n) /\ \A f \in FieldNames \ S : n[f] = h[f]

LEMMA OnlyTransitive ==
  ASSUME NEW a, NEW b, NEW c, NEW S, Only(b, a, S), Only(c, b, S)
  PROVE  Only(c, a, S)
BY DEF Only

LEMMA StoreHeadIs ==
  ASSUME NEW h, IsState(h), NEW p, NEW s, NEW pin, NEW cin
  PROVE  LET n == StoreHead(h, p, s, pin, cin)
         IN  /\ Only(n, h, {"head", "foot"})
             /\ DOMAIN n.head = {x \in DOMAIN h.head : x <= p \/ x >= p + s} \cup {p}
             /\ n.head[p] = [size |-> s, pinuse |-> pin, cinuse |-> cin]
             /\ \A x \in DOMAIN n.head : x # p => n.head[x] = h.head[x]
             /\ DOMAIN n.foot = {x \in DOMAIN h.foot : (x <= p \/ x >= p + s) /\ (cin => x # p + s)}
             /\ \A x \in DOMAIN n.foot : n.foot[x] = h.foot[x]
<1> DEFINE n == StoreHead(h, p, s, pin, cin)
<1>1. IsState(n) /\ \A f \in FieldNames : f # "head" /\ f # "foot" => n[f] = h[f]
  BY DEF StoreHead, IsState, FieldNames
<1>2. n.head = Store(Outside(h.head, p, s), p, [size |-> s, pinuse |-> pin, cinuse |-> cin])
  BY DEF StoreHead, IsState, FieldNames
<1>3. n.foot = IF cin THEN Restrict(Outside(h.foot, p, s), DOMAIN Outside(h.foot, p, s) \ {p + s})
                      ELSE Outside(h.foot, p, s)
  BY DEF StoreHead, IsState, FieldNames
<1> HIDE DEF n
<1>4. /\ DOMAIN n.head = {x \in DOMAIN h.head : x <= p \/ x >= p + s} \cup {p}
      /\ n.head[p] = [size |-> s, pinuse |-> pin, cinuse |-> cin]
      /\ \A x \in DOMAIN n.head : x # p => n.head[x] = h.head[x]
  BY <1>2 DEF Store, Outside, Restrict
<1>5. /\ DOMAIN n.foot = {x \in DOMAIN h.foot : (x <= p \/ x >= p + s) /\ (cin => x # p + s)}
      /\ \A x \in DOMAIN n.foot : n.foot[x] = h.foot[x]
  <2>1. CASE cin
    BY <1>3, <2>1 DEF Outside, Restrict
  <2>2. CASE ~cin
    BY <1>3, <2>2 DEF Outside, Restrict
  <2>3. QED
    BY <2>1, <2>2
<1>6. Only(n, h, {"head", "foot"})
  BY <1>1 DEF Only
<1>7. QED
  BY <1>4, <1>5, <1>6 DEF n

LEMMA StorePinuseIs ==
  ASSUME NEW h, IsState(h), NEW p, NEW pin \in BOOLEAN, HeadAt(h, p) \in HeadRecords
  PROVE  LET n == StorePinuse(h, p, pin)
         IN  /\ Only(n, h, {"head"})
             /\ DOMAIN n.head = DOMAIN h.head \cup {p}
             /\ n.head[p] = [size |-> HeadAt(h, p).size, pinuse |-> pin,
                             cinuse |-> HeadAt(h, p).cinuse]
             /\ \A x \in DOMAIN n.head : x # p => n.head[x] = h.head[x]
<1> DEFINE n == StorePinuse(h, p, pin)
<1>1. IsState(n) /\ \A f \in FieldNames : f # "head" => n[f] = h[f]
  BY DEF StorePinuse, IsState, FieldNames
<1>2. n.head = Store(h.head, p, [HeadAt(h, p) EXCEPT !.pinuse = pin])
  BY DEF StorePinuse, IsState, FieldNames
<1>3. [HeadAt(h, p) EXCEPT !.pinuse = pin]
        = [size |-> HeadAt(h, p).size, pinuse |-> pin, cinuse |-> HeadAt(h, p).cinuse]
  BY DEF HeadRecords
<1> HIDE DEF n
<1>4. /\ DOMAIN n.head = DOMAIN h.head \cup {p}
      /\ n.head[p] = [size |-> HeadAt(h, p).size, pinuse |-> pin, cinuse |-> HeadAt(h, p).cinuse]
      /\ \A x \in DOMAIN n.head : x # p => n.head[x] = h.head[x]
  BY <1>2, <1>3 DEF Store
<1>5. QED
  BY <1>1, <1>4 DEF n, Only

LEMMA SetFootIs ==
  ASSUME NEW h, IsState(h), NEW p, NEW s
  PROVE  LET n == set_foot(h, p, s)
         IN  /\ Only(n, h, {"foot"})
             /\ DOMAIN n.foot = DOMAIN h.foot \cup {p + s} /\ n.foot[p + s] = s
             /\ \A x \in DOMAIN h.foot : x # p + s => n.foot[x] = h.foot[x]
<1> DEFINE n == set_foot(h, p, s)
<1>1. IsState(n) /\ \A f \in FieldNames : f # "foot" => n[f] = h[f]
  BY DEF set_foot, IsState, FieldNames
<1>2. n.foot = Store(h.foot, p + s, s)
  BY DEF set_foot, IsState, FieldNames
<1> HIDE DEF n
<1>3. /\ DOMAIN n.foot = DOMAIN h.foot \cup {p + s} /\ n.foot[p + s] = s
      /\ \A x \in DOMAIN h.foot : x # p + s => n.foot[x] = h.foot[x]
  BY <1>2 DEF Store
<1>4. QED
  BY <1>1, <1>3 DEF n, Only

LEMMA OnlyHeadFoot ==
  ASSUME NEW n, NEW h, IsState(h), Only(n, h, {"head", "foot"})
  PROVE  n = [h EXCEPT !.head = n.head, !.foot = n.foot]
BY DEF Only, IsState, FieldNames

LEMMA OnlyFields ==
  ASSUME NEW n, NEW h, Only(n, h, {"head", "foot"})
  PROVE  n.top = h.top /\ n.topsize = h.topsize /\ n.dv = h.dv
BY DEF Only, FieldNames

-----------------------------------------------------------------------------
(* Layouts: chunks, heads and bins together, with a hole at p.             *)

FreeChunks(sz, U, top) == DOMAIN sz \ (U \cup {top})

Layout(head, foot, bins, dv, dvsize, lo, e, top, sz, U, p) ==
  /\ Tiling(lo, e, sz)
  /\ Heads(head, foot, lo, e, top, sz, U, p)
  /\ BinsOK(bins, dv, dvsize, sz, FreeChunks(sz, U, top))

LEMMA LayoutHole ==
  ASSUME NEW head, NEW foot, NEW bins, NEW dv, NEW dvsize, NEW lo, NEW e, NEW top, NEW sz, NEW U,
         NEW p, Layout(head, foot, bins, dv, dvsize, lo, e, top, sz, U, p)
  PROVE  /\ U \subseteq DOMAIN sz /\ top \in DOMAIN sz /\ top + sz[top] = e /\ e \notin DOMAIN sz
         /\ p \in DOMAIN sz => p \in U
         /\ p # top => top \notin U
BY TilingArith DEF Layout, Heads

LEMMA LayoutOpenUsed ==
  ASSUME NEW head, NEW foot, NEW bins, NEW dv, NEW dvsize, NEW lo, NEW e, NEW top, NEW sz, NEW U,
         Layout(head, foot, bins, dv, dvsize, lo, e, top, sz, U, e), NEW p \in U
  PROVE  Layout(head, foot, bins, dv, dvsize, lo, e, top, sz, U, p)
BY OpenUsed DEF Layout

LEMMA LayoutOpenBinned ==
  ASSUME NEW head, NEW foot, NEW bins, NEW dv, NEW dvsize, NEW lo, NEW e, NEW top, NEW sz, NEW U,
         Layout(head, foot, bins, dv, dvsize, lo, e, top, sz, U, e),
         NEW p \in FreeChunks(sz, U, top), p # dv, NEW s, s = sz[p]
  PROVE  /\ Binned(bins, p, s)
         /\ Layout(head, foot, Take(bins, p, s), dv, dvsize, lo, e, top, sz, U \cup {p}, p)
<1>1. p \in DOMAIN sz \ U
  BY DEF FreeChunks
<1>2. FreeChunks(sz, U \cup {p}, top) = FreeChunks(sz, U, top) \ {p}
  BY DEF FreeChunks
<1>3. QED
  BY <1>1, <1>2, OpenFree, TakeBins DEF Layout

LEMMA LayoutOpenDv ==
  ASSUME NEW head, NEW foot, NEW bins, NEW dv, NEW dvsize, NEW lo, NEW e, NEW top, NEW sz, NEW U,
         Layout(head, foot, bins, dv, dvsize, lo, e, top, sz, U, e), dv \in FreeChunks(sz, U, top)
  PROVE  Layout(head, foot, bins, 0, 0, lo, e, top, sz, U \cup {dv}, dv)
<1>1. dv \in DOMAIN sz \ U
  BY DEF FreeChunks
<1>2. FreeChunks(sz, U \cup {dv}, top) = FreeChunks(sz, U, top) \ {dv}
  BY DEF FreeChunks
<1>3. QED
  BY <1>1, <1>2, OpenFree, DropDv DEF Layout

LEMMA LayoutOpenTop ==
  ASSUME NEW head, NEW foot, NEW bins, NEW dv, NEW dvsize, NEW lo, NEW e, NEW top, NEW sz, NEW U,
         Layout(head, foot, bins, dv, dvsize, lo, e, top, sz, U, e)
  PROVE  Layout(head, foot, bins, dv, dvsize, lo, e, top, sz, U \cup {top}, top)
<1>1. top \in DOMAIN sz \ U
  BY LayoutHole
<1>2. FreeChunks(sz, U \cup {top}, top) = FreeChunks(sz, U, top)
  BY DEF FreeChunks
<1>3. QED
  BY <1>1, <1>2, OpenFree DEF Layout

LEMMA LayoutFrame ==
  ASSUME NEW head, NEW foot, NEW bins, NEW dv, NEW dvsize, NEW lo, NEW e, NEW top, NEW sz, NEW U,
         NEW p \in DOMAIN sz, Layout(head, foot, bins, dv, dvsize, lo, e, top, sz, U, p),
         NEW head2, NEW foot2, Writes(head, foot, head2, foot2, e, p, sz[p])
  PROVE  Layout(head2, foot2, bins, dv, dvsize, lo, e, top, sz, U, p)
BY HoleFrame DEF Layout

LEMMA LayoutMergeUsed ==
  ASSUME NEW head, NEW foot, NEW bins, NEW dv, NEW dvsize, NEW lo, NEW e, NEW top, NEW sz, NEW U,
         NEW p \in DOMAIN sz, Layout(head, foot, bins, dv, dvsize, lo, e, top, sz, U, p),
         NEW n \in DOMAIN sz, p + sz[p] = n, n \in U
  PROVE  Layout(head, foot, bins, dv, dvsize, lo, e, top, JoinChunks(sz, p), U \ {n}, p)
<1> DEFINE t == JoinChunks(sz, p)
           F == FreeChunks(sz, U, top)
<1>1. /\ DOMAIN t = DOMAIN sz \ {n} /\ n # p
      /\ \A c \in DOMAIN sz : c # p /\ c # n => t[c] = sz[c]
  BY JoinedSizes DEF Layout
<1>2. Tiling(lo, e, t)
  BY MergeTiles DEF Layout
<1>3. U \subseteq DOMAIN sz /\ top \in DOMAIN sz /\ p \in U /\ p # top /\ top \notin U
  <2>1. p # top
    BY TilingArith, LayoutHole DEF Layout
  <2>2. QED
    BY <2>1, LayoutHole
<1>4. Heads(head, foot, lo, e, top, t, U \ {n}, p)
  <2>1. Heads(head, foot, lo, e, IF n = top THEN p ELSE top, t, U \ {n}, p)
    BY MergeNext DEF Layout
  <2>2. (IF n = top THEN p ELSE top) = top /\ U \ {n} = U \ {n}
    BY <1>3
  <2>3. QED
    BY <2>1, <2>2
<1>5. FreeChunks(t, U \ {n}, top) = F
  BY <1>1, <1>3 DEF FreeChunks
<1>6. BinsOK(bins, dv, dvsize, sz, F)
  BY DEF Layout
<1>7. \A c \in F : t[c] = sz[c]
  BY <1>1, <1>3 DEF FreeChunks
<1>8. BinsOK(bins, dv, dvsize, t, F)
  BY <1>6, <1>7, BinsFrame
<1>9. QED
  BY <1>2, <1>4, <1>5, <1>8 DEF Layout

LEMMA LayoutMergeTop ==
  ASSUME NEW head, NEW foot, NEW bins, NEW dv, NEW dvsize, NEW lo, NEW e, NEW top, NEW sz, NEW U,
         NEW p \in DOMAIN sz, Layout(head, foot, bins, dv, dvsize, lo, e, top, sz, U, p),
         NEW n \in DOMAIN sz, p + sz[p] = n, n = top
  PROVE  Layout(head, foot, bins, dv, dvsize, lo, e, p, JoinChunks(sz, p), U, p)
<1> DEFINE t == JoinChunks(sz, p)
           F == FreeChunks(sz, U, top)
<1>1. /\ DOMAIN t = DOMAIN sz \ {n} /\ n # p
      /\ \A c \in DOMAIN sz : c # p /\ c # n => t[c] = sz[c]
  BY JoinedSizes DEF Layout
<1>2. Tiling(lo, e, t)
  BY MergeTiles DEF Layout
<1>3. U \subseteq DOMAIN sz /\ top \in DOMAIN sz /\ p \in U /\ p # top /\ top \notin U
  <2>1. p # top
    BY TilingArith, LayoutHole DEF Layout
  <2>2. QED
    BY <2>1, LayoutHole
<1>4. Heads(head, foot, lo, e, p, t, U, p)
  <2>1. Heads(head, foot, lo, e, IF n = top THEN p ELSE top, t, U \ {n}, p)
    BY MergeNext DEF Layout
  <2>2. (IF n = top THEN p ELSE top) = p /\ U \ {n} = U
    BY <1>3
  <2>3. QED
    BY <2>1, <2>2
<1>5. FreeChunks(t, U, p) = F
  BY <1>1, <1>3 DEF FreeChunks
<1>6. BinsOK(bins, dv, dvsize, sz, F)
  BY DEF Layout
<1>7. \A c \in F : t[c] = sz[c]
  BY <1>1, <1>3 DEF FreeChunks
<1>8. BinsOK(bins, dv, dvsize, t, F)
  BY <1>6, <1>7, BinsFrame
<1>9. QED
  BY <1>2, <1>4, <1>5, <1>8 DEF Layout

LEMMA LayoutMergeBinned ==
  ASSUME NEW head, NEW foot, NEW bins, NEW dv, NEW dvsize, NEW lo, NEW e, NEW top, NEW sz, NEW U,
         NEW p \in DOMAIN sz, Layout(head, foot, bins, dv, dvsize, lo, e, top, sz, U, p),
         NEW n \in DOMAIN sz, p + sz[p] = n,
         n \in FreeChunks(sz, U, top), n # dv, NEW s, s = sz[n]
  PROVE  /\ Binned(bins, n, s)
         /\ Layout(head, foot, Take(bins, n, s), dv, dvsize, lo, e, top, JoinChunks(sz, p), U, p)
<1> DEFINE t == JoinChunks(sz, p)
           F == FreeChunks(sz, U, top)
<1>1. /\ DOMAIN t = DOMAIN sz \ {n} /\ n # p
      /\ \A c \in DOMAIN sz : c # p /\ c # n => t[c] = sz[c]
  BY JoinedSizes DEF Layout
<1>2. Tiling(lo, e, t)
  BY MergeTiles DEF Layout
<1>3. U \subseteq DOMAIN sz /\ top \in DOMAIN sz /\ p \in U /\ p # top /\ top \notin U
  <2>1. p # top
    BY TilingArith, LayoutHole DEF Layout
  <2>2. QED
    BY <2>1, LayoutHole
<1>4. Heads(head, foot, lo, e, top, t, U, p)
  <2>1. Heads(head, foot, lo, e, IF n = top THEN p ELSE top, t, U \ {n}, p)
    BY MergeNext DEF Layout
  <2>2. (IF n = top THEN p ELSE top) = top /\ U \ {n} = U
    BY <1>3 DEF FreeChunks
  <2>3. QED
    BY <2>1, <2>2
<1>5. FreeChunks(t, U, top) = F \ {n}
  BY <1>1, <1>3 DEF FreeChunks
<1>6. Binned(bins, n, s) /\ BinsOK(Take(bins, n, s), dv, dvsize, sz, F \ {n})
  BY TakeBins DEF Layout
<1>7. \A c \in F \ {n} : t[c] = sz[c]
  BY <1>1, <1>3 DEF FreeChunks
<1>8. BinsOK(Take(bins, n, s), dv, dvsize, t, F \ {n})
  BY <1>6, <1>7, BinsFrame
<1>9. QED
  BY <1>6, <1>2, <1>4, <1>5, <1>8 DEF Layout

LEMMA LayoutMergeDv ==
  ASSUME NEW head, NEW foot, NEW bins, NEW dv, NEW dvsize, NEW lo, NEW e, NEW top, NEW sz, NEW U,
         NEW p \in DOMAIN sz, Layout(head, foot, bins, dv, dvsize, lo, e, top, sz, U, p),
         NEW n \in DOMAIN sz, p + sz[p] = n,
         n \in FreeChunks(sz, U, top), n = dv
  PROVE  Layout(head, foot, bins, 0, 0, lo, e, top, JoinChunks(sz, p), U, p)
<1> DEFINE t == JoinChunks(sz, p)
           F == FreeChunks(sz, U, top)
<1>1. /\ DOMAIN t = DOMAIN sz \ {n} /\ n # p
      /\ \A c \in DOMAIN sz : c # p /\ c # n => t[c] = sz[c]
  BY JoinedSizes DEF Layout
<1>2. Tiling(lo, e, t)
  BY MergeTiles DEF Layout
<1>3. U \subseteq DOMAIN sz /\ top \in DOMAIN sz /\ p \in U /\ p # top /\ top \notin U
  <2>1. p # top
    BY TilingArith, LayoutHole DEF Layout
  <2>2. QED
    BY <2>1, LayoutHole
<1>4. Heads(head, foot, lo, e, top, t, U, p)
  <2>1. Heads(head, foot, lo, e, IF n = top THEN p ELSE top, t, U \ {n}, p)
    BY MergeNext DEF Layout
  <2>2. (IF n = top THEN p ELSE top) = top /\ U \ {n} = U
    BY <1>3 DEF FreeChunks
  <2>3. QED
    BY <2>1, <2>2
<1>5. FreeChunks(t, U, top) = F \ {n}
  BY <1>1, <1>3 DEF FreeChunks
<1>6. BinsOK(bins, 0, 0, sz, F \ {n})
  BY DropDv DEF Layout
<1>7. \A c \in F \ {n} : t[c] = sz[c]
  BY <1>1, <1>3 DEF FreeChunks
<1>8. BinsOK(bins, 0, 0, t, F \ {n})
  BY <1>6, <1>7, BinsFrame
<1>9. QED
  BY <1>2, <1>4, <1>5, <1>8 DEF Layout

LEMMA LayoutPrevBinned ==
  ASSUME NEW head, NEW foot, NEW bins, NEW dv, NEW dvsize, NEW lo, NEW e, NEW top, NEW sz, NEW U,
         NEW p \in DOMAIN sz, Layout(head, foot, bins, dv, dvsize, lo, e, top, sz, U, p), p # top,
         NEW q \in FreeChunks(sz, U, top), q + sz[q] = p, q # dv, NEW s, s = sz[q]
  PROVE  /\ Binned(bins, q, s)
         /\ Layout(head, foot, Take(bins, q, s), dv, dvsize, lo, e, top, JoinChunks(sz, q), (U \ {p}) \cup {q}, q)
<1> DEFINE t == JoinChunks(sz, q)
           F == FreeChunks(sz, U, top)
<1>0. q \in DOMAIN sz \ U
  BY DEF FreeChunks
<1>1. /\ DOMAIN t = DOMAIN sz \ {p} /\ p # q
      /\ \A c \in DOMAIN sz : c # q /\ c # p => t[c] = sz[c]
  BY <1>0, JoinedSizes DEF Layout
<1>2. Tiling(lo, e, t)
  BY <1>0, MergeTiles DEF Layout
<1>3. U \subseteq DOMAIN sz /\ top \in DOMAIN sz /\ p \in U /\ p # top /\ top \notin U
  BY LayoutHole
<1>4. Heads(head, foot, lo, e, top, t, (U \ {p}) \cup {q}, q)
  BY <1>0, MergePrev DEF Layout
<1>5. FreeChunks(t, (U \ {p}) \cup {q}, top) = F \ {q}
  BY <1>0, <1>1, <1>3 DEF FreeChunks
<1>6. Binned(bins, q, s) /\ BinsOK(Take(bins, q, s), dv, dvsize, sz, F \ {q})
  BY TakeBins DEF Layout
<1>7. \A c \in F \ {q} : t[c] = sz[c]
  BY <1>1, <1>3 DEF FreeChunks
<1>8. BinsOK(Take(bins, q, s), dv, dvsize, t, F \ {q})
  BY <1>6, <1>7, BinsFrame
<1>9. QED
  BY <1>6, <1>2, <1>4, <1>5, <1>8 DEF Layout

LEMMA LayoutPrevDv ==
  ASSUME NEW head, NEW foot, NEW bins, NEW dv, NEW dvsize, NEW lo, NEW e, NEW top, NEW sz, NEW U,
         NEW p \in DOMAIN sz, Layout(head, foot, bins, dv, dvsize, lo, e, top, sz, U, p), p # top,
         NEW q \in FreeChunks(sz, U, top), q + sz[q] = p, q = dv
  PROVE  Layout(head, foot, bins, 0, 0, lo, e, top, JoinChunks(sz, q), (U \ {p}) \cup {q}, q)
<1> DEFINE t == JoinChunks(sz, q)
           F == FreeChunks(sz, U, top)
<1>0. q \in DOMAIN sz \ U
  BY DEF FreeChunks
<1>1. /\ DOMAIN t = DOMAIN sz \ {p} /\ p # q
      /\ \A c \in DOMAIN sz : c # q /\ c # p => t[c] = sz[c]
  BY <1>0, JoinedSizes DEF Layout
<1>2. Tiling(lo, e, t)
  BY <1>0, MergeTiles DEF Layout
<1>3. U \subseteq DOMAIN sz /\ top \in DOMAIN sz /\ p \in U /\ p # top /\ top \notin U
  BY LayoutHole
<1>4. Heads(head, foot, lo, e, top, t, (U \ {p}) \cup {q}, q)
  BY <1>0, MergePrev DEF Layout
<1>5. FreeChunks(t, (U \ {p}) \cup {q}, top) = F \ {q}
  BY <1>0, <1>1, <1>3 DEF FreeChunks
<1>6. BinsOK(bins, 0, 0, sz, F \ {q})
  BY DropDv DEF Layout
<1>7. \A c \in F \ {q} : t[c] = sz[c]
  BY <1>1, <1>3 DEF FreeChunks
<1>8. BinsOK(bins, 0, 0, t, F \ {q})
  BY <1>6, <1>7, BinsFrame
<1>9. QED
  BY <1>2, <1>4, <1>5, <1>8 DEF Layout

LEMMA LayoutAdvance ==
  ASSUME NEW head, NEW foot, NEW bins, NEW dv, NEW dvsize, NEW lo, NEW e, NEW top, NEW sz, NEW U,
         NEW p \in DOMAIN sz, Layout(head, foot, bins, dv, dvsize, lo, e, top, sz, U, p),
         NEW a \in Nat, 16 <= a, a < sz[p], a % 8 = 0,
         p \in DOMAIN head, head[p] \in HeadRecords, head[p].size = a, head[p].cinuse,
         head[p].pinuse <=> PredUsed(lo, sz, U, p),
         NoHeads(head, p, a), NEW r, r = p + a
  PROVE  Layout(head, foot, bins, dv, dvsize, lo, e, IF p = top THEN r ELSE top,
                CutChunk(sz, p, a), U \cup {r}, r)
<1> DEFINE t == CutChunk(sz, p, a)
           F == FreeChunks(sz, U, top)
           top2 == IF p = top THEN r ELSE top
<1>0. 0 < a
  OBVIOUS
<1>10. Tiling(lo, e, sz)
  BY DEF Layout
<1>1. /\ DOMAIN t = DOMAIN sz \cup {r} /\ r \notin DOMAIN sz
      /\ \A c \in DOMAIN sz : c # p => t[c] = sz[c]
  BY <1>0, <1>10, CutSizes
<1>2. Tiling(lo, e, t)
  BY <1>0, <1>10, SplitTiles
<1>3. U \subseteq DOMAIN sz /\ top \in DOMAIN sz /\ p \in U
  BY LayoutHole
<1>4. Heads(head, foot, lo, e, top2, t, U \cup {r}, r)
  BY AdvanceHole DEF Layout
<1>5. FreeChunks(t, U \cup {r}, top2) = F
  BY <1>1, <1>3 DEF FreeChunks
<1>6. \A c \in F : t[c] = sz[c]
  BY <1>1, <1>3 DEF FreeChunks
<1>7. BinsOK(bins, dv, dvsize, t, F)
  BY <1>6, BinsFrame DEF Layout
<1>8. QED
  BY <1>2, <1>4, <1>5, <1>7 DEF Layout

LEMMA LayoutCloseUsed ==
  ASSUME NEW head, NEW foot, NEW bins, NEW dv, NEW dvsize, NEW lo, NEW e, NEW top, NEW sz, NEW U,
         NEW p \in DOMAIN sz, Layout(head, foot, bins, dv, dvsize, lo, e, top, sz, U, p), p # top, sz[p] >= 16,
         p \in DOMAIN head, head[p] \in HeadRecords, head[p].size = sz[p], head[p].cinuse,
         head[p].pinuse <=> PredUsed(lo, sz, U, p),
         NoHeads(head, p, sz[p]), head[p + sz[p]].pinuse
  PROVE  Layout(head, foot, bins, dv, dvsize, lo, e, top, sz, U, e)
BY CloseUsed DEF Layout

LEMMA LayoutCloseFree ==
  ASSUME NEW head, NEW foot, NEW bins, NEW dv, NEW dvsize, NEW lo, NEW e, NEW top, NEW sz, NEW U,
         NEW p \in DOMAIN sz, Layout(head, foot, bins, dv, dvsize, lo, e, top, sz, U, p), sz[p] >= 16,
         p \in DOMAIN head, head[p] \in HeadRecords, head[p].size = sz[p], ~head[p].cinuse,
         head[p].pinuse, PredUsed(lo, sz, U, p), NoHeads(head, p, sz[p]),
         p + sz[p] \in U, ~head[p + sz[p]].pinuse,
         p + sz[p] \in DOMAIN foot, foot[p + sz[p]] = sz[p],
         NEW bins2, NEW dv2, NEW dvsize2,
         BinsOK(bins2, dv2, dvsize2, sz, FreeChunks(sz, U, top) \cup {p})
  PROVE  Layout(head, foot, bins2, dv2, dvsize2, lo, e, top, sz, U \ {p}, e)
<1>1. p # top /\ p \in U
  BY TilingArith, LayoutHole DEF Layout
<1>2. FreeChunks(sz, U \ {p}, top) = FreeChunks(sz, U, top) \cup {p}
  BY <1>1 DEF FreeChunks
<1>3. Heads(head, foot, lo, e, top, sz, U \ {p}, e)
  BY CloseFree DEF Layout
<1>4. QED
  BY <1>2, <1>3 DEF Layout

LEMMA LayoutCloseTop ==
  ASSUME NEW head, NEW foot, NEW bins, NEW dv, NEW dvsize, NEW lo, NEW e, NEW top, NEW sz, NEW U,
         Layout(head, foot, bins, dv, dvsize, lo, e, top, sz, U, top),
         top \in DOMAIN head, head[top] \in HeadRecords, head[top].size = sz[top],
         ~head[top].cinuse, head[top].pinuse,
         PredUsed(lo, sz, U, top), NoHeads(head, top, sz[top])
  PROVE  Layout(head, foot, bins, dv, dvsize, lo, e, top, sz, U \ {top}, e)
<1>1. FreeChunks(sz, U \ {top}, top) = FreeChunks(sz, U, top)
  BY DEF FreeChunks
<1>2. top \in DOMAIN sz
  BY LayoutHole
<1>3. Heads(head, foot, lo, e, top, sz, U \ {top}, e)
  BY <1>2, CloseTop DEF Layout
<1>4. QED
  BY <1>1, <1>3 DEF Layout

-----------------------------------------------------------------------------
(* Writes of heads and feet.                                               *)

WellFormed(h) ==
  /\ IsState(h) /\ h.junk \in BOOLEAN
  /\ \A x \in DOMAIN h.head : x \in Nat /\ h.head[x] \in HeadRecords
  /\ \A x \in DOMAIN h.foot : x \in Nat

(* n is h with writes inside the s bytes from p on, or to PINUSE_BIT there. *)
WritesTo(h, n, e, p, s) ==
  /\ WellFormed(n) /\ Only(n, h, {"head", "foot"})
  /\ Writes(h.head, h.foot, n.head, n.foot, e, p, s)

LEMMA HeadAtType ==
  ASSUME NEW h, WellFormed(h), NEW x
  PROVE  /\ HeadAt(h, x) \in HeadRecords
         /\ pinuse(h, x) \in BOOLEAN /\ cinuse(h, x) \in BOOLEAN /\ chunksize(h, x) \in Nat
         /\ x \in DOMAIN h.head => HeadAt(h, x) = h.head[x]
<1>1. HeadAt(h, x) \in HeadRecords
  BY DEF WellFormed, HeadAt, Junk, HeadRecords
<1>2. QED
  BY <1>1 DEF HeadAt, HeadRecords, pinuse, cinuse, chunksize

LEMMA WritesCompose ==
  ASSUME NEW a, NEW b, NEW c, NEW e, NEW p \in Nat, NEW s \in Nat,
         WritesTo(a, b, e, p, s), WritesTo(b, c, e, p, s)
  PROVE  WritesTo(a, c, e, p, s)
<1> DEFINE n == p + s
<1>1. /\ \A x \in DOMAIN b.head : x \in Nat /\ (x \in DOMAIN a.head \/ (p <= x /\ x < n))
      /\ \A x \in DOMAIN a.head : x < p \/ x > n => x \in DOMAIN b.head /\ b.head[x] = a.head[x]
      /\ n \in DOMAIN a.head => /\ n \in DOMAIN b.head /\ b.head[n] \in HeadRecords
                                /\ b.head[n].size = a.head[n].size
                                /\ b.head[n].cinuse = a.head[n].cinuse
                                /\ n = e => b.head[e] = a.head[e]
      /\ \A x \in DOMAIN a.foot : x <= p \/ x > n => x \in DOMAIN b.foot /\ b.foot[x] = a.foot[x]
  BY DEF WritesTo, Writes
<1>2. /\ \A x \in DOMAIN c.head : x \in Nat /\ (x \in DOMAIN b.head \/ (p <= x /\ x < n))
      /\ \A x \in DOMAIN b.head : x < p \/ x > n => x \in DOMAIN c.head /\ c.head[x] = b.head[x]
      /\ n \in DOMAIN b.head => /\ n \in DOMAIN c.head /\ c.head[n] \in HeadRecords
                                /\ c.head[n].size = b.head[n].size
                                /\ c.head[n].cinuse = b.head[n].cinuse
                                /\ n = e => c.head[e] = b.head[e]
      /\ \A x \in DOMAIN b.foot : x <= p \/ x > n => x \in DOMAIN c.foot /\ c.foot[x] = b.foot[x]
  BY DEF WritesTo, Writes
<1>3. Only(c, a, {"head", "foot"})
  BY OnlyTransitive DEF WritesTo
<1> SUFFICES Writes(a.head, a.foot, c.head, c.foot, e, p, s)
  BY <1>3 DEF WritesTo
<1> SUFFICES
      /\ \A x \in DOMAIN c.head : x \in Nat /\ (x \in DOMAIN a.head \/ (p <= x /\ x < n))
      /\ \A x \in DOMAIN a.head : x < p \/ x > n => x \in DOMAIN c.head /\ c.head[x] = a.head[x]
      /\ n \in DOMAIN a.head => /\ n \in DOMAIN c.head /\ c.head[n] \in HeadRecords
                                /\ c.head[n].size = a.head[n].size
                                /\ c.head[n].cinuse = a.head[n].cinuse
                                /\ n = e => c.head[e] = a.head[e]
      /\ \A x \in DOMAIN a.foot : x <= p \/ x > n => x \in DOMAIN c.foot /\ c.foot[x] = a.foot[x]
  BY DEF Writes
<1> HIDE DEF n
<1>4. QED
  BY <1>1, <1>2

Within(q, t, p, s) ==
  /\ p \in Nat /\ s \in Nat /\ q \in Nat /\ t \in Nat /\ t > 0 /\ p <= q /\ q + t <= p + s

HeadStored(h, n, q, t, pin, cin) ==
  /\ q \in DOMAIN n.head /\ n.head[q] = [size |-> t, pinuse |-> pin, cinuse |-> cin]
  /\ \A x \in DOMAIN h.head : x < q \/ x >= q + t => x \in DOMAIN n.head /\ n.head[x] = h.head[x]
  /\ \A x \in DOMAIN n.head : x # q => x \in DOMAIN h.head /\ (x < q \/ x >= q + t)

LEMMA StoreHeadIn ==
  ASSUME NEW h, WellFormed(h), NEW e, NEW p, NEW s, NEW q, NEW t,
         Within(q, t, p, s), NEW pin \in BOOLEAN, NEW cin \in BOOLEAN
  PROVE  LET n == StoreHead(h, q, t, pin, cin)
         IN  WritesTo(h, n, e, p, s) /\ HeadStored(h, n, q, t, pin, cin)
<1> DEFINE n == StoreHead(h, q, t, pin, cin)
<1> SUFFICES
             /\ WritesTo(h, n, e, p, s)
             /\ q \in DOMAIN n.head /\ n.head[q] = [size |-> t, pinuse |-> pin, cinuse |-> cin]
             /\ \A x \in DOMAIN h.head : x < q \/ x >= q + t
                  => x \in DOMAIN n.head /\ n.head[x] = h.head[x]
             /\ \A x \in DOMAIN n.head : x # q => x \in DOMAIN h.head /\ (x < q \/ x >= q + t)
  BY DEF HeadStored
<1>0. /\ p \in Nat /\ s \in Nat /\ q \in Nat /\ t \in Nat /\ t > 0 /\ p <= q /\ q + t <= p + s
  BY DEF Within
<1>1. /\ Only(n, h, {"head", "foot"})
      /\ DOMAIN n.head = {x \in DOMAIN h.head : x <= q \/ x >= q + t} \cup {q}
      /\ n.head[q] = [size |-> t, pinuse |-> pin, cinuse |-> cin]
      /\ \A x \in DOMAIN n.head : x # q => n.head[x] = h.head[x]
      /\ DOMAIN n.foot = {x \in DOMAIN h.foot : (x <= q \/ x >= q + t) /\ (cin => x # q + t)}
      /\ \A x \in DOMAIN n.foot : n.foot[x] = h.foot[x]
  BY StoreHeadIs DEF WellFormed
<1> HIDE DEF n
<1>2. n.junk = h.junk /\ IsState(n)
  BY <1>1 DEF Only, FieldNames
<1>3. [size |-> t, pinuse |-> pin, cinuse |-> cin] \in HeadRecords
  BY <1>0 DEF HeadRecords
<1>4. \A x \in DOMAIN n.head : x \in Nat /\ n.head[x] \in HeadRecords
  BY <1>0, <1>1, <1>3 DEF WellFormed
<1>5. WellFormed(n)
  BY <1>1, <1>2, <1>4 DEF WellFormed
<1>6. \A x \in DOMAIN h.head : x < q \/ x >= q + t => x \in DOMAIN n.head /\ n.head[x] = h.head[x]
  BY <1>0, <1>1 DEF WellFormed
<1>7. \A x \in DOMAIN n.head : x # q => x \in DOMAIN h.head /\ (x < q \/ x >= q + t)
  BY <1>0, <1>1, <1>4
<1>8. \A x \in DOMAIN n.head : x \in Nat /\ (x \in DOMAIN h.head \/ (p <= x /\ x < p + s))
  BY <1>0, <1>1, <1>4
<1>9. \A x \in DOMAIN h.head : x < p \/ x > p + s => x \in DOMAIN n.head /\ n.head[x] = h.head[x]
  BY <1>0, <1>6 DEF WellFormed
<1>10. ASSUME p + s \in DOMAIN h.head
       PROVE  p + s \in DOMAIN n.head /\ n.head[p + s] = h.head[p + s] /\ n.head[p + s] \in HeadRecords
  BY <1>0, <1>4, <1>6, <1>10
<1>11. \A x \in DOMAIN h.foot : x <= p \/ x > p + s => x \in DOMAIN n.foot /\ n.foot[x] = h.foot[x]
  <2>1. ASSUME NEW x \in DOMAIN h.foot, x <= p \/ x > p + s
        PROVE  (x <= q \/ x >= q + t) /\ x # q + t
    BY <1>0, <2>1 DEF WellFormed
  <2>2. QED
    BY <1>1, <2>1
<1>12. WritesTo(h, n, e, p, s)
  BY <1>1, <1>5, <1>8, <1>9, <1>10, <1>11 DEF WritesTo, Writes
<1>13. QED
  BY <1>1, <1>6, <1>7, <1>12

PinuseStored(h, n, x, pin) ==
  /\ DOMAIN n.head = DOMAIN h.head \cup {x}
  /\ n.head[x] = [size |-> HeadAt(h, x).size, pinuse |-> pin, cinuse |-> HeadAt(h, x).cinuse]
  /\ \A y \in DOMAIN n.head : y # x => n.head[y] = h.head[y]

LEMMA StorePinuseIn ==
  ASSUME NEW h, WellFormed(h), NEW e, NEW p \in Nat, NEW s \in Nat, NEW x \in Nat,
         p <= x, x <= p + s, x = p + s => x \in DOMAIN h.head /\ x # e, NEW pin \in BOOLEAN
  PROVE  LET n == StorePinuse(h, x, pin)
         IN  WritesTo(h, n, e, p, s) /\ Only(n, h, {"head"}) /\ PinuseStored(h, n, x, pin)
<1> DEFINE n == StorePinuse(h, x, pin)
<1> SUFFICES /\ WritesTo(h, n, e, p, s) /\ Only(n, h, {"head"})
             /\ DOMAIN n.head = DOMAIN h.head \cup {x}
             /\ n.head[x] = [size |-> HeadAt(h, x).size, pinuse |-> pin,
                             cinuse |-> HeadAt(h, x).cinuse]
             /\ \A y \in DOMAIN n.head : y # x => n.head[y] = h.head[y]
  BY DEF PinuseStored
<1>1. /\ Only(n, h, {"head"})
      /\ DOMAIN n.head = DOMAIN h.head \cup {x}
      /\ n.head[x] = [size |-> HeadAt(h, x).size, pinuse |-> pin, cinuse |-> HeadAt(h, x).cinuse]
      /\ \A y \in DOMAIN n.head : y # x => n.head[y] = h.head[y]
  BY StorePinuseIs, HeadAtType DEF WellFormed
<1> HIDE DEF n
<1>2. n.junk = h.junk /\ IsState(n) /\ n.foot = h.foot
  BY <1>1 DEF Only, FieldNames
<1>3. n.head[x] \in HeadRecords
  BY <1>1, HeadAtType DEF HeadRecords
<1>4. \A y \in DOMAIN n.head : y \in Nat /\ n.head[y] \in HeadRecords
  BY <1>1, <1>3 DEF WellFormed
<1>5. WellFormed(n)
  BY <1>2, <1>4 DEF WellFormed
<1>6. \A y \in DOMAIN n.head : y \in Nat /\ (y \in DOMAIN h.head \/ (p <= y /\ y < p + s))
  BY <1>1, <1>4
<1>7. \A y \in DOMAIN h.head : y < p \/ y > p + s => y \in DOMAIN n.head /\ n.head[y] = h.head[y]
  BY <1>1
<1>8. ASSUME p + s \in DOMAIN h.head
      PROVE  /\ p + s \in DOMAIN n.head /\ n.head[p + s] \in HeadRecords
             /\ n.head[p + s].size = h.head[p + s].size
             /\ n.head[p + s].cinuse = h.head[p + s].cinuse
             /\ p + s = e => n.head[e] = h.head[e]
  <2>1. CASE x = p + s
    BY <1>1, <1>3, <1>8, <2>1, HeadAtType
  <2>2. CASE x # p + s
    BY <1>1, <1>4, <1>8, <2>2
  <2>3. QED
    BY <2>1, <2>2
<1>9. Only(n, h, {"head", "foot"})
  BY <1>1 DEF Only
<1>10. WritesTo(h, n, e, p, s)
  BY <1>2, <1>5, <1>6, <1>7, <1>8, <1>9 DEF WritesTo, Writes
<1>11. QED
  BY <1>1, <1>10

LEMMA SetFootIn ==
  ASSUME NEW h, WellFormed(h), NEW e, NEW p, NEW s, NEW q, NEW t, Within(q, t, p, s)
  PROVE  LET n == set_foot(h, q, t)
         IN  /\ WritesTo(h, n, e, p, s) /\ Only(n, h, {"foot"})
             /\ n.head = h.head
             /\ q + t \in DOMAIN n.foot /\ n.foot[q + t] = t
<1> DEFINE n == set_foot(h, q, t)
<1> SUFFICES /\ WritesTo(h, n, e, p, s) /\ Only(n, h, {"foot"})
             /\ n.head = h.head
             /\ q + t \in DOMAIN n.foot /\ n.foot[q + t] = t
  OBVIOUS
<1>0. p \in Nat /\ s \in Nat /\ q \in Nat /\ t \in Nat /\ p < q + t /\ q + t <= p + s
  BY DEF Within
<1>1. /\ Only(n, h, {"foot"})
      /\ DOMAIN n.foot = DOMAIN h.foot \cup {q + t} /\ n.foot[q + t] = t
      /\ \A x \in DOMAIN h.foot : x # q + t => n.foot[x] = h.foot[x]
  BY SetFootIs DEF WellFormed
<1> HIDE DEF n
<1>2. n.junk = h.junk /\ IsState(n) /\ n.head = h.head
  BY <1>1 DEF Only, FieldNames
<1>3. WellFormed(n)
  BY <1>0, <1>1, <1>2 DEF WellFormed
<1>4. \A x \in DOMAIN h.foot : x <= p \/ x > p + s => x \in DOMAIN n.foot /\ n.foot[x] = h.foot[x]
  BY <1>0, <1>1 DEF WellFormed
<1>5. Only(n, h, {"head", "foot"})
  BY <1>1 DEF Only
<1>6. WritesTo(h, n, e, p, s)
  BY <1>2, <1>3, <1>4, <1>5 DEF WritesTo, Writes, WellFormed
<1>7. QED
  BY <1>1, <1>2, <1>6

UsedStored(h, n, q, t, pin) ==
  /\ q \in DOMAIN n.head /\ n.head[q] = [size |-> t, pinuse |-> pin, cinuse |-> TRUE]
  /\ q + t \in DOMAIN n.head /\ n.head[q + t].pinuse
  /\ \A x \in DOMAIN h.head : x < q \/ x > q + t => x \in DOMAIN n.head /\ n.head[x] = h.head[x]
  /\ \A x \in DOMAIN n.head : x # q /\ x # q + t => x \in DOMAIN h.head /\ (x < q \/ x > q + t)

FreeStored(h, n, q, t) ==
  /\ HeadStored(h, n, q, t, TRUE, FALSE)
  /\ q + t \in DOMAIN n.foot /\ n.foot[q + t] = t

(* A used chunk at q, and PINUSE_BIT behind it. *)
UsedHead(h, q, t, pin) == StorePinuse(StoreHead(h, q, t, pin, TRUE), q + t, TRUE)

HasNext(h, n, e) == n \in DOMAIN h.head /\ n # e

LEMMA UsedHeadIs ==
  ASSUME NEW h, NEW q, NEW t
  PROVE  /\ set_inuse(h, q, t) = UsedHead(h, q, t, pinuse(h, q))
         /\ set_inuse_and_pinuse(h, q, t) = UsedHead(h, q, t, TRUE)
BY DEF set_inuse, set_inuse_and_pinuse, UsedHead

LEMMA UsedIn ==
  ASSUME NEW h, WellFormed(h), NEW e, NEW p, NEW s, NEW q, NEW t, Within(q, t, p, s),
         NEW pin \in BOOLEAN,
         q + t = p + s => HasNext(h, p + s, e)
  PROVE  LET n == UsedHead(h, q, t, pin)
         IN  WritesTo(h, n, e, p, s) /\ UsedStored(h, n, q, t, pin)
<1> DEFINE k == StoreHead(h, q, t, pin, TRUE)
           y == q + t
           n == StorePinuse(k, y, TRUE)
<1>1. WritesTo(h, k, e, p, s) /\ HeadStored(h, k, q, t, pin, TRUE)
  BY StoreHeadIn
<1>2. /\ y \in Nat /\ y # q /\ p <= y /\ y <= p + s
      /\ p \in Nat /\ s \in Nat /\ q \in Nat /\ t \in Nat
  BY DEF Within
<1> SUFFICES /\ WritesTo(h, n, e, p, s)
             /\ q \in DOMAIN n.head /\ n.head[q] = [size |-> t, pinuse |-> pin, cinuse |-> TRUE]
             /\ y \in DOMAIN n.head /\ n.head[y].pinuse
             /\ \A x \in DOMAIN h.head : x < q \/ x > y
                  => x \in DOMAIN n.head /\ n.head[x] = h.head[x]
             /\ \A x \in DOMAIN n.head : x # q /\ x # y
                  => x \in DOMAIN h.head /\ (x < q \/ x > y)
  BY DEF UsedStored, UsedHead
<1> HIDE DEF k
<1>3. /\ q \in DOMAIN k.head /\ k.head[q] = [size |-> t, pinuse |-> pin, cinuse |-> TRUE]
      /\ \A x \in DOMAIN h.head : x < q \/ x >= y
                  => x \in DOMAIN k.head /\ k.head[x] = h.head[x]
      /\ \A x \in DOMAIN k.head : x # q => x \in DOMAIN h.head /\ (x < q \/ x >= y)
  BY <1>1 DEF HeadStored
<1>4. y = p + s => y \in DOMAIN k.head /\ y # e
  BY <1>2, <1>3 DEF HasNext
<1>5. WellFormed(k)
  BY <1>1 DEF WritesTo
<1>6. WritesTo(k, n, e, p, s) /\ PinuseStored(k, n, y, TRUE)
  <2> HIDE DEF y
  <2> QED
    BY <1>2, <1>4, <1>5, StorePinuseIn
<1> HIDE DEF n
<1>7. WritesTo(h, n, e, p, s)
  BY <1>1, <1>2, <1>6, WritesCompose
<1>8. \A x \in DOMAIN h.head : x \in Nat
  BY DEF WellFormed
<1>9. QED
  BY <1>1, <1>2, <1>3, <1>6, <1>7, <1>8 DEF PinuseStored

(* A free chunk at q, and its size behind it. *)
LEMMA FreeIn ==
  ASSUME NEW h, WellFormed(h), NEW e, NEW p, NEW s, NEW q, NEW t, Within(q, t, p, s)
  PROVE  LET n == set_size_and_pinuse_of_free_chunk(h, q, t)
         IN  WritesTo(h, n, e, p, s) /\ FreeStored(h, n, q, t)
<1> DEFINE k == StoreHead(h, q, t, TRUE, FALSE)
           n == set_foot(k, q, t)
<1> SUFFICES WritesTo(h, n, e, p, s) /\ FreeStored(h, n, q, t)
  BY DEF set_size_and_pinuse_of_free_chunk
<1>1. WritesTo(h, k, e, p, s) /\ HeadStored(h, k, q, t, TRUE, FALSE)
  BY StoreHeadIn
<1> HIDE DEF k
<1>2. WellFormed(k) /\ p \in Nat /\ s \in Nat
  BY <1>1 DEF WritesTo, Within
<1>3. /\ WritesTo(k, n, e, p, s)
      /\ n.head = k.head
      /\ q + t \in DOMAIN n.foot /\ n.foot[q + t] = t
  BY <1>2, SetFootIn
<1> HIDE DEF n
<1>4. WritesTo(h, n, e, p, s)
  BY <1>1, <1>2, <1>3, WritesCompose
<1>5. QED
  BY <1>1, <1>3, <1>4 DEF FreeStored, HeadStored

IsCut(t, sz, p, a, b, r, e) ==
  /\ DOMAIN t = DOMAIN sz \cup {r} /\ t[p] = a /\ t[r] = b /\ r + b = p + sz[p]
  /\ r \in Nat /\ r \notin DOMAIN sz /\ r # p /\ r # e
  /\ \A c \in DOMAIN sz : c # p => t[c] = sz[c]

LEMMA CutInTwo ==
  ASSUME NEW lo, NEW e, NEW sz, Tiling(lo, e, sz), NEW p \in DOMAIN sz, NEW a \in Nat, NEW b \in Nat,
         a > 0, b > 0, a + b = sz[p], NEW r, r = p + a
  PROVE  IsCut(CutChunk(sz, p, a), sz, p, a, b, r, e)
<1> DEFINE t == CutChunk(sz, p, a)
<1>1. /\ p \in Nat /\ 0 < a /\ a < sz[p] /\ sz[p] - a = b /\ r + b = p + sz[p]
  BY TilingArith
<1>2. /\ DOMAIN t = DOMAIN sz \cup {r} /\ t[p] = a /\ t[r] = sz[p] - a
      /\ r \notin DOMAIN sz /\ r # p /\ r # e
      /\ \A c \in DOMAIN sz : c # p => t[c] = sz[c]
  <2>1. r \notin DOMAIN sz /\ r # p /\ r # e
    BY <1>1, TilingArith
  <2>2. QED
    BY <1>1, <2>1 DEF CutChunk
<1>3. QED
  BY <1>1, <1>2 DEF IsCut

(* What the chunk at p becomes that was the hole of a layout. *)

LEMMA UseHole ==
  ASSUME NEW h, WellFormed(h), NEW bins, NEW dv, NEW dvsize, NEW lo, NEW e, NEW top, NEW sz, NEW U,
         NEW p \in DOMAIN sz, Layout(h.head, h.foot, bins, dv, dvsize, lo, e, top, sz, U, p),
         p # top, NEW s, s = sz[p], s >= 16, NEW pin \in BOOLEAN, pin <=> PredUsed(lo, sz, U, p)
  PROVE  LET n == UsedHead(h, p, s, pin)
         IN  /\ WritesTo(h, n, e, p, s)
             /\ Layout(n.head, n.foot, bins, dv, dvsize, lo, e, top, sz, U, e)
<1> DEFINE n == UsedHead(h, p, s, pin)
<1> SUFFICES /\ WritesTo(h, n, e, p, s)
             /\ Layout(n.head, n.foot, bins, dv, dvsize, lo, e, top, sz, U, e)
  OBVIOUS
<1>1. /\ p \in Nat /\ s \in Nat /\ s > 0 /\ p + s \in Nat
      /\ p + s \in DOMAIN sz /\ p + s # p /\ p + s # e
  <2>1. top \in DOMAIN sz /\ top + sz[top] = e
    BY LayoutHole
  <2>2. QED
    BY <2>1, TilingArith DEF Layout
<1>2. HasNext(h, p + s, e)
  BY <1>1 DEF Layout, Heads, HasNext
<1>3. WritesTo(h, n, e, p, s) /\ UsedStored(h, n, p, s, pin)
  <2>1. Within(p, s, p, s)
    BY <1>1 DEF Within
  <2>2. QED
    BY <1>1, <1>2, <2>1, UsedIn
<1> HIDE DEF n
<1>4. Layout(n.head, n.foot, bins, dv, dvsize, lo, e, top, sz, U, p)
  BY <1>3, LayoutFrame DEF WritesTo
<1>5. NoHeads(n.head, p, s)
  BY <1>1, <1>3 DEF NoHeads, UsedStored, WritesTo, WellFormed
<1>6. /\ p \in DOMAIN n.head /\ n.head[p] \in HeadRecords /\ n.head[p].size = s
      /\ n.head[p].cinuse /\ (n.head[p].pinuse <=> pin) /\ n.head[p + s].pinuse
  BY <1>3 DEF UsedStored, WritesTo, WellFormed
<1>7. QED
  BY <1>3, <1>4, <1>5, <1>6, LayoutCloseUsed

(* The hole becomes two used chunks. *)
LEMMA UseTwice ==
  ASSUME NEW h, NEW n, NEW bins, NEW dv, NEW dvsize, NEW lo, NEW e, NEW top, NEW sz, NEW U,
         NEW p \in DOMAIN sz, Layout(h.head, h.foot, bins, dv, dvsize, lo, e, top, sz, U, p),
         p # top, NEW a \in Nat, NEW b \in Nat, a >= 16, b >= 16, a % 8 = 0, a + b = sz[p],
         NEW pin \in BOOLEAN, pin <=> PredUsed(lo, sz, U, p), NEW r, r = p + a,
         WritesTo(h, n, e, p, a + b),
         p \in DOMAIN n.head, n.head[p] = [size |-> a, pinuse |-> pin, cinuse |-> TRUE],
         r \in DOMAIN n.head, n.head[r] = [size |-> b, pinuse |-> TRUE, cinuse |-> TRUE],
         n.head[r + b].pinuse, NoHeads(n.head, p, a), NoHeads(n.head, r, b)
  PROVE  Layout(n.head, n.foot, bins, dv, dvsize, lo, e, top, CutChunk(sz, p, a), U \cup {r}, e)
<1> DEFINE t == CutChunk(sz, p, a)
<1>1. Layout(n.head, n.foot, bins, dv, dvsize, lo, e, top, sz, U, p)
  BY LayoutFrame DEF WritesTo
<1>2. n.head[p] \in HeadRecords /\ n.head[r] \in HeadRecords
  BY DEF WritesTo, WellFormed
<1>3. Layout(n.head, n.foot, bins, dv, dvsize, lo, e, top, t, U \cup {r}, r)
  <2>1. a < sz[p] /\ NoHeads(n.head, p, a)
    OBVIOUS
  <2>2. n.head[p].size = a /\ n.head[p].cinuse /\ (n.head[p].pinuse <=> PredUsed(lo, sz, U, p))
    <3>1. (n.head[p].pinuse <=> pin) /\ n.head[p].size = a /\ n.head[p].cinuse
      OBVIOUS
    <3>2. QED
      BY <3>1
  <2>3. Layout(n.head, n.foot, bins, dv, dvsize, lo, e, IF p = top THEN r ELSE top, t, U \cup {r}, r)
    BY <1>1, <1>2, <2>1, <2>2, LayoutAdvance
  <2>4. QED
    BY <2>3
<1>4. /\ DOMAIN t = DOMAIN sz \cup {r} /\ t[p] = a /\ t[r] = b /\ r \notin DOMAIN sz
  <2>1. Tiling(lo, e, sz) /\ a > 0 /\ b > 0
    BY DEF Layout
  <2>2. IsCut(t, sz, p, a, b, r, e)
    BY <2>1, CutInTwo
  <2>3. QED
    BY <2>2 DEF IsCut
<1>5. p \in U /\ top \in DOMAIN sz
  BY LayoutHole
<1> HIDE DEF t
<1>6. PredUsed(lo, t, U \cup {r}, r)
  BY <1>4, <1>5 DEF PredUsed
<1>7. QED
  <2>1. r \in DOMAIN t /\ r # top /\ t[r] >= 16
    BY <1>4, <1>5
  <2>2. Layout(n.head, n.foot, bins, dv, dvsize, lo, e, top, t, U \cup {r}, e)
    BY <1>2, <1>3, <1>4, <1>6, <2>1, LayoutCloseUsed
  <2>3. QED
    BY <2>2 DEF t

(* The second part of the hole becomes a free chunk. *)
LEMMA FreeRest ==
  ASSUME NEW h, NEW n, NEW bins, NEW dv, NEW dvsize, NEW lo, NEW e, NEW top, NEW sz, NEW U,
         NEW p \in DOMAIN sz, Layout(h.head, h.foot, bins, dv, dvsize, lo, e, top, sz, U, p),
         p # top, NEW a \in Nat, NEW b \in Nat, a >= 16, b >= 16, a % 8 = 0, a + b = sz[p],
         NEW pin \in BOOLEAN, pin <=> PredUsed(lo, sz, U, p), NEW r, r = p + a,
         WritesTo(h, n, e, p, a + b),
         p \in DOMAIN n.head, n.head[p] = [size |-> a, pinuse |-> pin, cinuse |-> TRUE],
         r \in DOMAIN n.head, n.head[r] = [size |-> b, pinuse |-> TRUE, cinuse |-> FALSE],
         r + b \in U, ~n.head[r + b].pinuse, r + b \in DOMAIN n.foot, n.foot[r + b] = b,
         NoHeads(n.head, p, a), NoHeads(n.head, r, b),
         NEW bins2, NEW dv2, NEW dvsize2,
         BinsOK(bins2, dv2, dvsize2, CutChunk(sz, p, a), FreeChunks(sz, U, top) \cup {r})
  PROVE  Layout(n.head, n.foot, bins2, dv2, dvsize2, lo, e, top, CutChunk(sz, p, a), U, e)
<1> DEFINE t == CutChunk(sz, p, a)
           V == U \cup {r}
<1>1. Layout(n.head, n.foot, bins, dv, dvsize, lo, e, top, sz, U, p)
  BY LayoutFrame DEF WritesTo
<1>2. n.head[p] \in HeadRecords /\ n.head[r] \in HeadRecords
  BY DEF WritesTo, WellFormed
<1>3. Layout(n.head, n.foot, bins, dv, dvsize, lo, e, top, t, V, r)
  <2>1. a < sz[p] /\ NoHeads(n.head, p, a)
    OBVIOUS
  <2>2. n.head[p].size = a /\ n.head[p].cinuse /\ (n.head[p].pinuse <=> PredUsed(lo, sz, U, p))
    <3>1. (n.head[p].pinuse <=> pin) /\ n.head[p].size = a /\ n.head[p].cinuse
      OBVIOUS
    <3>2. QED
      BY <3>1
  <2>3. Layout(n.head, n.foot, bins, dv, dvsize, lo, e, IF p = top THEN r ELSE top, t, V, r)
    BY <1>1, <1>2, <2>1, <2>2, LayoutAdvance
  <2>4. QED
    BY <2>3
<1>4. IsCut(t, sz, p, a, b, r, e)
  <2>1. Tiling(lo, e, sz) /\ a > 0 /\ b > 0
    BY DEF Layout
  <2>2. QED
    BY <2>1, CutInTwo
<1>5. p \in U /\ top \in DOMAIN sz /\ U \subseteq DOMAIN sz
  BY LayoutHole
<1>6. FreeChunks(t, V, top) \cup {r} = FreeChunks(sz, U, top) \cup {r}
  BY <1>4, <1>5 DEF FreeChunks, IsCut
<1>7. V \ {r} = U
  BY <1>4, <1>5 DEF IsCut
<1>8. BinsOK(bins2, dv2, dvsize2, t, FreeChunks(t, V, top) \cup {r})
  BY <1>6
<1>9. PredUsed(lo, t, V, r) /\ r + b \in V /\ r \in DOMAIN t /\ t[r] = b
  BY <1>4, <1>5 DEF PredUsed, IsCut
<1> HIDE DEF t, V
<1>10. Layout(n.head, n.foot, bins2, dv2, dvsize2, lo, e, top, t, V \ {r}, e)
  BY <1>2, <1>3, <1>8, <1>9, LayoutCloseFree
<1>11. QED
  BY <1>7, <1>10 DEF t

(* The second part of the hole is the new top. *)
LEMMA TopRest ==
  ASSUME NEW h, NEW n, NEW bins, NEW dv, NEW dvsize, NEW lo, NEW e, NEW sz, NEW U,
         NEW p \in DOMAIN sz, Layout(h.head, h.foot, bins, dv, dvsize, lo, e, p, sz, U, p),
         NEW a \in Nat, NEW b \in Nat, a >= 16, b > 0, a % 8 = 0, a + b = sz[p],
         NEW pin \in BOOLEAN, pin <=> PredUsed(lo, sz, U, p), NEW r, r = p + a,
         WritesTo(h, n, e, p, a + b),
         p \in DOMAIN n.head, n.head[p] = [size |-> a, pinuse |-> pin, cinuse |-> TRUE],
         r \in DOMAIN n.head, n.head[r] = [size |-> b, pinuse |-> TRUE, cinuse |-> FALSE],
         NoHeads(n.head, p, a), NoHeads(n.head, r, b)
  PROVE  Layout(n.head, n.foot, bins, dv, dvsize, lo, e, r, CutChunk(sz, p, a), U, e)
<1> DEFINE t == CutChunk(sz, p, a)
           V == U \cup {r}
<1>1. Layout(n.head, n.foot, bins, dv, dvsize, lo, e, p, sz, U, p)
  BY LayoutFrame DEF WritesTo
<1>2. n.head[p] \in HeadRecords /\ n.head[r] \in HeadRecords
  BY DEF WritesTo, WellFormed
<1>3. Layout(n.head, n.foot, bins, dv, dvsize, lo, e, r, t, V, r)
  <2>1. a < sz[p] /\ NoHeads(n.head, p, a)
    OBVIOUS
  <2>2. n.head[p].size = a /\ n.head[p].cinuse /\ (n.head[p].pinuse <=> PredUsed(lo, sz, U, p))
    <3>1. (n.head[p].pinuse <=> pin) /\ n.head[p].size = a /\ n.head[p].cinuse
      OBVIOUS
    <3>2. QED
      BY <3>1
  <2>3. Layout(n.head, n.foot, bins, dv, dvsize, lo, e, IF p = p THEN r ELSE p, t, V, r)
    BY <1>1, <1>2, <2>1, <2>2, LayoutAdvance
  <2>4. QED
    BY <2>3
<1>4. IsCut(t, sz, p, a, b, r, e)
  <2>1. Tiling(lo, e, sz) /\ a > 0 /\ b > 0
    BY DEF Layout
  <2>2. QED
    BY <2>1, CutInTwo
<1>5. p \in U /\ U \subseteq DOMAIN sz
  BY LayoutHole
<1>6. V \ {r} = U
  BY <1>4, <1>5 DEF IsCut
<1>7. PredUsed(lo, t, V, r) /\ t[r] = b
  BY <1>4, <1>5 DEF PredUsed, IsCut
<1> HIDE DEF t, V
<1>8. Layout(n.head, n.foot, bins, dv, dvsize, lo, e, r, t, V \ {r}, e)
  BY <1>2, <1>3, <1>7, LayoutCloseTop
<1>9. QED
  BY <1>6, <1>8 DEF t

-----------------------------------------------------------------------------
(* What a layout without a hole says of its chunks. *)

LEMMA ChunkFacts ==
  ASSUME NEW head, NEW foot, NEW bins, NEW dv, NEW dvsize, NEW lo, NEW e, NEW top, NEW sz, NEW U,
         Layout(head, foot, bins, dv, dvsize, lo, e, top, sz, U, e), NEW c \in DOMAIN sz
  PROVE  /\ c \in Nat /\ lo \in Nat /\ e \in Nat /\ c >= lo /\ c # e /\ c % 8 = 0
         /\ sz[c] \in Nat /\ sz[c] % 8 = 0 /\ sz[c] > 0 /\ c + sz[c] <= e
         /\ c \in DOMAIN head /\ head[c] \in HeadRecords /\ head[c].size = sz[c]
         /\ head[c].cinuse <=> c \in U
         /\ head[c].pinuse <=> PredUsed(lo, sz, U, c)
         /\ c \notin U => head[c].pinuse
         /\ c # top => /\ sz[c] >= 16 /\ c + sz[c] \in DOMAIN sz /\ c + sz[c] \in DOMAIN head
                       /\ c + sz[c] # e /\ c + sz[c] # c
                       /\ head[c + sz[c]] \in HeadRecords
                       /\ head[c + sz[c]].pinuse <=> c \in U
         /\ c \in FreeChunks(sz, U, top) => /\ c + sz[c] \in U /\ c + sz[c] \in DOMAIN foot
                                            /\ foot[c + sz[c]] = sz[c]
<1>1. /\ lo \in Nat /\ e \in Nat /\ e \notin DOMAIN sz /\ lo \in DOMAIN sz
      /\ \A d \in DOMAIN sz : /\ d \in Nat /\ sz[d] \in Nat /\ sz[d] > 0
                              /\ lo <= d /\ d < e /\ d + sz[d] <= e
                              /\ d + sz[d] \in DOMAIN sz \/ d + sz[d] = e
      /\ \A d \in DOMAIN sz, f \in DOMAIN sz : /\ d < f => d + sz[d] <= f
                                               /\ d + sz[d] = f + sz[f] => d = f
  BY TilingArith DEF Layout
<1>2. c % 8 = 0 /\ sz[c] % 8 = 0 /\ (c = lo \/ \E d \in DOMAIN sz : d + sz[d] = c)
  BY DEF Layout, Tiling
<1>3. /\ U \subseteq DOMAIN sz /\ top \in DOMAIN sz /\ top + sz[top] = e /\ top \notin U
      /\ \A d \in DOMAIN sz : /\ d \in DOMAIN head /\ head[d] \in HeadRecords /\ head[d].size = sz[d]
                              /\ head[d].cinuse <=> d \in U
      /\ \A d \in DOMAIN sz : d # top /\ d + sz[d] # e => (head[d + sz[d]].pinuse <=> d \in U)
      /\ head[lo].pinuse
      /\ \A d \in DOMAIN sz \ U : d # top => /\ d + sz[d] \in U
                                             /\ d + sz[d] \in DOMAIN foot
                                             /\ foot[d + sz[d]] = sz[d]
      /\ \A d \in DOMAIN sz : d # top => sz[d] >= 16
  BY <1>1 DEF Layout, Heads
<1>4. c # top => c + sz[c] # e
  BY <1>1, <1>3
<1>5. \A d \in DOMAIN sz : d + sz[d] = c => d # top /\ (head[c].pinuse <=> d \in U)
  BY <1>1, <1>3
<1>6. head[c].pinuse <=> PredUsed(lo, sz, U, c)
  <2>1. CASE c = lo
    BY <1>3, <2>1 DEF PredUsed
  <2>2. CASE c # lo
    <3>1. PICK d \in DOMAIN sz : d + sz[d] = c
      BY <1>2, <2>2
    <3>2. \A f \in DOMAIN sz : f + sz[f] = c => f = d
      BY <1>1, <3>1
    <3>3. QED
      BY <1>3, <1>5, <2>2, <3>1, <3>2 DEF PredUsed
  <2>3. QED
    BY <2>1, <2>2
<1>7. c \notin U => head[c].pinuse
  <2>1. CASE c = lo
    BY <1>3, <2>1 DEF PredUsed
  <2>2. CASE c # lo
    BY <1>2, <1>3, <1>5, <2>2
  <2>3. QED
    BY <2>1, <2>2
<1>8. QED
  BY <1>1, <1>2, <1>3, <1>4, <1>6, <1>7 DEF FreeChunks

LEMMA PredFree ==
  ASSUME NEW head, NEW foot, NEW bins, NEW dv, NEW dvsize, NEW lo, NEW e, NEW top, NEW sz, NEW U,
         Layout(head, foot, bins, dv, dvsize, lo, e, top, sz, U, e), NEW c \in DOMAIN sz,
         ~head[c].pinuse
  PROVE  /\ c \in DOMAIN foot /\ foot[c] \in Nat /\ c - foot[c] \in FreeChunks(sz, U, top)
         /\ sz[c - foot[c]] = foot[c]
         /\ PredUsed(lo, sz, U, c - foot[c])
<1>1. c # lo
  BY ChunkFacts DEF PredUsed
<1>2. PICK d \in DOMAIN sz : d + sz[d] = c
  BY <1>1 DEF Layout, Tiling
<1>3. d # top
  BY <1>2, TilingArith, LayoutHole DEF Layout
<1>4. d \in Nat /\ sz[d] \in Nat /\ d \notin U
  BY <1>2, <1>3, ChunkFacts
<1>5. d \in FreeChunks(sz, U, top)
  BY <1>3, <1>4 DEF FreeChunks
<1>6. c \in DOMAIN foot /\ foot[c] = sz[d] /\ c - sz[d] = d
  BY <1>2, <1>4, <1>5, ChunkFacts
<1>7. PredUsed(lo, sz, U, d)
  BY <1>4, ChunkFacts
<1>8. QED
  BY <1>4, <1>5, <1>6, <1>7

(* What malloc and free change: everything else belongs to the system's side. *)
ChunkFields == {"head", "foot", "bins", "top", "topsize", "dv", "dvsize"}

(* The memory of h from lo to the fencepost e consists of the chunks of    *)
(* sz, and U are in use.                                                   *)
HeapOf(h, lo, e, sz, U) ==
  /\ WellFormed(h)
  /\ Layout(h.head, h.foot, h.bins, h.dv, h.dvsize, lo, e, h.top, sz, U, e)
  /\ h.topsize = sz[h.top]

(* n is h with the chunk at p, of nb bytes at least, in use.               *)
Served(h, n, p, nb, lo, e, sz, U) ==
  /\ Only(n, h, ChunkFields) /\ p \notin U
  /\ \E t : /\ HeapOf(n, lo, e, t, U \cup {p})
            /\ t[p] >= nb /\ PredUsed(lo, t, U \cup {p}, p)
            /\ \A c \in U : t[c] = sz[c]

LEMMA FieldsOf ==
  ASSUME NEW n, NEW h, IsState(h)
  PROVE  /\ Only(n, h, {"bins"}) =>
              /\ n.head = h.head /\ n.foot = h.foot /\ n.top = h.top /\ n.topsize = h.topsize
              /\ n.dv = h.dv /\ n.dvsize = h.dvsize /\ n.junk = h.junk /\ Only(n, h, ChunkFields)
         /\ Only(n, h, {"head", "foot"}) =>
              /\ n.bins = h.bins /\ n.top = h.top /\ n.topsize = h.topsize
              /\ n.dv = h.dv /\ n.dvsize = h.dvsize /\ n.junk = h.junk /\ Only(n, h, ChunkFields)
         /\ Only(n, h, {"dv", "dvsize"}) =>
              /\ n.head = h.head /\ n.foot = h.foot /\ n.top = h.top /\ n.topsize = h.topsize
              /\ n.bins = h.bins /\ n.junk = h.junk /\ Only(n, h, ChunkFields)
         /\ Only(n, h, {"bins", "dv", "dvsize"}) =>
              /\ n.head = h.head /\ n.foot = h.foot /\ n.top = h.top /\ n.topsize = h.topsize
              /\ n.junk = h.junk /\ Only(n, h, ChunkFields)
         /\ Only(n, h, {"top", "topsize"}) =>
              /\ n.head = h.head /\ n.foot = h.foot /\ n.dv = h.dv /\ n.dvsize = h.dvsize
              /\ n.bins = h.bins /\ n.junk = h.junk /\ Only(n, h, ChunkFields)
         /\ Only(n, h, {"top", "topsize", "dv", "dvsize"}) =>
              /\ n.head = h.head /\ n.foot = h.foot
              /\ n.bins = h.bins /\ n.junk = h.junk /\ Only(n, h, ChunkFields)
<1>1. ASSUME Only(n, h, {"bins"})
      PROVE  /\ n.head = h.head /\ n.foot = h.foot /\ n.top = h.top /\ n.topsize = h.topsize
             /\ n.dv = h.dv /\ n.dvsize = h.dvsize /\ n.junk = h.junk /\ Only(n, h, ChunkFields)
  BY <1>1 DEF Only, FieldNames, ChunkFields
<1>2. ASSUME Only(n, h, {"head", "foot"})
      PROVE  /\ n.bins = h.bins /\ n.top = h.top /\ n.topsize = h.topsize
             /\ n.dv = h.dv /\ n.dvsize = h.dvsize /\ n.junk = h.junk /\ Only(n, h, ChunkFields)
  BY <1>2 DEF Only, FieldNames, ChunkFields
<1>3. ASSUME Only(n, h, {"dv", "dvsize"})
      PROVE  /\ n.head = h.head /\ n.foot = h.foot /\ n.top = h.top /\ n.topsize = h.topsize
             /\ n.bins = h.bins /\ n.junk = h.junk /\ Only(n, h, ChunkFields)
  BY <1>3 DEF Only, FieldNames, ChunkFields
<1>4. ASSUME Only(n, h, {"bins", "dv", "dvsize"})
      PROVE  /\ n.head = h.head /\ n.foot = h.foot /\ n.top = h.top /\ n.topsize = h.topsize
             /\ n.junk = h.junk /\ Only(n, h, ChunkFields)
  BY <1>4 DEF Only, FieldNames, ChunkFields
<1>5. ASSUME Only(n, h, {"top", "topsize"})
      PROVE  /\ n.head = h.head /\ n.foot = h.foot /\ n.dv = h.dv /\ n.dvsize = h.dvsize
             /\ n.bins = h.bins /\ n.junk = h.junk /\ Only(n, h, ChunkFields)
  BY <1>5 DEF Only, FieldNames, ChunkFields
<1>6. ASSUME Only(n, h, {"top", "topsize", "dv", "dvsize"})
      PROVE  /\ n.head = h.head /\ n.foot = h.foot
             /\ n.bins = h.bins /\ n.junk = h.junk /\ Only(n, h, ChunkFields)
  BY <1>6 DEF Only, FieldNames, ChunkFields
<1>7. QED
  BY <1>1, <1>2, <1>3, <1>4, <1>5, <1>6

BinsSet(h, a)     == [h EXCEPT !.bins = a]
DvSet(h, a, b)    == [h EXCEPT !.dv = a, !.dvsize = b]
TopSet(h, a, b)   == [h EXCEPT !.top = a, !.topsize = b]

LEMMA WithBins ==
  ASSUME NEW h, IsState(h), NEW a
  PROVE  Only(BinsSet(h, a), h, {"bins"}) /\ BinsSet(h, a).bins = a
BY DEF BinsSet, Only, IsState, FieldNames

LEMMA WithDv ==
  ASSUME NEW h, IsState(h), NEW a, NEW b
  PROVE  /\ Only(DvSet(h, a, b), h, {"dv", "dvsize"})
         /\ DvSet(h, a, b).dv = a /\ DvSet(h, a, b).dvsize = b
BY DEF DvSet, Only, IsState, FieldNames

LEMMA WithTop ==
  ASSUME NEW h, IsState(h), NEW a, NEW b
  PROVE  /\ Only(TopSet(h, a, b), h, {"top", "topsize"})
         /\ TopSet(h, a, b).top = a /\ TopSet(h, a, b).topsize = b
BY DEF TopSet, Only, IsState, FieldNames

LEMMA WellFormedIs ==
  ASSUME NEW n, NEW h, WellFormed(h), IsState(n), n.head = h.head, n.foot = h.foot, n.junk = h.junk
  PROVE  WellFormed(n)
BY DEF WellFormed

-----------------------------------------------------------------------------
(* A chunk out of its bin. *)

Opened(k, h, v, s, lo, e, sz, U) ==
  /\ WellFormed(k) /\ Only(k, h, {"bins"})
  /\ Layout(k.head, k.foot, k.bins, k.dv, k.dvsize, lo, e, k.top, sz, U \cup {v}, v)
  /\ PredUsed(lo, sz, U \cup {v}, v)
  /\ v + s \in U /\ ~k.head[v + s].pinuse
  /\ v # k.top /\ v # k.dv /\ v \notin U /\ v # 0 /\ s >= 16 /\ s % 8 = 0

LEMMA UnlinkOpens ==
  ASSUME NEW h, NEW lo, NEW e, NEW sz, NEW U, HeapOf(h, lo, e, sz, U),
         NEW v \in FreeChunks(sz, U, h.top), v # h.dv, NEW s, s = sz[v]
  PROVE  Opened(unlink_chunk(h, v, s), h, v, s, lo, e, sz, U)
<1> DEFINE k == unlink_chunk(h, v, s)
           b == Take(h.bins, v, s)
<1> SUFFICES Opened(k, h, v, s, lo, e, sz, U)
  OBVIOUS
<1>1. /\ Binned(h.bins, v, s)
      /\ Layout(h.head, h.foot, b, h.dv, h.dvsize, lo, e, h.top, sz, U \cup {v}, v)
  BY LayoutOpenBinned DEF HeapOf
<1>2. k = [h EXCEPT !.bins = Take(@, v, s)]
  BY <1>1 DEF unlink_chunk, Binned
<1>3. IsState(h) /\ WellFormed(h)
  BY DEF HeapOf, WellFormed
<1>4. Only(k, h, {"bins"}) /\ k.bins = b
  <2>1. k = BinsSet(h, b)
    BY <1>2 DEF BinsSet
  <2> HIDE DEF b, k
  <2>2. QED
    BY <1>3, <2>1, WithBins
<1> HIDE DEF k
<1>5. WellFormed(k) /\ k.head = h.head /\ k.foot = h.foot /\ k.dv = h.dv /\ k.dvsize = h.dvsize /\ k.top = h.top
  BY <1>3, <1>4, FieldsOf, WellFormedIs DEF Only
<1>6. v \in DOMAIN sz /\ v \notin U /\ v # h.top
  BY DEF FreeChunks
<1>7. /\ h.head[v].pinuse <=> PredUsed(lo, sz, U, v)
      /\ h.head[v].pinuse
      /\ sz[v] >= 16 /\ sz[v] % 8 = 0
      /\ h.head[v + sz[v]].pinuse <=> v \in U
      /\ v + sz[v] \in U
  BY <1>6, ChunkFacts DEF HeapOf
<1>8. PredUsed(lo, sz, U \cup {v}, v)
  BY <1>7 DEF PredUsed
<1>9. v # 0
  BY DEF HeapOf, Layout, BinsOK
<1>10. Layout(k.head, k.foot, k.bins, k.dv, k.dvsize, lo, e, k.top, sz, U \cup {v}, v)
  BY <1>1, <1>4, <1>5
<1>11. v + s \in U /\ ~k.head[v + s].pinuse /\ v # k.top /\ v # k.dv
  BY <1>5, <1>6, <1>7
<1>12. QED
  BY <1>4, <1>5, <1>6, <1>7, <1>8, <1>9, <1>10, <1>11 DEF Opened

LEMMA InsertIs ==
  ASSUME NEW h, IsState(h), NEW p, NEW s
  PROVE  LET n == insert_chunk(h, p, s)
         IN  Only(n, h, {"bins"}) /\ n.bins = Put(h.bins, p, s)
<1>1. insert_chunk(h, p, s) = BinsSet(h, Put(h.bins, p, s))
  BY DEF insert_chunk, BinsSet
<1>2. QED
  BY <1>1, WithBins

Sized(sz, F) == \A c \in F : sz[c] # 0

DvReplaced(n, h, p, s, sz, F) ==
  /\ Only(n, h, {"bins", "dv", "dvsize"}) /\ n.dv = p /\ n.dvsize = s
  /\ BinsOK(n.bins, p, s, sz, F \cup {p})

(* The old dv is binned. *)
LEMMA ReplaceDvIs ==
  ASSUME NEW h, IsState(h), NEW p, NEW s, NEW sz, NEW F, BinsOK(h.bins, h.dv, h.dvsize, sz, F),
         Sized(sz, F), h.dvsize < MIN_LARGE_SIZE, h.dvsize \in Nat,
         p \notin F, p # 0, s = sz[p]
  PROVE  DvReplaced(replace_dv(h, p, s), h, p, s, sz, F)
<1> DEFINE n == replace_dv(h, p, s)
<1> SUFFICES /\ Only(n, h, {"bins", "dv", "dvsize"}) /\ n.dv = p /\ n.dvsize = s
             /\ BinsOK(n.bins, p, s, sz, F \cup {p})
  BY DEF DvReplaced
<1>1. CASE h.dvsize = 0
  <2>1. n = [h EXCEPT !.dv = p, !.dvsize = s]
    BY <1>1 DEF replace_dv
  <2>2. Only(n, h, {"bins", "dv", "dvsize"}) /\ n.dv = p /\ n.dvsize = s /\ n.bins = h.bins
    BY <2>1 DEF Only, IsState, FieldNames
  <2>3. h.dv = 0
    BY <1>1 DEF BinsOK, Sized
  <2>4. BinsOK(h.bins, 0, 0, sz, F)
    BY <1>1, <2>3
  <2>5. QED
    BY <2>2, <2>4, SetDv
<1>2. CASE h.dvsize # 0
  <2>1. is_small(h.dvsize)
    BY DEF is_small, small_index, SMALLBIN_WIDTH, NSMALLBINS, MIN_LARGE_SIZE, TREEBIN_SHIFT
  <2>2. n = [insert_chunk(h, h.dv, h.dvsize) EXCEPT !.dv = p, !.dvsize = s]
    BY <1>2, <2>1 DEF replace_dv
  <2>3. /\ Only(n, h, {"bins", "dv", "dvsize"}) /\ n.dv = p /\ n.dvsize = s
        /\ n.bins = Put(h.bins, h.dv, h.dvsize)
    BY <2>2 DEF insert_chunk, Only, IsState, FieldNames
  <2>4. h.dv \in F /\ h.dvsize = sz[h.dv]
    BY <1>2 DEF BinsOK
  <2>5. BinsOK(h.bins, 0, 0, sz, F \ {h.dv})
    BY <2>4, DropDv
  <2>6. h.dv # 0
    BY <2>4 DEF BinsOK
  <2> DEFINE b == Put(h.bins, h.dv, h.dvsize)
             d == h.dv
  <2>7. BinsOK(b, 0, 0, sz, (F \ {d}) \cup {d})
    BY <2>4, <2>5, <2>6, PutBins
  <2>8. (F \ {d}) \cup {d} = F
    BY <2>4
  <2>9. BinsOK(b, 0, 0, sz, F)
    BY <2>7, <2>8
  <2> HIDE DEF b
  <2>10. BinsOK(b, p, s, sz, F \cup {p})
    BY <2>9, SetDv
  <2>11. QED
    BY <2>3, <2>10 DEF b
<1>3. QED
  BY <1>1, <1>2

LEMMA WholeServed ==
  ASSUME NEW h, NEW lo, NEW e, NEW sz, NEW U, HeapOf(h, lo, e, sz, U),
         NEW v \in FreeChunks(sz, U, h.top), v # h.dv, NEW s, s = sz[v], NEW nb, nb <= s
  PROVE  Served(h, set_inuse_and_pinuse(unlink_chunk(h, v, s), v, s), v, nb, lo, e, sz, U)
<1> DEFINE k == unlink_chunk(h, v, s)
           n == set_inuse_and_pinuse(k, v, s)
<1> SUFFICES Served(h, n, v, nb, lo, e, sz, U)
  OBVIOUS
<1>1. Opened(k, h, v, s, lo, e, sz, U)
  BY UnlinkOpens
<1> HIDE DEF k
<1>2. v \in DOMAIN sz
  BY DEF FreeChunks
<1>3. n = UsedHead(k, v, s, TRUE)
  BY UsedHeadIs
<1> HIDE DEF n
<1>4. /\ WritesTo(k, n, e, v, s)
      /\ Layout(n.head, n.foot, k.bins, k.dv, k.dvsize, lo, e, k.top, sz, U \cup {v}, e)
  <2>1. TRUE <=> PredUsed(lo, sz, U \cup {v}, v)
    BY <1>1 DEF Opened
  <2>2. QED
    BY <1>1, <1>2, <1>3, <2>1, UseHole DEF Opened
<1>5. /\ WellFormed(n) /\ n.bins = k.bins /\ n.dv = k.dv /\ n.dvsize = k.dvsize /\ n.top = k.top
      /\ n.topsize = k.topsize /\ Only(n, k, ChunkFields)
  BY <1>1, <1>4, FieldsOf DEF WritesTo, Opened, WellFormed
<1>6. k.topsize = h.topsize /\ k.top = h.top /\ Only(k, h, ChunkFields)
  BY <1>1, FieldsOf DEF HeapOf, WellFormed, Opened
<1>7. HeapOf(n, lo, e, sz, U \cup {v})
  BY <1>4, <1>5, <1>6 DEF HeapOf
<1>8. Only(n, h, ChunkFields)
  BY <1>5, <1>6, OnlyTransitive
<1>9. QED
  BY <1>1, <1>7, <1>8 DEF Served, Opened

LEMMA CutPred ==
  ASSUME NEW lo, NEW e, NEW sz, Tiling(lo, e, sz), NEW p \in DOMAIN sz, NEW V, V \subseteq DOMAIN sz,
         PredUsed(lo, sz, V, p), NEW t, \A c \in DOMAIN sz : c # p => t[c] = sz[c]
  PROVE  PredUsed(lo, t, V, p)
<1>1. \A d \in DOMAIN sz : d + sz[d] # d
  BY TilingFacts
<1>2. QED
  BY <1>1 DEF PredUsed

(* Two chunks where one was. *)
TwoHeads(n, p, a, pin, r, b, cin) ==
  /\ p \in DOMAIN n.head /\ n.head[p] = [size |-> a, pinuse |-> pin, cinuse |-> TRUE]
  /\ r \in DOMAIN n.head /\ n.head[r] = [size |-> b, pinuse |-> TRUE, cinuse |-> cin]
  /\ NoHeads(n.head, p, a) /\ NoHeads(n.head, r, b)

SplitsTo(k, n, e, p, a, r, b) ==
  /\ WritesTo(k, n, e, p, a + b) /\ TwoHeads(n, p, a, TRUE, r, b, FALSE)
  /\ r + b \in DOMAIN n.foot /\ n.foot[r + b] = b
  /\ r + b \in DOMAIN k.head => n.head[r + b] = k.head[r + b]

LEMMA SplitIn ==
  ASSUME NEW k, WellFormed(k), NEW e, NEW p \in Nat, NEW a \in Nat, NEW b \in Nat, a > 0, b > 0,
         NEW r, r = p + a
  PROVE  SplitsTo(k, Split(k, p, a, b), e, p, a, r, b)
<1> DEFINE j == set_size_and_pinuse_of_inuse_chunk(k, p, a)
           n == set_size_and_pinuse_of_free_chunk(j, r, b)
<1> SUFFICES /\ WritesTo(k, n, e, p, a + b) /\ TwoHeads(n, p, a, TRUE, r, b, FALSE)
             /\ r + b \in DOMAIN n.foot /\ n.foot[r + b] = b
             /\ r + b \in DOMAIN k.head => n.head[r + b] = k.head[r + b]
  BY DEF Split, SplitsTo
<1>1. Within(p, a, p, a + b) /\ Within(r, b, p, a + b)
  BY DEF Within
<1>2. WritesTo(k, j, e, p, a + b) /\ HeadStored(k, j, p, a, TRUE, TRUE)
  <2>1. j = StoreHead(k, p, a, TRUE, TRUE)
    BY DEF set_size_and_pinuse_of_inuse_chunk
  <2> HIDE DEF j
  <2>2. QED
    BY <1>1, <2>1, StoreHeadIn
<1> HIDE DEF j
<1>3. WellFormed(j)
  BY <1>2 DEF WritesTo
<1>4. WritesTo(j, n, e, p, a + b) /\ FreeStored(j, n, r, b)
  BY <1>1, <1>3, FreeIn
<1> HIDE DEF n
<1>5. WritesTo(k, n, e, p, a + b)
  <2>1. a + b \in Nat
    OBVIOUS
  <2>2. QED
    BY <1>2, <1>4, <2>1, WritesCompose
<1>6. /\ \A x \in DOMAIN k.head : x \in Nat
      /\ \A x \in DOMAIN j.head : x \in Nat
      /\ \A x \in DOMAIN n.head : x \in Nat
  BY <1>2, <1>4 DEF WellFormed, WritesTo
<1>7. /\ p \in DOMAIN j.head /\ j.head[p] = [size |-> a, pinuse |-> TRUE, cinuse |-> TRUE]
      /\ \A x \in DOMAIN k.head : x < p \/ x >= r => x \in DOMAIN j.head /\ j.head[x] = k.head[x]
      /\ \A x \in DOMAIN j.head : x # p => x \in DOMAIN k.head /\ (x < p \/ x >= r)
  BY <1>2 DEF HeadStored
<1>8. /\ r \in DOMAIN n.head /\ n.head[r] = [size |-> b, pinuse |-> TRUE, cinuse |-> FALSE]
      /\ \A x \in DOMAIN j.head : x < r \/ x >= r + b => x \in DOMAIN n.head /\ n.head[x] = j.head[x]
      /\ \A x \in DOMAIN n.head : x # r => x \in DOMAIN j.head /\ (x < r \/ x >= r + b)
      /\ r + b \in DOMAIN n.foot /\ n.foot[r + b] = b
  BY <1>4 DEF FreeStored, HeadStored
<1>9. p < r /\ r \in Nat /\ r < r + b
  OBVIOUS
<1>10. p \in DOMAIN n.head /\ n.head[p] = [size |-> a, pinuse |-> TRUE, cinuse |-> TRUE]
  BY <1>7, <1>8, <1>9
<1>11. NoHeads(n.head, p, a) /\ NoHeads(n.head, r, b)
  BY <1>6, <1>7, <1>8, <1>9 DEF NoHeads
<1>12. r + b \in DOMAIN k.head => n.head[r + b] = k.head[r + b]
  BY <1>6, <1>7, <1>8, <1>9
<1>13. QED
  BY <1>5, <1>8, <1>10, <1>11, <1>12 DEF TwoHeads

(* The rest of an opened chunk, free, wherever it goes. *)
SplitOff(h, k, j, v, a, r, b, lo, e, sz, U) ==
  LET t == CutChunk(sz, v, a)
      F == FreeChunks(sz, U \cup {v}, h.top)
  IN  /\ WellFormed(j) /\ Only(j, k, {"head", "foot"})
      /\ BinsOK(j.bins, j.dv, j.dvsize, t, F) /\ r \notin F /\ r # 0 /\ t[r] = b
      /\ \A c \in F : t[c] # 0
      /\ \A bins2, dv2, dvsize2 :
           BinsOK(bins2, dv2, dvsize2, t, F \cup {r})
             => Layout(j.head, j.foot, bins2, dv2, dvsize2, lo, e, h.top, t, U \cup {v}, e)
      /\ t[v] = a /\ t[h.top] = sz[h.top] /\ (\A c \in U : t[c] = sz[c])
      /\ PredUsed(lo, t, U \cup {v}, v)

LEMMA SplitOpened ==
  ASSUME NEW h, NEW lo, NEW e, NEW sz, NEW U, HeapOf(h, lo, e, sz, U),
         NEW k, NEW v \in DOMAIN sz, NEW s, s = sz[v], Opened(k, h, v, s, lo, e, sz, U),
         NEW a \in Nat, NEW b \in Nat, a >= 16, b >= 16, a % 8 = 0, a + b = s, NEW r, r = v + a
  PROVE  SplitOff(h, k, Split(k, v, a, b), v, a, r, b, lo, e, sz, U)
<1> DEFINE j == Split(k, v, a, b)
           t == CutChunk(sz, v, a)
           V == U \cup {v}
           F == FreeChunks(sz, V, h.top)
<1> SUFFICES /\ WellFormed(j) /\ Only(j, k, {"head", "foot"})
             /\ BinsOK(j.bins, j.dv, j.dvsize, t, F) /\ r \notin F /\ r # 0 /\ t[r] = b
             /\ \A c \in F : t[c] # 0
             /\ \A bins2, dv2, dvsize2 :
                  BinsOK(bins2, dv2, dvsize2, t, F \cup {r})
                    => Layout(j.head, j.foot, bins2, dv2, dvsize2, lo, e, h.top, t, V, e)
             /\ t[v] = a /\ t[h.top] = sz[h.top] /\ (\A c \in U : t[c] = sz[c])
             /\ PredUsed(lo, t, V, v)
  BY DEF SplitOff
<1>1. /\ WellFormed(k) /\ Only(k, h, {"bins"}) /\ k.top = h.top
      /\ Layout(k.head, k.foot, k.bins, k.dv, k.dvsize, lo, e, h.top, sz, V, v)
      /\ PredUsed(lo, sz, V, v) /\ v # h.top /\ v \notin U /\ r + b \in U /\ ~k.head[r + b].pinuse
      /\ v \in Nat
  <2>1. k.top = h.top
    BY FieldsOf DEF Opened, HeapOf, WellFormed
  <2>2. v \in Nat
    BY TilingArith DEF Layout, HeapOf
  <2>3. r + b = v + s
    BY <2>2
  <2>4. QED
    BY <2>1, <2>2, <2>3 DEF Opened
<1>2. /\ WritesTo(k, j, e, v, a + b) /\ TwoHeads(j, v, a, TRUE, r, b, FALSE)
      /\ r + b \in DOMAIN j.foot /\ j.foot[r + b] = b
      /\ r + b \in DOMAIN k.head => j.head[r + b] = k.head[r + b]
  <2>1. SplitsTo(k, j, e, v, a, r, b)
    <3>1. a > 0 /\ b > 0
      OBVIOUS
    <3>2. QED
      BY <1>1, <3>1, SplitIn
  <2>2. QED
    BY <2>1 DEF SplitsTo
<1>3. IsCut(t, sz, v, a, b, r, e)
  <2>1. Tiling(lo, e, sz) /\ a > 0 /\ b > 0
    BY <1>1 DEF Layout
  <2>2. QED
    BY <2>1, CutInTwo
<1>4. r + b \in DOMAIN k.head /\ ~j.head[r + b].pinuse
  <2>1. r + b # v /\ r + b \in DOMAIN sz
    BY <1>1, LayoutHole DEF HeapOf
  <2>2. r + b \in DOMAIN k.head
    BY <1>1, <2>1 DEF Layout, Heads
  <2>3. QED
    BY <1>1, <1>2, <2>2
<1> HIDE DEF j, t
<1>5. h.top \in DOMAIN sz /\ U \subseteq DOMAIN sz
  BY LayoutHole DEF HeapOf
<1>6. /\ t[v] = a /\ t[h.top] = sz[h.top] /\ \A c \in U : t[c] = sz[c]
      /\ r \notin F /\ r # 0 /\ t[r] = b /\ \A c \in F : t[c] = sz[c] /\ t[c] # 0
  <2>1. \A c \in DOMAIN sz : sz[c] # 0 /\ c \in Nat
    BY TilingArith DEF HeapOf, Layout
  <2>2. r # 0
    BY <1>1
  <2>3. QED
    BY <1>1, <1>3, <1>5, <2>1, <2>2 DEF IsCut, FreeChunks
<1>7. BinsOK(k.bins, k.dv, k.dvsize, t, F)
  <2>1. BinsOK(k.bins, k.dv, k.dvsize, sz, F)
    BY <1>1 DEF Layout
  <2>2. QED
    BY <1>6, <2>1, BinsFrame
<1>8. /\ WellFormed(j) /\ Only(j, k, {"head", "foot"})
      /\ j.bins = k.bins /\ j.dv = k.dv /\ j.dvsize = k.dvsize
  BY <1>1, <1>2, FieldsOf DEF WritesTo, WellFormed
<1>9. ASSUME NEW bins2, NEW dv2, NEW dvsize2, BinsOK(bins2, dv2, dvsize2, t, F \cup {r})
      PROVE  Layout(j.head, j.foot, bins2, dv2, dvsize2, lo, e, h.top, t, V, e)
  <2>1. TRUE <=> PredUsed(lo, sz, V, v)
    BY <1>1
  <2>2. /\ v \in DOMAIN j.head /\ j.head[v] = [size |-> a, pinuse |-> TRUE, cinuse |-> TRUE]
        /\ r \in DOMAIN j.head /\ j.head[r] = [size |-> b, pinuse |-> TRUE, cinuse |-> FALSE]
        /\ NoHeads(j.head, v, a) /\ NoHeads(j.head, r, b)
    BY <1>2 DEF TwoHeads
  <2>3. r + b \in V
    BY <1>1
  <2>4. a + b = sz[v]
    OBVIOUS
  <2>5. BinsOK(bins2, dv2, dvsize2, CutChunk(sz, v, a), FreeChunks(sz, V, h.top) \cup {r})
    BY <1>9 DEF t
  <2> HIDE DEF V, F
  <2>6. QED
    BY <1>1, <1>2, <1>4, <2>1, <2>2, <2>3, <2>4, <2>5, FreeRest DEF t
<1>10. PredUsed(lo, t, V, v)
  <2>1. \A c \in DOMAIN sz : c # v => t[c] = sz[c]
    BY <1>3 DEF IsCut
  <2>2. Tiling(lo, e, sz) /\ V \subseteq DOMAIN sz
    BY <1>1, <1>5 DEF Layout
  <2> HIDE DEF V
  <2>3. QED
    BY <1>1, <2>1, <2>2, CutPred
<1>11. QED
  BY <1>6, <1>7, <1>8, <1>9, <1>10

LEMMA OnlyChunks ==
  ASSUME NEW h, NEW k, NEW j, NEW n, IsState(h), Only(k, h, {"bins"}), Only(j, k, {"head", "foot"}),
         Only(n, j, {"bins"}) \/ Only(n, j, {"bins", "dv", "dvsize"})
  PROVE  /\ Only(n, h, ChunkFields) /\ n.top = h.top /\ n.topsize = h.topsize
         /\ n.head = j.head /\ n.foot = j.foot /\ n.junk = j.junk
         /\ Only(n, j, {"bins"}) => n.dv = h.dv /\ n.dvsize = h.dvsize
<1>1. IsState(k) /\ IsState(j) /\ IsState(n)
  BY DEF Only
<1>2. /\ Only(n, j, ChunkFields) /\ n.top = j.top /\ n.topsize = j.topsize
      /\ n.head = j.head /\ n.foot = j.foot /\ n.junk = j.junk
      /\ Only(n, j, {"bins"}) => n.dv = j.dv /\ n.dvsize = j.dvsize
  BY <1>1, FieldsOf
<1>3. /\ Only(j, k, ChunkFields) /\ j.top = k.top /\ j.topsize = k.topsize
      /\ j.dv = k.dv /\ j.dvsize = k.dvsize
  BY <1>1, FieldsOf
<1>4. /\ Only(k, h, ChunkFields) /\ k.top = h.top /\ k.topsize = h.topsize
      /\ k.dv = h.dv /\ k.dvsize = h.dvsize
  BY <1>1, FieldsOf
<1>5. QED
  BY <1>2, <1>3, <1>4, OnlyTransitive

(* The rest of a binned chunk is binned. *)
LEMMA RestBinned ==
  ASSUME NEW h, NEW lo, NEW e, NEW sz, NEW U, HeapOf(h, lo, e, sz, U),
         NEW v \in FreeChunks(sz, U, h.top), v # h.dv, NEW s, s = sz[v],
         NEW a \in Nat, NEW b \in Nat, a >= 16, b >= 16, a % 8 = 0, a + b = s, NEW r, r = v + a
  PROVE  Served(h, insert_chunk(Split(unlink_chunk(h, v, s), v, a, b), r, b), v, a, lo, e, sz, U)
<1> DEFINE k == unlink_chunk(h, v, s)
           j == Split(k, v, a, b)
           n == insert_chunk(j, r, b)
           t == CutChunk(sz, v, a)
           F == FreeChunks(sz, U \cup {v}, h.top)
<1> SUFFICES Served(h, n, v, a, lo, e, sz, U)
  OBVIOUS
<1>1. Opened(k, h, v, s, lo, e, sz, U)
  BY UnlinkOpens
<1>2. v \in DOMAIN sz
  BY DEF FreeChunks
<1> HIDE DEF k
<1>3. SplitOff(h, k, j, v, a, r, b, lo, e, sz, U)
  BY <1>1, <1>2, SplitOpened
<1> HIDE DEF j
<1>4. /\ WellFormed(j) /\ Only(j, k, {"head", "foot"}) /\ PredUsed(lo, t, U \cup {v}, v)
      /\ BinsOK(j.bins, j.dv, j.dvsize, t, F) /\ r \notin F /\ r # 0 /\ t[r] = b
      /\ \A bins2, dv2, dvsize2 :
           BinsOK(bins2, dv2, dvsize2, t, F \cup {r})
             => Layout(j.head, j.foot, bins2, dv2, dvsize2, lo, e, h.top, t, U \cup {v}, e)
      /\ t[v] = a /\ t[h.top] = sz[h.top] /\ \A c \in U : t[c] = sz[c]
  BY <1>3 DEF SplitOff
<1>5. Only(n, j, {"bins"}) /\ n.bins = Put(j.bins, r, b)
  BY <1>4, InsertIs DEF WellFormed
<1> HIDE DEF n, t, F
<1>6. BinsOK(n.bins, j.dv, j.dvsize, t, F \cup {r})
  <2>1. b = t[r]
    BY <1>4
  <2>2. BinsOK(Put(j.bins, r, b), j.dv, j.dvsize, t, F \cup {r})
    BY <1>4, <2>1, PutBins
  <2>3. QED
    BY <1>5, <2>2
<1>7. /\ Only(n, h, ChunkFields) /\ n.top = h.top /\ n.topsize = h.topsize
      /\ n.head = j.head /\ n.foot = j.foot /\ n.junk = j.junk /\ n.dv = j.dv /\ n.dvsize = j.dvsize
  BY <1>1, <1>4, <1>5, OnlyChunks, FieldsOf DEF Opened, HeapOf, WellFormed
<1>8. WellFormed(n)
  BY <1>4, <1>7, WellFormedIs DEF Only
<1>9. Layout(n.head, n.foot, n.bins, n.dv, n.dvsize, lo, e, n.top, t, U \cup {v}, e)
  BY <1>4, <1>6, <1>7
<1>10. HeapOf(n, lo, e, t, U \cup {v})
  BY <1>4, <1>7, <1>8, <1>9 DEF HeapOf
<1>11. v \notin U /\ t[v] >= a
  BY <1>1, <1>4 DEF Opened
<1>12. QED
  BY <1>4, <1>7, <1>10, <1>11 DEF Served

(* The rest of a binned chunk is the next dv. *)
LEMMA RestIsDv ==
  ASSUME NEW h, NEW lo, NEW e, NEW sz, NEW U, HeapOf(h, lo, e, sz, U),
         NEW v \in FreeChunks(sz, U, h.top), v # h.dv, NEW s, s = sz[v],
         NEW a \in Nat, NEW b \in Nat, a >= 16, b >= 16, a % 8 = 0, a + b = s, NEW r, r = v + a,
         h.dvsize \in Nat, h.dvsize < MIN_LARGE_SIZE
  PROVE  Served(h, replace_dv(Split(unlink_chunk(h, v, s), v, a, b), r, b), v, a, lo, e, sz, U)
<1> DEFINE k == unlink_chunk(h, v, s)
           j == Split(k, v, a, b)
           n == replace_dv(j, r, b)
           t == CutChunk(sz, v, a)
           F == FreeChunks(sz, U \cup {v}, h.top)
<1> SUFFICES Served(h, n, v, a, lo, e, sz, U)
  OBVIOUS
<1>1. Opened(k, h, v, s, lo, e, sz, U)
  BY UnlinkOpens
<1>2. v \in DOMAIN sz
  BY DEF FreeChunks
<1> HIDE DEF k
<1>3. SplitOff(h, k, j, v, a, r, b, lo, e, sz, U)
  BY <1>1, <1>2, SplitOpened
<1> HIDE DEF j
<1>4. /\ WellFormed(j) /\ Only(j, k, {"head", "foot"}) /\ PredUsed(lo, t, U \cup {v}, v)
      /\ BinsOK(j.bins, j.dv, j.dvsize, t, F) /\ r \notin F /\ r # 0 /\ t[r] = b
      /\ \A c \in F : t[c] # 0
      /\ \A bins2, dv2, dvsize2 :
           BinsOK(bins2, dv2, dvsize2, t, F \cup {r})
             => Layout(j.head, j.foot, bins2, dv2, dvsize2, lo, e, h.top, t, U \cup {v}, e)
      /\ t[v] = a /\ t[h.top] = sz[h.top] /\ \A c \in U : t[c] = sz[c]
  BY <1>3 DEF SplitOff
<1>5. j.dvsize = h.dvsize
  <2>1. IsState(h) /\ IsState(k)
    BY <1>1 DEF HeapOf, WellFormed, Opened
  <2>2. QED
    BY <1>1, <1>4, <2>1, FieldsOf DEF Opened
<1> HIDE DEF t, F
<1>6. /\ Only(n, j, {"bins", "dv", "dvsize"}) /\ n.dv = r /\ n.dvsize = b
      /\ BinsOK(n.bins, r, b, t, F \cup {r})
  <2>1. IsState(j) /\ j.dvsize < MIN_LARGE_SIZE /\ j.dvsize \in Nat
    BY <1>4, <1>5 DEF WellFormed
  <2>2. DvReplaced(n, j, r, b, t, F)
    <3>1. Sized(t, F) /\ b = t[r]
      BY <1>4 DEF Sized
    <3>2. QED
      BY <1>4, <2>1, <3>1, ReplaceDvIs
  <2>3. QED
    BY <2>2 DEF DvReplaced
<1> HIDE DEF n
<1>7. /\ Only(n, h, ChunkFields) /\ n.top = h.top /\ n.topsize = h.topsize
      /\ n.head = j.head /\ n.foot = j.foot /\ n.junk = j.junk
  BY <1>1, <1>4, <1>6, OnlyChunks DEF Opened, HeapOf, WellFormed
<1>8. WellFormed(n)
  BY <1>4, <1>7, WellFormedIs DEF Only
<1>9. Layout(n.head, n.foot, n.bins, n.dv, n.dvsize, lo, e, n.top, t, U \cup {v}, e)
  BY <1>4, <1>6, <1>7
<1>10. HeapOf(n, lo, e, t, U \cup {v})
  BY <1>4, <1>7, <1>8, <1>9 DEF HeapOf
<1>11. v \notin U /\ t[v] >= a
  BY <1>1, <1>4 DEF Opened
<1>12. QED
  BY <1>4, <1>7, <1>10, <1>11 DEF Served

LEMMA MinChunkSize == MIN_CHUNK_SIZE = 16
<1>1. WordSize \in Nat \ {0} /\ 23 \in 0 .. WordSize - 1
  BY WordAssumption
<1>2. Word(16 + 8 - 1) = 23
  BY <1>1, WordOfSmall DEF Word
<1>3. QED
  BY <1>2 DEF MIN_CHUNK_SIZE, MCHUNK_SIZE, MALLOC_ALIGNMENT, AlignUp

LEMMA DvServed ==
  ASSUME NEW h, NEW lo, NEW e, NEW sz, NEW U, HeapOf(h, lo, e, sz, U),
         NEW nb \in Nat, nb >= 16, nb % 8 = 0, nb <= h.dvsize,
         NEW p, p = h.dv, NEW s, s = h.dvsize
  PROVE  Served(h, UseDv(h, nb).m, p, nb, lo, e, sz, U)
<1> DEFINE n == UseDv(h, nb).m
<1> SUFFICES Served(h, n, p, nb, lo, e, sz, U)
  OBVIOUS
<1>1. IsState(h) /\ WellFormed(h) /\ Layout(h.head, h.foot, h.bins, h.dv, h.dvsize, lo, e, h.top, sz, U, e)
  BY DEF HeapOf, WellFormed
<1>2. /\ p \in FreeChunks(sz, U, h.top) /\ s = sz[p]
      /\ p \in DOMAIN sz /\ p \notin U /\ p # h.top /\ p # 0
  <2>1. h.dvsize # 0
    OBVIOUS
  <2>2. QED
    BY <1>1, <2>1 DEF Layout, BinsOK, FreeChunks
<1>3. Layout(h.head, h.foot, h.bins, 0, 0, lo, e, h.top, sz, U \cup {p}, p)
  BY <1>1, <1>2, LayoutOpenDv
<1>4. /\ p \in Nat /\ s \in Nat /\ s >= 16 /\ s % 8 = 0 /\ p + s \in U /\ p + s \in DOMAIN h.head
      /\ ~h.head[p + s].pinuse /\ p + s # p
      /\ h.head[p].pinuse /\ (h.head[p].pinuse <=> PredUsed(lo, sz, U, p))
  BY <1>1, <1>2, ChunkFacts
<1>5. PredUsed(lo, sz, U \cup {p}, p)
  BY <1>4 DEF PredUsed
<1>6. CASE s - nb >= MIN_CHUNK_SIZE
  <2> DEFINE b == s - nb
             r == p + nb
             k == DvSet(h, r, b)
             t == CutChunk(sz, p, nb)
             F == FreeChunks(sz, U \cup {p}, h.top)
  <2>0. b >= 16
    BY <1>6, MinChunkSize
  <2>1. n = Split(k, p, nb, b)
    BY <1>6 DEF UseDv, Result, DvSet
  <2>2. Only(k, h, {"dv", "dvsize"}) /\ k.dv = r /\ k.dvsize = b
    BY <1>1, WithDv
  <2>3. b \in Nat /\ nb + b = s /\ r + b = p + s /\ nb > 0 /\ b > 0
    BY <1>4, <2>0
  <2> HIDE DEF k
  <2>4. /\ k.head = h.head /\ k.foot = h.foot /\ k.top = h.top /\ k.topsize = h.topsize
        /\ k.bins = h.bins /\ Only(k, h, ChunkFields) /\ WellFormed(k)
    BY <1>1, <2>2, FieldsOf, WellFormedIs DEF Only
  <2>5. SplitsTo(k, n, e, p, nb, r, b)
    BY <1>4, <2>1, <2>3, <2>4, SplitIn
  <2> HIDE DEF n
  <2>6. /\ WritesTo(k, n, e, p, nb + b)
        /\ p \in DOMAIN n.head /\ n.head[p] = [size |-> nb, pinuse |-> TRUE, cinuse |-> TRUE]
        /\ r \in DOMAIN n.head /\ n.head[r] = [size |-> b, pinuse |-> TRUE, cinuse |-> FALSE]
        /\ NoHeads(n.head, p, nb) /\ NoHeads(n.head, r, b)
        /\ r + b \in DOMAIN n.foot /\ n.foot[r + b] = b
    BY <2>5 DEF SplitsTo, TwoHeads
  <2>7. ~n.head[r + b].pinuse
    BY <1>4, <2>3, <2>4, <2>5 DEF SplitsTo
  <2>8. IsCut(t, sz, p, nb, b, r, e)
    <3>1. Tiling(lo, e, sz)
      BY <1>1 DEF Layout
    <3>2. QED
      BY <1>2, <2>3, <3>1, CutInTwo
  <2> HIDE DEF t
  <2>9. h.top \in DOMAIN sz /\ U \subseteq DOMAIN sz
    BY <1>1, LayoutHole
  <2>10. /\ t[p] = nb /\ t[h.top] = sz[h.top] /\ \A c \in U : t[c] = sz[c]
         /\ r \notin F /\ r # 0 /\ t[r] = b /\ \A c \in F : t[c] = sz[c]
    <3>1. r # 0
      BY <1>4
    <3>2. QED
      BY <1>2, <2>8, <2>9, <3>1 DEF IsCut, FreeChunks
  <2>11. BinsOK(h.bins, r, b, t, F \cup {r})
    <3>1. BinsOK(h.bins, 0, 0, sz, F)
      BY <1>3 DEF Layout
    <3>2. BinsOK(h.bins, 0, 0, t, F)
      BY <2>10, <3>1, BinsFrame
    <3> HIDE DEF F
    <3>3. QED
      BY <2>10, <3>2, SetDv
  <2>12. Layout(n.head, n.foot, h.bins, r, b, lo, e, h.top, t, U \cup {p}, e)
    <3>1. TRUE <=> PredUsed(lo, sz, U \cup {p}, p)
      BY <1>5
    <3>2. r + b \in U \cup {p} /\ nb + b = sz[p]
      BY <1>2, <1>4, <2>3
    <3>3. BinsOK(h.bins, r, b, CutChunk(sz, p, nb), FreeChunks(sz, U \cup {p}, h.top) \cup {r})
      BY <2>11 DEF t
    <3>4. Layout(k.head, k.foot, h.bins, 0, 0, lo, e, h.top, sz, U \cup {p}, p)
      BY <1>3, <2>4
    <3> DEFINE V == U \cup {p}
    <3> HIDE DEF V, F, r
    <3>5. r = p + nb
      BY DEF r
    <3>6. Layout(n.head, n.foot, h.bins, r, b, lo, e, h.top, CutChunk(sz, p, nb), V, e)
      BY <1>2, <2>0, <2>3, <2>6, <2>7, <3>1, <3>2, <3>3, <3>4, <3>5, FreeRest DEF V
    <3>7. QED
      BY <3>6 DEF t, V
  <2>13. /\ n.bins = h.bins /\ n.dv = r /\ n.dvsize = b /\ n.top = h.top /\ n.topsize = h.topsize
         /\ WellFormed(n) /\ Only(n, k, ChunkFields)
    BY <2>2, <2>4, <2>6, FieldsOf DEF WritesTo, WellFormed
  <2>14. HeapOf(n, lo, e, t, U \cup {p})
    <3>1. h.topsize = t[h.top]
      BY <2>10 DEF HeapOf
    <3>2. QED
      BY <2>12, <2>13, <3>1 DEF HeapOf
  <2>15. Only(n, h, ChunkFields)
    BY <2>4, <2>13, OnlyTransitive
  <2>16. PredUsed(lo, t, U \cup {p}, p)
    <3>1. \A c \in DOMAIN sz : c # p => t[c] = sz[c]
      BY <2>8 DEF IsCut
    <3> DEFINE V == U \cup {p}
    <3>2. Tiling(lo, e, sz) /\ V \subseteq DOMAIN sz /\ PredUsed(lo, sz, V, p)
      BY <1>1, <1>2, <1>5, <2>9 DEF Layout
    <3> HIDE DEF V
    <3>3. PredUsed(lo, t, V, p)
      BY <1>2, <3>1, <3>2, CutPred
    <3>4. QED
      BY <3>3 DEF V
  <2>17. QED
    BY <1>2, <2>10, <2>14, <2>15, <2>16 DEF Served
<1>7. CASE ~(s - nb >= MIN_CHUNK_SIZE)
  <2> DEFINE k == DvSet(h, 0, 0)
  <2>1. n = UsedHead(k, p, s, TRUE)
    BY <1>7, UsedHeadIs DEF UseDv, Result, DvSet
  <2>2. Only(k, h, {"dv", "dvsize"}) /\ k.dv = 0 /\ k.dvsize = 0
    BY <1>1, WithDv
  <2> HIDE DEF k, n
  <2>3. /\ k.head = h.head /\ k.foot = h.foot /\ k.top = h.top /\ k.topsize = h.topsize
        /\ k.bins = h.bins /\ Only(k, h, ChunkFields) /\ WellFormed(k)
    BY <1>1, <2>2, FieldsOf, WellFormedIs DEF Only
  <2>4. /\ WritesTo(k, n, e, p, s)
        /\ Layout(n.head, n.foot, h.bins, 0, 0, lo, e, h.top, sz, U \cup {p}, e)
    <3>1. TRUE <=> PredUsed(lo, sz, U \cup {p}, p)
      BY <1>5
    <3>2. Layout(k.head, k.foot, h.bins, 0, 0, lo, e, h.top, sz, U \cup {p}, p)
      BY <1>3, <2>3
    <3> DEFINE V == U \cup {p}
    <3> SUFFICES WritesTo(k, n, e, p, s) /\ Layout(n.head, n.foot, h.bins, 0, 0, lo, e, h.top, sz, V, e)
      OBVIOUS
    <3> HIDE DEF V
    <3>3. QED
      BY <1>2, <1>4, <2>1, <2>3, <3>1, <3>2, UseHole DEF V
  <2>5. /\ n.bins = h.bins /\ n.dv = 0 /\ n.dvsize = 0 /\ n.top = h.top /\ n.topsize = h.topsize
        /\ WellFormed(n) /\ Only(n, k, ChunkFields)
    BY <2>2, <2>3, <2>4, FieldsOf DEF WritesTo, WellFormed
  <2>6. HeapOf(n, lo, e, sz, U \cup {p})
    BY <2>4, <2>5 DEF HeapOf
  <2>7. Only(n, h, ChunkFields)
    BY <2>3, <2>5, OnlyTransitive
  <2>8. QED
    BY <1>2, <1>5, <2>6, <2>7 DEF Served
<1>8. QED
  BY <1>6, <1>7

LEMMA TopServed ==
  ASSUME NEW h, NEW lo, NEW e, NEW sz, NEW U, HeapOf(h, lo, e, sz, U),
         NEW nb \in Nat, nb >= 16, nb % 8 = 0, nb < h.topsize, NEW p, p = h.top
  PROVE  Served(h, SplitTop(h, nb).m, p, nb, lo, e, sz, U)
<1> DEFINE n == SplitTop(h, nb).m
           r == p + nb
           b == h.topsize - nb
           k == TopSet(h, r, b)
           j == StoreHead(k, r, b, TRUE, FALSE)
           t == CutChunk(sz, p, nb)
           V == U \cup {p}
<1> SUFFICES Served(h, n, p, nb, lo, e, sz, U)
  OBVIOUS
<1>1. /\ IsState(h) /\ WellFormed(h) /\ h.topsize = sz[p]
      /\ Layout(h.head, h.foot, h.bins, h.dv, h.dvsize, lo, e, p, sz, U, e)
  BY DEF HeapOf, WellFormed
<1>2. /\ p \in DOMAIN sz /\ p \notin U /\ U \subseteq DOMAIN sz
      /\ p \in Nat /\ sz[p] \in Nat /\ h.head[p].pinuse /\ PredUsed(lo, sz, U, p)
  <2>1. p \in DOMAIN sz /\ e \notin DOMAIN sz /\ U \subseteq DOMAIN sz
    BY <1>1, LayoutHole
  <2>2. p \notin U
    BY <1>1, <2>1, LayoutHole
  <2>3. QED
    BY <1>1, <2>1, <2>2, ChunkFacts
<1>3. PredUsed(lo, sz, V, p)
  BY <1>2 DEF PredUsed
<1>4. Layout(h.head, h.foot, h.bins, h.dv, h.dvsize, lo, e, p, sz, V, p)
  BY <1>1, LayoutOpenTop
<1>5. b \in Nat /\ b > 0 /\ nb + b = sz[p] /\ r \in Nat /\ nb > 0
  BY <1>1, <1>2
<1>6. n = StoreHead(j, p, nb, TRUE, TRUE)
  BY DEF SplitTop, Result, set_size_and_pinuse_of_inuse_chunk, TopSet
<1>7. Only(k, h, {"top", "topsize"}) /\ k.top = r /\ k.topsize = b
  BY <1>1, WithTop
<1> HIDE DEF k
<1>8. /\ k.head = h.head /\ k.foot = h.foot /\ k.dv = h.dv /\ k.dvsize = h.dvsize
      /\ k.bins = h.bins /\ Only(k, h, ChunkFields) /\ WellFormed(k)
  BY <1>1, <1>7, FieldsOf, WellFormedIs DEF Only
<1>9. WritesTo(k, j, e, p, nb + b) /\ HeadStored(k, j, r, b, TRUE, FALSE)
  <2>1. Within(r, b, p, nb + b)
    BY <1>2, <1>5 DEF Within
  <2> HIDE DEF r, b
  <2>2. QED
    BY <1>8, <2>1, StoreHeadIn
<1> HIDE DEF j
<1>10. WritesTo(j, n, e, p, nb + b) /\ HeadStored(j, n, p, nb, TRUE, TRUE)
  <2>1. Within(p, nb, p, nb + b) /\ WellFormed(j)
    BY <1>2, <1>5, <1>9 DEF Within, WritesTo
  <2> HIDE DEF r, b, n
  <2>2. QED
    BY <1>6, <2>1, StoreHeadIn
<1> HIDE DEF n
<1>11. WritesTo(k, n, e, p, nb + b)
  <2> HIDE DEF b
  <2>1. nb + b \in Nat
    BY <1>5
  <2>2. QED
    BY <1>2, <1>9, <1>10, <2>1, WritesCompose
<1>12. /\ p \in DOMAIN n.head /\ n.head[p] = [size |-> nb, pinuse |-> TRUE, cinuse |-> TRUE]
       /\ r \in DOMAIN n.head /\ n.head[r] = [size |-> b, pinuse |-> TRUE, cinuse |-> FALSE]
       /\ NoHeads(n.head, p, nb) /\ NoHeads(n.head, r, b)
  <2>1. \A x \in DOMAIN n.head : x \in Nat
    BY <1>10 DEF WritesTo, WellFormed
  <2>2. r >= p + nb /\ r # p
    BY <1>2, <1>5
  <2>3. NoHeads(n.head, p, nb)
    BY <1>10, <2>1 DEF HeadStored, NoHeads
  <2>4. \A x \in DOMAIN n.head : x # p => x \in DOMAIN j.head
    BY <1>10 DEF HeadStored
  <2>5. NoHeads(n.head, r, b)
    BY <1>2, <1>5, <1>9, <2>1, <2>2, <2>4 DEF HeadStored, NoHeads
  <2>6. QED
    BY <1>9, <1>10, <2>2, <2>3, <2>5 DEF HeadStored
<1>13. Layout(n.head, n.foot, h.bins, h.dv, h.dvsize, lo, e, r, t, V, e)
  <2>1. TRUE <=> PredUsed(lo, sz, V, p)
    BY <1>3
  <2>2. r = p + nb
    OBVIOUS
  <2>3. Layout(k.head, k.foot, h.bins, h.dv, h.dvsize, lo, e, p, sz, V, p)
    BY <1>4, <1>8
  <2> HIDE DEF r, b, V
  <2>4. Layout(n.head, n.foot, h.bins, h.dv, h.dvsize, lo, e, r, CutChunk(sz, p, nb), V, e)
    BY <1>2, <1>5, <1>11, <1>12, <2>1, <2>2, <2>3, TopRest
  <2>5. QED
    BY <2>4 DEF t
<1>14. IsCut(t, sz, p, nb, b, r, e)
  <2>1. Tiling(lo, e, sz)
    BY <1>1 DEF Layout
  <2>2. QED
    BY <1>2, <1>5, <2>1, CutInTwo
<1> HIDE DEF t
<1>15. t[p] = nb /\ t[r] = b /\ \A c \in U : t[c] = sz[c]
  BY <1>2, <1>14 DEF IsCut
<1>16. /\ n.bins = h.bins /\ n.dv = h.dv /\ n.dvsize = h.dvsize /\ n.top = r /\ n.topsize = b
       /\ WellFormed(n) /\ Only(n, k, ChunkFields)
  BY <1>7, <1>8, <1>11, FieldsOf DEF WritesTo, WellFormed
<1>17. HeapOf(n, lo, e, t, U \cup {p})
  BY <1>13, <1>15, <1>16 DEF HeapOf
<1>18. Only(n, h, ChunkFields)
  BY <1>8, <1>16, OnlyTransitive
<1>19. PredUsed(lo, t, U \cup {p}, p)
  <2>1. \A c \in DOMAIN sz : c # p => t[c] = sz[c]
    BY <1>14 DEF IsCut
  <2>2. Tiling(lo, e, sz) /\ V \subseteq DOMAIN sz
    BY <1>1, <1>2 DEF Layout
  <2> HIDE DEF V
  <2>3. PredUsed(lo, t, V, p)
    BY <1>2, <1>3, <2>1, <2>2, CutPred
  <2>4. QED
    BY <2>3 DEF V
<1>20. QED
  BY <1>2, <1>15, <1>17, <1>18, <1>19 DEF Served

LEMMA MinIs ==
  ASSUME NEW S, S \subseteq Nat, S # {}, NEW x, x = Min(S)
  PROVE  x \in S /\ \A y \in S : x <= y
<1>1. \E z \in S : \A y \in S : z <= y
  BY LeastElement
<1>2. QED
  BY <1>1 DEF Min

LEMMA FreeFacts ==
  ASSUME NEW h, NEW lo, NEW e, NEW sz, NEW U, HeapOf(h, lo, e, sz, U),
         NEW v \in FreeChunks(sz, U, h.top)
  PROVE  v \in Nat /\ sz[v] \in Nat /\ sz[v] % 8 = 0 /\ sz[v] >= 16 /\ v + sz[v] <= e /\ e \in Nat
<1>1. Layout(h.head, h.foot, h.bins, h.dv, h.dvsize, lo, e, h.top, sz, U, e)
  BY DEF HeapOf
<1>2. v \in DOMAIN sz /\ v # h.top
  BY DEF FreeChunks
<1>3. QED
  BY <1>1, <1>2, ChunkFacts

LEMMA BinChunk ==
  ASSUME NEW h, NEW lo, NEW e, NEW sz, NEW U, HeapOf(h, lo, e, sz, U), NEW s \in DOMAIN h.bins
  PROVE  /\ s \in Nat /\ s % 8 = 0 /\ s >= 16 /\ s <= e
         /\ Last(h.bins[s]) \in FreeChunks(sz, U, h.top) /\ Last(h.bins[s]) # h.dv
         /\ sz[Last(h.bins[s])] = s /\ Last(h.bins[s]) \in Nat
         /\ Head(h.bins[s]) \in FreeChunks(sz, U, h.top) /\ Head(h.bins[s]) # h.dv
         /\ sz[Head(h.bins[s])] = s /\ Head(h.bins[s]) \in Nat
<1>1. Layout(h.head, h.foot, h.bins, h.dv, h.dvsize, lo, e, h.top, sz, U, e)
  BY DEF HeapOf
<1> DEFINE F == FreeChunks(sz, U, h.top)
           v == Last(h.bins[s])
           w == Head(h.bins[s])
<1>2. BinsOK(h.bins, h.dv, h.dvsize, sz, F)
  BY <1>1 DEF Layout
<1> HIDE DEF F
<1>3. v \in F /\ v # h.dv /\ sz[v] = s /\ w \in F /\ w # h.dv /\ sz[w] = s
  BY <1>2, BinHolds
<1> HIDE DEF v, w
<1>4. v \in Nat /\ sz[v] \in Nat /\ sz[v] % 8 = 0 /\ sz[v] >= 16 /\ v + sz[v] <= e /\ e \in Nat
  BY <1>3, FreeFacts DEF F
<1>5. w \in Nat
  BY <1>3, FreeFacts DEF F
<1>6. s \in Nat /\ s % 8 = 0 /\ s >= 16 /\ s <= e
  BY <1>3, <1>4
<1>7. QED
  BY <1>3, <1>4, <1>5, <1>6, Zenon DEF F, v, w

LEMMA DvSize ==
  ASSUME NEW h, NEW lo, NEW e, NEW sz, NEW U, HeapOf(h, lo, e, sz, U)
  PROVE  /\ h.dvsize \in Nat /\ h.dvsize % 8 = 0 /\ h.dv \in Nat /\ h.dvsize <= e
         /\ h.dvsize # 0 => h.dvsize >= 16 /\ h.dv \in FreeChunks(sz, U, h.top) /\ h.dvsize = sz[h.dv]
         /\ h.dvsize = 0 <=> h.dv = 0
         /\ h.top \in Nat /\ h.topsize \in Nat /\ h.topsize % 8 = 0 /\ h.topsize <= e /\ h.topsize > 0
         /\ e \in Nat
<1>1. Layout(h.head, h.foot, h.bins, h.dv, h.dvsize, lo, e, h.top, sz, U, e) /\ h.topsize = sz[h.top]
  BY DEF HeapOf
<1>2. h.top \in DOMAIN sz
  BY <1>1, LayoutHole
<1>3. h.top \in Nat /\ sz[h.top] \in Nat /\ sz[h.top] % 8 = 0 /\ h.top + sz[h.top] <= e /\ e \in Nat
      /\ sz[h.top] > 0
  BY <1>1, <1>2, ChunkFacts
<1>4. CASE h.dv = 0 /\ h.dvsize = 0
  BY <1>1, <1>3, <1>4
<1>5. CASE h.dv \in FreeChunks(sz, U, h.top) /\ h.dvsize = sz[h.dv]
  <2>1. h.dv \in DOMAIN sz /\ h.dv # h.top
    BY <1>5 DEF FreeChunks
  <2>2. h.dv \in Nat /\ sz[h.dv] \in Nat /\ sz[h.dv] % 8 = 0 /\ h.dv + sz[h.dv] <= e /\ sz[h.dv] >= 16
    BY <1>1, <2>1, ChunkFacts
  <2>3. h.dv # 0
    BY <1>1, <1>5 DEF Layout, BinsOK
  <2>4. QED
    BY <1>1, <1>3, <1>5, <2>2, <2>3
<1>6. QED
  BY <1>1, <1>4, <1>5 DEF Layout, BinsOK

-----------------------------------------------------------------------------
(* What a request comes to: a chunk from what is free, or the system is    *)
(* asked, as nothing that is free is large enough.                         *)
Serves(h, r, nb, lo, e, sz, U) ==
  \E p \in Nat : r.mem = chunk2mem(p) /\ Served(h, r.m, p, nb, lo, e, sz, U)

Exhausted(h, nb) == h.dvsize < nb /\ h.topsize <= nb /\ \A s \in DOMAIN h.bins : s < nb

LEMMA UseDvServes ==
  ASSUME NEW h, NEW lo, NEW e, NEW sz, NEW U, HeapOf(h, lo, e, sz, U),
         NEW nb \in Nat, nb >= 16, nb % 8 = 0, nb <= h.dvsize
  PROVE  Serves(h, UseDv(h, nb), nb, lo, e, sz, U)
<1>1. UseDv(h, nb).mem = chunk2mem(h.dv)
  BY DEF UseDv, Result
<1>2. Served(h, UseDv(h, nb).m, h.dv, nb, lo, e, sz, U)
  BY DvServed
<1>3. h.dv \in Nat
  BY DvSize
<1>4. QED
  BY <1>1, <1>2, <1>3 DEF Serves

LEMMA SplitTopServes ==
  ASSUME NEW h, NEW lo, NEW e, NEW sz, NEW U, HeapOf(h, lo, e, sz, U),
         NEW nb \in Nat, nb >= 16, nb % 8 = 0, nb < h.topsize
  PROVE  Serves(h, SplitTop(h, nb), nb, lo, e, sz, U)
<1>1. SplitTop(h, nb).mem = chunk2mem(h.top)
  BY DEF SplitTop, Result
<1>2. Served(h, SplitTop(h, nb).m, h.top, nb, lo, e, sz, U)
  BY TopServed
<1>3. h.top \in Nat
  BY DvSize
<1>4. QED
  BY <1>1, <1>2, <1>3 DEF Serves

LEMMA RemainderlessServes ==
  ASSUME NEW h, NEW lo, NEW e, NEW sz, NEW U, HeapOf(h, lo, e, sz, U),
         NEW nb \in Nat, AtLeast(SmallBinned(h), nb) # {}
  PROVE  Serves(h, Remainderless(h, nb), nb, lo, e, sz, U)
<1> DEFINE S == AtLeast(SmallBinned(h), nb)
           s == Min(S)
           v == Last(h.bins[s])
<1>1. S \subseteq DOMAIN h.bins /\ \A x \in S : x >= nb
  BY DEF AtLeast, SmallBinned
<1>2. S \subseteq Nat
  BY <1>1, BinChunk
<1>3. s \in S
  <2> HIDE DEF S
  <2>1. QED
    BY <1>2, MinIs DEF S
<1>4. Remainderless(h, nb) = Result(set_inuse_and_pinuse(unlink_chunk(h, v, s), v, s), chunk2mem(v))
  BY DEF Remainderless
<1> HIDE DEF S, s
<1>5. s \in DOMAIN h.bins /\ nb <= s
  BY <1>1, <1>2, <1>3
<1>6. v \in FreeChunks(sz, U, h.top) /\ v # h.dv /\ sz[v] = s /\ v \in Nat
  BY <1>5, BinChunk
<1> HIDE DEF v
<1>7. Served(h, set_inuse_and_pinuse(unlink_chunk(h, v, s), v, s), v, nb, lo, e, sz, U)
  BY <1>5, <1>6, WholeServed
<1>8. QED
  BY <1>4, <1>6, <1>7 DEF Serves, Result

LEMMA NextSmallBinServes ==
  ASSUME NEW h, NEW lo, NEW e, NEW sz, NEW U, HeapOf(h, lo, e, sz, U),
         NEW nb \in Nat, nb >= 16, nb % 8 = 0, nb < 256, h.dvsize < nb,
         AtLeast(SmallBinned(h), nb) # {},
         \A s \in AtLeast(SmallBinned(h), nb) : ~(s <= nb + SMALLBIN_WIDTH)
  PROVE  Serves(h, NextSmallBin(h, nb), nb, lo, e, sz, U)
<1> DEFINE S == AtLeast(SmallBinned(h), nb)
           s == Min(S)
           v == Last(h.bins[s])
           b == s - nb
           r == v + nb
<1>1. S \subseteq DOMAIN h.bins /\ \A x \in S : x >= nb
  BY DEF AtLeast, SmallBinned
<1>2. S \subseteq Nat
  BY <1>1, BinChunk
<1>3. s \in S
  <2> HIDE DEF S
  <2>1. QED
    BY <1>2, MinIs DEF S
<1>4. NextSmallBin(h, nb) = Result(replace_dv(Split(unlink_chunk(h, v, s), v, nb, b), r, b), chunk2mem(v))
  BY DEF NextSmallBin
<1> HIDE DEF S, s
<1>5. s \in DOMAIN h.bins /\ s \in Nat /\ s > nb + 8
  BY <1>1, <1>2, <1>3 DEF S, SMALLBIN_WIDTH
<1>6. v \in FreeChunks(sz, U, h.top) /\ v # h.dv /\ sz[v] = s /\ v \in Nat /\ s % 8 = 0
  BY <1>5, BinChunk
<1>7. b \in Nat /\ b >= 16 /\ nb + b = s
  BY <1>5, <1>6
<1>8. h.dvsize \in Nat /\ h.dvsize < MIN_LARGE_SIZE
  <2>1. MIN_LARGE_SIZE = 256
    BY DEF MIN_LARGE_SIZE, TREEBIN_SHIFT
  <2>2. QED
    BY <2>1, DvSize
<1>9. r = v + nb
  OBVIOUS
<1> HIDE DEF v, b, r
<1>10. Served(h, replace_dv(Split(unlink_chunk(h, v, s), v, nb, b), r, b), v, nb, lo, e, sz, U)
  BY <1>6, <1>7, <1>8, <1>9, RestIsDv
<1>11. QED
  BY <1>4, <1>6, <1>10 DEF Serves, Result

LEMMA tmalloc_smallServes ==
  ASSUME NEW h, NEW lo, NEW e, NEW sz, NEW U, HeapOf(h, lo, e, sz, U),
         NEW nb \in Nat, nb >= 16, nb % 8 = 0, nb < 256, h.dvsize < nb,
         TreeBinned(h) # {}
  PROVE  Serves(h, tmalloc_small(h, nb), nb, lo, e, sz, U)
<1> DEFINE S == TreeBinned(h)
           s == Min(S)
           v == Head(h.bins[s])
           b == s - nb
           r == v + nb
           n == tmalloc_small(h, nb).m
<1>1. S \subseteq DOMAIN h.bins /\ \A x \in S : ~is_small(x)
  BY DEF TreeBinned
<1>2. S \subseteq Nat
  BY <1>1, BinChunk
<1>3. s \in S
  <2> HIDE DEF S
  <2>1. QED
    BY <1>2, MinIs DEF S
<1>4. /\ tmalloc_small(h, nb).mem = chunk2mem(v)
      /\ b < MIN_CHUNK_SIZE => n = set_inuse_and_pinuse(unlink_chunk(h, v, s), v, s)
      /\ ~(b < MIN_CHUNK_SIZE) => n = replace_dv(Split(unlink_chunk(h, v, s), v, nb, b), r, b)
  BY DEF tmalloc_small, Result, NoChunkLeft
<1> HIDE DEF S, s, n
<1>5. s \in DOMAIN h.bins /\ s \in Nat /\ s >= 256
  BY <1>1, <1>2, <1>3 DEF is_small, small_index, SMALLBIN_WIDTH, NSMALLBINS
<1>6. v \in FreeChunks(sz, U, h.top) /\ v # h.dv /\ sz[v] = s /\ v \in Nat
  BY <1>5, BinChunk
<1>7. b \in Nat /\ nb + b = s /\ nb <= s
  BY <1>5, <1>6
<1>8. h.dvsize \in Nat /\ h.dvsize < MIN_LARGE_SIZE
  <2>1. MIN_LARGE_SIZE = 256
    BY DEF MIN_LARGE_SIZE, TREEBIN_SHIFT
  <2>2. QED
    BY <2>1, DvSize
<1>9. r = v + nb
  OBVIOUS
<1> HIDE DEF v, b, r
<1>10. Served(h, n, v, nb, lo, e, sz, U)
  <2>1. CASE b < MIN_CHUNK_SIZE
    BY <1>4, <1>6, <1>7, <2>1, WholeServed
  <2>2. CASE ~(b < MIN_CHUNK_SIZE)
    <3>1. b >= 16
      BY <1>7, <2>2, MinChunkSize
    <3>2. QED
      BY <1>4, <1>6, <1>7, <1>8, <1>9, <2>2, <3>1, RestIsDv
  <2>3. QED
    BY <2>1, <2>2
<1>11. QED
  BY <1>4, <1>6, <1>10 DEF Serves, n

LEMMA tmalloc_largeServes ==
  ASSUME NEW h, NEW lo, NEW e, NEW sz, NEW U, HeapOf(h, lo, e, sz, U),
         NEW nb \in Nat, nb >= 16, nb % 8 = 0
  PROVE  \/ Serves(h, tmalloc_large(h, nb), nb, lo, e, sz, U)
         \/ /\ tmalloc_large(h, nb) = Result(h, 0)
            /\ \/ AtLeast(TreeBinned(h), nb) = {}
               \/ ~BetterThanDv(h, Min(AtLeast(TreeBinned(h), nb)), nb)
<1> DEFINE S == AtLeast(TreeBinned(h), nb)
           s == Min(S)
           v == Head(h.bins[s])
           b == s - nb
           r == v + nb
           n == tmalloc_large(h, nb).m
<1>0. CASE S = {} \/ ~BetterThanDv(h, s, nb)
  BY <1>0 DEF tmalloc_large
<1>1. CASE S # {} /\ BetterThanDv(h, s, nb)
  <2>1. S \subseteq DOMAIN h.bins /\ \A x \in S : x >= nb
    BY DEF TreeBinned, AtLeast
  <2>2. S \subseteq Nat
    BY <2>1, BinChunk
  <2>3. s \in S
    <3> HIDE DEF S
    <3>1. QED
      BY <1>1, <2>2, MinIs DEF S
  <2>4. /\ tmalloc_large(h, nb).mem = chunk2mem(v)
        /\ b < MIN_CHUNK_SIZE => n = set_inuse_and_pinuse(unlink_chunk(h, v, s), v, s)
        /\ ~(b < MIN_CHUNK_SIZE) => n = insert_chunk(Split(unlink_chunk(h, v, s), v, nb, b), r, b)
    BY <1>1 DEF tmalloc_large, Result, NoChunkLeft
  <2> HIDE DEF S, s, n
  <2>5. s \in DOMAIN h.bins /\ s \in Nat /\ s >= nb
    BY <2>1, <2>2, <2>3
  <2>6. v \in FreeChunks(sz, U, h.top) /\ v # h.dv /\ sz[v] = s /\ v \in Nat
    BY <2>5, BinChunk
  <2>7. b \in Nat /\ nb + b = s /\ nb <= s
    BY <2>5, <2>6
  <2>9. r = v + nb
    OBVIOUS
  <2> HIDE DEF v, b, r
  <2>10. Served(h, n, v, nb, lo, e, sz, U)
    <3>1. CASE b < MIN_CHUNK_SIZE
      BY <2>4, <2>6, <2>7, <3>1, WholeServed
    <3>2. CASE ~(b < MIN_CHUNK_SIZE)
      <4>1. b >= 16
        BY <2>7, <3>2, MinChunkSize
      <4>2. QED
        BY <2>4, <2>6, <2>7, <2>9, <3>2, <4>1, RestBinned
    <3>3. QED
      BY <3>1, <3>2
  <2>11. QED
    BY <2>4, <2>6, <2>10 DEF Serves, n
<1>2. QED
  BY <1>0, <1>1

LEMMA BinnedIsSmallOrNot ==
  ASSUME NEW h, NEW nb
  PROVE  /\ AtLeast(SmallBinned(h), nb) = {} =>
              \A s \in DOMAIN h.bins : is_small(s) => ~(s >= nb)
         /\ AtLeast(TreeBinned(h), nb) = {} =>
              \A s \in DOMAIN h.bins : ~is_small(s) => ~(s >= nb)
         /\ TreeBinned(h) = {} => \A s \in DOMAIN h.bins : is_small(s)
BY DEF AtLeast, SmallBinned, TreeBinned

LEMMA UseDvOrTopServes ==
  ASSUME NEW h, NEW lo, NEW e, NEW sz, NEW U, HeapOf(h, lo, e, sz, U), NEW env,
         NEW nb \in Nat, nb >= 16, nb % 8 = 0, \A s \in DOMAIN h.bins : s < nb \/ nb <= h.dvsize
  PROVE  \/ Serves(h, UseDvTopOrSystem(h, nb, env), nb, lo, e, sz, U)
         \/ UseDvTopOrSystem(h, nb, env) = sys_alloc(h, nb, env) /\ Exhausted(h, nb)
<1>1. h.dvsize \in Nat /\ h.topsize \in Nat
  BY DvSize
<1>2. CASE nb <= h.dvsize
  BY <1>2, UseDvServes DEF UseDvTopOrSystem
<1>3. CASE ~(nb <= h.dvsize) /\ nb < h.topsize
  BY <1>3, SplitTopServes DEF UseDvTopOrSystem
<1>4. CASE ~(nb <= h.dvsize) /\ ~(nb < h.topsize)
  BY <1>1, <1>4 DEF UseDvTopOrSystem, Exhausted
<1>5. QED
  BY <1>2, <1>3, <1>4

LEMMA SmallRequestServes ==
  ASSUME NEW h, NEW lo, NEW e, NEW sz, NEW U, HeapOf(h, lo, e, sz, U), NEW env,
         NEW nb \in Nat, nb >= 16, nb % 8 = 0, nb < 256
  PROVE  \/ Serves(h, SmallRequest(h, nb, env), nb, lo, e, sz, U)
         \/ SmallRequest(h, nb, env) = sys_alloc(h, nb, env) /\ Exhausted(h, nb)
<1> DEFINE bins == AtLeast(SmallBinned(h), nb)
<1>1. h.dvsize \in Nat /\ h.topsize \in Nat
  BY DvSize
<1>2. CASE \E s \in bins : s <= nb + SMALLBIN_WIDTH
  BY <1>2, RemainderlessServes DEF SmallRequest
<1>3. CASE ~(\E s \in bins : s <= nb + SMALLBIN_WIDTH)
  <2>1. CASE nb <= h.dvsize
    BY <1>3, <2>1, UseDvServes DEF SmallRequest
  <2>2. CASE ~(nb <= h.dvsize) /\ bins # {}
    BY <1>1, <1>3, <2>2, NextSmallBinServes DEF SmallRequest
  <2>3. CASE ~(nb <= h.dvsize) /\ bins = {} /\ TreeBinned(h) # {}
    <3>1. SmallRequest(h, nb, env) = tmalloc_small(h, nb)
      BY <1>3, <2>3 DEF SmallRequest
    <3>2. h.dvsize < nb
      BY <1>1, <2>3
    <3>3. QED
      BY <2>3, <3>1, <3>2, tmalloc_smallServes
  <2>4. CASE ~(nb <= h.dvsize) /\ bins = {} /\ TreeBinned(h) = {}
    <3>1. SmallRequest(h, nb, env) = UseDvTopOrSystem(h, nb, env)
      BY <1>3, <2>4 DEF SmallRequest
    <3>2. \A s \in DOMAIN h.bins : s < nb
      BY <2>4, BinChunk, BinnedIsSmallOrNot
    <3>3. QED
      BY <3>1, <3>2, UseDvOrTopServes
  <2>5. QED
    BY <2>1, <2>2, <2>3, <2>4
<1>4. QED
  BY <1>2, <1>3

(* A dv that is too small is never better. *)
LEMMA BetterWhenDvIsSmall ==
  ASSUME NEW h, NEW e \in Nat, e < WordSize, NEW s \in Nat, s <= e, h.dvsize \in Nat,
         NEW nb \in Nat, nb <= s, h.dvsize < nb
  PROVE  BetterThanDv(h, s, nb)
<1> DEFINE d == h.dvsize
           w == d - nb
<1>0. WordSize \in Nat \ {0}
  BY WordAssumption
<1>1. w \in Int /\ -WordSize <= w /\ w < 0
  BY <1>0
<1>2. w % WordSize = w + WordSize
  <2> HIDE DEF w
  <2>1. QED
    BY <1>0, <1>1, WordOfBorrow
<1>3. s - nb < w + WordSize
  BY <1>0
<1>4. QED
  BY <1>2, <1>3 DEF BetterThanDv, Word

LEMMA LargeRequestServes ==
  ASSUME NEW h, NEW lo, NEW e, NEW sz, NEW U, HeapOf(h, lo, e, sz, U), NEW env, e < MAX_SIZE_T,
         NEW nb \in Nat, nb = MAX_SIZE_T \/ (nb >= 256 /\ nb % 8 = 0 /\ nb < MAX_SIZE_T)
  PROVE  \/ Serves(h, LargeRequest(h, nb, env), nb, lo, e, sz, U)
         \/ LargeRequest(h, nb, env) = sys_alloc(h, nb, env) /\ Exhausted(h, nb)
<1>1. h.dvsize \in Nat /\ h.topsize \in Nat /\ h.dvsize <= e /\ h.topsize <= e /\ e \in Nat
  BY DvSize
<1>0. MAX_SIZE_T \in Nat /\ e < WordSize
  BY <1>1, WordAssumption DEF MAX_SIZE_T
<1>2. CASE nb = MAX_SIZE_T
  <2>1. \A s \in DOMAIN h.bins : s < nb
    BY <1>0, <1>1, <1>2, BinChunk
  <2>2. LargeRequest(h, nb, env) = UseDvTopOrSystem(h, nb, env)
    BY <1>2 DEF LargeRequest, Result
  <2>3. ~(nb <= h.dvsize) /\ ~(nb < h.topsize)
    BY <1>0, <1>1, <1>2
  <2>4. QED
    BY <1>1, <2>1, <2>2, <2>3 DEF UseDvTopOrSystem, Exhausted
<1>3. CASE nb >= 256 /\ nb % 8 = 0 /\ nb < MAX_SIZE_T
  <2> DEFINE r == tmalloc_large(h, nb)
             S == AtLeast(TreeBinned(h), nb)
  <2>1. nb # MAX_SIZE_T /\ nb >= 16
    BY <1>0, <1>3
  <2>2. LargeRequest(h, nb, env) = IF r.mem # 0 THEN r ELSE UseDvTopOrSystem(h, nb, env)
    BY <2>1 DEF LargeRequest
  <2>3. CASE Serves(h, r, nb, lo, e, sz, U)
    <3>1. r.mem # 0
      BY <2>3 DEF Serves, chunk2mem, TWO_SIZE_T_SIZES
    <3>2. QED
      BY <2>2, <2>3, <3>1
  <2>4. CASE r = Result(h, 0) /\ (S = {} \/ ~BetterThanDv(h, Min(S), nb))
    <3>1. LargeRequest(h, nb, env) = UseDvTopOrSystem(h, nb, env)
      BY <2>2, <2>4 DEF Result
    <3>2. \A s \in DOMAIN h.bins : is_small(s) => s < nb
      <4>1. \A s \in Nat : is_small(s) => s < 256
        BY DEF is_small, small_index, SMALLBIN_WIDTH, NSMALLBINS
      <4>2. QED
        BY <1>3, <4>1, BinChunk
    <3>3. \A s \in DOMAIN h.bins : s < nb \/ nb <= h.dvsize
      <4>1. CASE S = {}
        BY <3>2, <4>1, BinChunk, BinnedIsSmallOrNot
      <4>2. CASE S # {} /\ ~BetterThanDv(h, Min(S), nb)
        <5> DEFINE x == Min(S)
        <5>1. S \subseteq DOMAIN h.bins /\ \A y \in S : y >= nb
          BY DEF AtLeast, TreeBinned
        <5>2. S \subseteq Nat
          BY <5>1, BinChunk
        <5>3. x \in S
          <6> HIDE DEF S
          <6>1. QED
            BY <4>2, <5>2, MinIs
        <5> HIDE DEF S, x
        <5>4. x \in Nat /\ x >= nb /\ x <= e
          BY <5>1, <5>2, <5>3, BinChunk
        <5>5. ~(h.dvsize < nb)
          BY <1>0, <1>1, <4>2, <5>4, BetterWhenDvIsSmall DEF x
        <5>6. QED
          BY <1>1, <5>5
      <4>3. QED
        BY <2>4, <4>1, <4>2
    <3>4. QED
      BY <1>3, <2>1, <3>1, <3>3, UseDvOrTopServes
  <2>5. QED
    BY <1>3, <2>1, <2>3, <2>4, tmalloc_largeServes
<1>4. QED
  BY <1>2, <1>3

(* Sizes of chunks for requests. *)
LEMMA Requests ==
  /\ MAX_REQUEST = WordSize - 64 /\ MAX_REQUEST \in Nat /\ MIN_REQUEST = 11 /\ WordSize \in Nat
  /\ MAX_SIZE_T \in Nat /\ MAX_SMALL_REQUEST = 244 /\ WordSize >= 4096 /\ WordSize % 8 = 0
<1>0. WordSize \in Nat /\ WordSize >= 4096 /\ WordSize % 8 = 0
  BY WordAssumption
<1>1. MIN_CHUNK_SIZE = 16
  BY MinChunkSize
<1>2. (-64) % WordSize = -64 + WordSize
  <2>1. WordSize \in Nat \ {0} /\ -64 \in Int /\ -WordSize <= -64 /\ -64 < 0
    BY <1>0
  <2>2. QED
    BY <2>1, WordOfBorrow
<1>3. MAX_REQUEST = WordSize - 64
  <2>1. (-MIN_CHUNK_SIZE) * 4 = -64
    BY <1>1
  <2>2. QED
    BY <1>0, <1>2, <2>1 DEF MAX_REQUEST, Word
<1>4. MIN_REQUEST = 11
  BY <1>1 DEF MIN_REQUEST, CHUNK_OVERHEAD, SIZE_T_SIZE
<1>5. MAX_SMALL_REQUEST = 244
  BY DEF MAX_SMALL_REQUEST, MAX_SMALL_SIZE, MIN_LARGE_SIZE, TREEBIN_SHIFT, MALLOC_ALIGNMENT,
         CHUNK_OVERHEAD, SIZE_T_SIZE
<1>6. QED
  BY <1>0, <1>3, <1>4, <1>5 DEF MAX_SIZE_T

(* Rounding up to chunks. *)
LEMMA AlignUpToChunk ==
  ASSUME NEW x \in Nat, x + 7 < WordSize, NEW y, y = AlignUp(x, MALLOC_ALIGNMENT)
  PROVE  y \in Nat /\ y % 8 = 0 /\ y >= x /\ y <= x + 7
<1> DEFINE w == x + 7
<1>0. WordSize \in Nat \ {0} /\ w \in 0 .. WordSize - 1 /\ w \in Nat
  BY Requests
<1>1. Word(x + 8 - 1) = w
  <2>1. x + 8 - 1 = w
    OBVIOUS
  <2> HIDE DEF w
  <2>2. QED
    BY <1>0, <2>1, WordOfSmall DEF Word
<1> HIDE DEF w
<1>2. y = w - (w % 8)
  BY <1>1 DEF AlignUp, MALLOC_ALIGNMENT
<1>3. QED
  BY <1>0, <1>2 DEF w

LEMMA RequestSize ==
  ASSUME NEW bytes \in Nat, bytes < MAX_REQUEST, NEW nb, nb = request2size(bytes)
  PROVE  /\ nb \in Nat /\ nb % 8 = 0 /\ nb >= 16 /\ nb >= bytes + 4 /\ nb <= bytes + 16
         /\ nb < MAX_SIZE_T /\ nb % 8 = 0
         /\ bytes <= 244 => nb <= 248
         /\ bytes > 244 => nb >= 256
<1>1. CASE bytes < MIN_REQUEST
  BY <1>1, Requests, MinChunkSize DEF request2size, MAX_SIZE_T
<1>2. CASE ~(bytes < MIN_REQUEST)
  <2>1. bytes >= 11 /\ bytes + 4 \in Nat /\ bytes + 4 + 7 < WordSize
    BY <1>2, Requests
  <2>2. nb = AlignUp(bytes + 4, MALLOC_ALIGNMENT)
    BY <1>2 DEF request2size, pad_request, CHUNK_OVERHEAD, SIZE_T_SIZE
  <2>3. nb \in Nat /\ nb % 8 = 0 /\ nb >= bytes + 4 /\ nb <= bytes + 4 + 7
    BY <2>1, <2>2, AlignUpToChunk
  <2>4. nb < MAX_SIZE_T
    BY <2>3, Requests DEF MAX_SIZE_T
  <2>5. QED
    BY <2>1, <2>3, <2>4
<1>3. QED
  BY <1>1, <1>2

-----------------------------------------------------------------------------
(* Whole multiples, and rounding up to them.                               *)
LEMMA MultipleRemainder ==
  ASSUME NEW k \in Nat, NEW u \in Nat \ {0}, NEW y, y = k * u
  PROVE  y \in Nat /\ y % u = 0
<1>0. y \in Nat
  OBVIOUS
<1> DEFINE q == y \div u
           r == y % u
<1>1. y = q * u + r /\ r \in 0 .. u - 1 /\ q \in Nat
  BY <1>0, QuotientRemainder
<1> HIDE DEF q, r
<1>2. ~(k < q)
  <2>1. k < q => k * u + u <= q * u
    BY <1>1, ScaleUp
  <2>2. QED
    BY <1>1, <2>1
<1>3. ~(q < k)
  <2>1. q < k => q * u + u <= k * u
    BY <1>1, ScaleUp
  <2>2. QED
    BY <1>1, <2>1
<1>4. k = q
  BY <1>1, <1>2, <1>3
<1>5. k * u = q * u
  BY <1>4
<1>6. q * u \in Nat /\ r \in Nat
  BY <1>1
<1>7. r = 0
  BY <1>0, <1>1, <1>5, <1>6
<1>8. QED
  BY <1>0, <1>7 DEF r

LEMMA MultipleOf ==
  ASSUME NEW n \in Nat, NEW u \in Nat \ {0}, n % u = 0
  PROVE  \E k \in Nat : n = k * u
<1> DEFINE k == n \div u
<1>1. n = k * u + (n % u) /\ k \in Nat
  BY QuotientRemainder
<1> HIDE DEF k
<1>2. k * u \in Nat
  BY <1>1
<1>3. n = k * u
  BY <1>1, <1>2
<1>4. QED
  BY <1>1, <1>3

LEMMA SumOfMultiples ==
  ASSUME NEW a \in Nat, NEW b \in Nat, NEW u \in Nat \ {0}, a % u = 0, b % u = 0
  PROVE  (a + b) % u = 0
<1>1. PICK i \in Nat : a = i * u
  BY MultipleOf
<1>2. PICK j \in Nat : b = j * u
  BY MultipleOf
<1> DEFINE k == i + j
           y == a + b
<1>3. y = k * u /\ k \in Nat
  BY <1>1, <1>2
<1> HIDE DEF k, y
<1>4. y % u = 0
  BY <1>3, MultipleRemainder
<1>5. QED
  BY <1>4 DEF y

LEMMA DividesEight ==
  ASSUME NEW n \in Nat, NEW u \in Nat \ {0}, n % u = 0, u % 8 = 0
  PROVE  n % 8 = 0
<1>1. PICK k \in Nat : n = k * u
  BY MultipleOf
<1>2. PICK j \in Nat : u = j * 8
  BY MultipleOf
<1> DEFINE i == k * j
<1>3. n = i * 8 /\ i \in Nat
  BY <1>1, <1>2
<1> HIDE DEF i
<1>4. QED
  BY <1>3, MultipleRemainder

LEMMA AlignUpIs ==
  ASSUME NEW n \in Nat, NEW u \in Nat \ {0}, n + u - 1 < WordSize, NEW y, y = AlignUp(n, u)
  PROVE  y \in Nat /\ y % u = 0 /\ n <= y /\ y <= n + u - 1
<1> DEFINE w == n + u - 1
<1>0. WordSize \in Nat \ {0} /\ w \in 0 .. WordSize - 1 /\ w \in Nat
  BY Requests
<1>1. Word(w) = w
  <2> HIDE DEF w
  <2>1. QED
    BY <1>0, WordOfSmall DEF Word
<1>2. y = w - (w % u)
  BY <1>1 DEF AlignUp
<1> HIDE DEF w
<1> DEFINE q == w \div u
           r == w % u
<1>3. w = q * u + r /\ r \in 0 .. u - 1 /\ q \in Nat
  BY <1>0, QuotientRemainder
<1>4. y = w - r
  BY <1>2
<1> HIDE DEF q, r
<1>5. q * u \in Nat
  BY <1>3
<1>6. y = q * u
  BY <1>0, <1>3, <1>4, <1>5
<1>7. y \in Nat /\ y % u = 0
  BY <1>3, <1>6, MultipleRemainder
<1>8. n <= y /\ y <= n + u - 1
  BY <1>0, <1>3, <1>4 DEF w
<1>9. QED
  BY <1>7, <1>8

(* The sum may wrap, and nothing is left then. *)
LEMMA AlignUpWraps ==
  ASSUME NEW n \in Nat, n < WordSize, NEW u \in Nat \ {0}, u <= WordSize, n + u - 1 >= WordSize
  PROVE  AlignUp(n, u) = 0
<1> DEFINE w == n + u - 1
           v == w - WordSize
<1>0. WordSize \in Nat \ {0} /\ w \in Int /\ WordSize <= w /\ w < 2 * WordSize /\ v \in 0 .. u - 1
  BY Requests
<1>1. Word(w) = v
  <2> HIDE DEF w
  <2>1. QED
    BY <1>0, WordOfCarry DEF Word
<1> HIDE DEF w
<1>2. v % u = v
  <2> HIDE DEF v
  <2>1. QED
    BY <1>0, WordOfSmall
<1> HIDE DEF v
<1>3. AlignUp(n, u) = v - (v % u)
  BY <1>1 DEF AlignUp, w
<1>4. QED
  BY <1>0, <1>2, <1>3

LEMMA AlignUpMonotone ==
  ASSUME NEW a \in Nat, NEW b \in Nat, a <= b, NEW u \in Nat \ {0}, b + u - 1 < WordSize
  PROVE  AlignUp(a, u) <= AlignUp(b, u)
<1> DEFINE x == AlignUp(a, u)
           y == AlignUp(b, u)
<1>1. a + u - 1 < WordSize
  BY Requests
<1>2. x \in Nat /\ x % u = 0 /\ a <= x /\ x <= a + u - 1
  BY <1>1, AlignUpIs
<1>3. y \in Nat /\ y % u = 0 /\ b <= y /\ y <= b + u - 1
  BY AlignUpIs
<1> SUFFICES x <= y
  OBVIOUS
<1> HIDE DEF x, y
<1>4. PICK i \in Nat : x = i * u
  BY <1>2, MultipleOf
<1>5. PICK j \in Nat : y = j * u
  BY <1>3, MultipleOf
<1>6. ~(j < i)
  <2>1. j < i => j * u + u <= i * u
    BY ScaleUp
  <2>2. QED
    BY <1>2, <1>3, <1>4, <1>5, <2>1
<1>7. i * u <= j * u
  BY <1>6, ScaleMonotone
<1>8. QED
  BY <1>4, <1>5, <1>7

-----------------------------------------------------------------------------
(* Powers of two. *)
Doubles(f, k) == \A i \in 0 .. k : f[i] = IF i = 0 THEN 1 ELSE 2 * f[i - 1]

LEMMA DoublingExists ==
  ASSUME NEW n \in Nat
  PROVE  \E f : f = [i \in 0 .. n |-> IF i = 0 THEN 1 ELSE 2 * f[i - 1]]
<1> DEFINE P(k) == \E f : f = [i \in 0 .. k |-> IF i = 0 THEN 1 ELSE 2 * f[i - 1]]
           T == {k \in Nat : P(k)}
<1>1. P(0)
  <2> DEFINE f == [i \in 0 .. 0 |-> 1]
  <2>1. f = [i \in 0 .. 0 |-> IF i = 0 THEN 1 ELSE 2 * f[i - 1]]
    OBVIOUS
  <2>2. QED
    BY <2>1
<1>2. ASSUME NEW k \in Nat, P(k)
      PROVE  P(k + 1)
  <2>1. PICK f : f = [i \in 0 .. k |-> IF i = 0 THEN 1 ELSE 2 * f[i - 1]]
    BY <1>2
  <2> DEFINE g == [i \in 0 .. k + 1 |-> IF i = 0 THEN 1 ELSE 2 * f[i - 1]]
  <2>2. \A i \in 0 .. k : g[i] = f[i]
    BY <2>1
  <2>3. g = [i \in 0 .. k + 1 |-> IF i = 0 THEN 1 ELSE 2 * g[i - 1]]
    <3>1. \A i \in 0 .. k + 1 : i # 0 => i - 1 \in 0 .. k
      OBVIOUS
    <3>2. \A i \in 0 .. k + 1 : (IF i = 0 THEN 1 ELSE 2 * f[i - 1]) = (IF i = 0 THEN 1 ELSE 2 * g[i - 1])
      BY <2>2, <3>1
    <3>3. QED
      BY <3>2
  <2>4. QED
    BY <2>3
<1>3. 0 \in T /\ \A k \in Nat : k \in T => k + 1 \in T
  <2> HIDE DEF P
  <2>1. QED
    BY <1>1, <1>2
<1>4. Nat \subseteq T
  <2> HIDE DEF T
  <2>1. QED
    BY <1>3, Induction
<1>5. QED
  BY <1>4

LEMMA PowersOfTwoAre ==
  /\ 1 \in PowersOfTwo \/ SIZE_T_BITSIZE = 0
  /\ \A x \in PowersOfTwo : x \in Nat \ {0} /\ (x >= 8 => x % 8 = 0)
<1> DEFINE n == SIZE_T_BITSIZE - 1
           power == CHOOSE f : f = [i \in 0 .. n |-> IF i = 0 THEN 1 ELSE 2 * f[i - 1]]
<1>0. PowersOfTwo = {power[k] : k \in 0 .. n}
  BY DEF PowersOfTwo
<1>1. CASE SIZE_T_BITSIZE = 0
  <2>1. 0 .. n = {}
    BY <1>1
  <2>2. QED
    BY <1>0, <1>1, <2>1
<1>2. CASE SIZE_T_BITSIZE # 0
  <2>1. n \in Nat
    BY <1>2, WordAssumption
  <2> HIDE DEF n
  <2>2. power = [i \in 0 .. n |-> IF i = 0 THEN 1 ELSE 2 * power[i - 1]]
    BY <2>1, DoublingExists
  <2> HIDE DEF power
  <2> DEFINE Good(x) == x \in Nat /\ x > 0 /\ (x >= 8 => x % 8 = 0) /\ (x < 8 => x \in {1, 2, 4})
             P(k) == k <= n => Good(power[k])
             T == {k \in Nat : P(k)}
  <2>3. P(0)
    <3>1. power[0] = 1
      BY <2>1, <2>2
    <3>2. QED
      BY <3>1
  <2>4. ASSUME NEW k \in Nat, P(k)
        PROVE  P(k + 1)
    <3> SUFFICES ASSUME k + 1 <= n
                 PROVE  Good(power[k + 1])
      OBVIOUS
    <3>1. power[k + 1] = 2 * power[k]
      BY <2>1, <2>2
    <3>2. Good(power[k])
      BY <2>1, <2>4
    <3> DEFINE x == power[k]
               y == power[k + 1]
    <3>3. Good(x) /\ y = 2 * x
      BY <3>1, <3>2
    <3> HIDE DEF x, y
    <3>4. Good(y)
      BY <3>3
    <3>5. QED
      BY <3>4 DEF y
  <2>5. 0 \in T /\ \A k \in Nat : k \in T => k + 1 \in T
    <3> HIDE DEF P
    <3>1. QED
      BY <2>3, <2>4
  <2>6. Nat \subseteq T
    <3> HIDE DEF T
    <3>1. QED
      BY <2>5, Induction
  <2>7. \A k \in 0 .. n : Good(power[k])
    BY <2>1, <2>6
  <2>8. 1 \in PowersOfTwo
    <3>1. power[0] = 1 /\ 0 \in 0 .. n
      BY <2>1, <2>2
    <3>2. QED
      BY <1>0, <3>1
  <2>9. QED
    BY <1>0, <2>7, <2>8
<1>3. QED
  BY <1>1, <1>2

LEMMA Pages ==
  /\ PageSize \in Nat /\ PageSize >= 16 /\ PageSize % 8 = 0 /\ PageSize \in PowersOfTwo
  /\ HeapEnd \in Nat /\ HeapEnd % 8 = 0 /\ HeapEnd % PageSize = 0 /\ HeapEnd + PageSize <= WordSize
<1>1. PageSize \in Nat \ {0} /\ PageSize >= 16 /\ PageSize % 8 = 0
  BY SystemAssumption, PowersOfTwoAre, MinChunkSize
<1>2. HeapEnd % 8 = 0
  BY <1>1, SystemAssumption, DividesEight
<1>3. QED
  BY <1>1, <1>2, SystemAssumption

LEMMA TopFootSize == TOP_FOOT_SIZE = 40 /\ SYS_ALLOC_PADDING = 48
<1>1. align_offset(chunk2mem(0)) = 0
  BY DEF align_offset, chunk2mem, TWO_SIZE_T_SIZES, MALLOC_ALIGNMENT
<1>2. pad_request(16) = 24
  <2> DEFINE y == AlignUp(20, MALLOC_ALIGNMENT)
  <2>1. y \in Nat /\ y % 8 = 0 /\ y >= 20 /\ y <= 27
    BY Requests, AlignUpToChunk
  <2> HIDE DEF y
  <2>2. y = 24
    BY <2>1
  <2>3. QED
    BY <2>2 DEF pad_request, CHUNK_OVERHEAD, SIZE_T_SIZE, y
<1>3. QED
  BY <1>1, <1>2, MinChunkSize
     DEF TOP_FOOT_SIZE, SYS_ALLOC_PADDING, SizeofMallocSegment, MALLOC_ALIGNMENT

LEMMA AlignAsChunk ==
  ASSUME NEW p \in Nat, NEW lo, lo = align_as_chunk(p)
  PROVE  /\ lo \in Nat /\ lo % 8 = 0 /\ p <= lo /\ lo <= p + 7 /\ (p % 8 = 0 => lo = p)
         /\ align_offset(chunk2mem(p)) = lo - p
BY DEF align_as_chunk, align_offset, chunk2mem, TWO_SIZE_T_SIZES, MALLOC_ALIGNMENT

(* A new top at p, of s bytes up to e. *)
TopMade(h, n, p, s, e) ==
  /\ WellFormed(n) /\ Only(n, h, {"head", "foot", "top", "topsize", "trim_check"})
  /\ n.top = p /\ n.topsize = s
  /\ \A x \in DOMAIN n.head : x = p \/ x = e \/ (x \in DOMAIN h.head /\ (x < p \/ x >= e + 40))
  /\ \A x \in DOMAIN h.head : x < p => x \in DOMAIN n.head /\ n.head[x] = h.head[x]
  /\ p \in DOMAIN n.head /\ n.head[p] = [size |-> s, pinuse |-> TRUE, cinuse |-> FALSE]
  /\ e \in DOMAIN n.head /\ n.head[e] = [size |-> TOP_FOOT_SIZE, pinuse |-> FALSE, cinuse |-> FALSE]
  /\ \A x \in DOMAIN h.foot : x <= p => x \in DOMAIN n.foot /\ n.foot[x] = h.foot[x]

LEMMA HeadTypes ==
  ASSUME NEW s \in Nat, NEW pin \in BOOLEAN, NEW cin \in BOOLEAN
  PROVE  [size |-> s, pinuse |-> pin, cinuse |-> cin] \in HeadRecords
BY DEF HeadRecords

(* A head at p, and nothing up to e. *)
HeadAdded(h, n, p, s, e, pin) ==
  /\ Only(n, h, {"head", "foot"})
  /\ \A x : x \in DOMAIN n.head <=> x = p \/ (x \in DOMAIN h.head /\ (x <= p \/ x >= e))
  /\ n.head[p] = [size |-> s, pinuse |-> pin, cinuse |-> FALSE]
  /\ \A x \in DOMAIN n.head : x # p => n.head[x] = h.head[x]
  /\ \A x : x \in DOMAIN n.foot <=> x \in DOMAIN h.foot /\ (x <= p \/ x >= e)
  /\ \A x \in DOMAIN n.foot : n.foot[x] = h.foot[x]

LEMMA HeadIsAdded ==
  ASSUME NEW h, IsState(h), NEW p, NEW s, NEW e, e = p + s, NEW pin \in BOOLEAN,
         NEW cin \in BOOLEAN, ~cin
  PROVE  HeadAdded(h, StoreHead(h, p, s, pin, cin), p, s, e, pin)
<1> DEFINE n == StoreHead(h, p, s, pin, cin)
<1>1. /\ Only(n, h, {"head", "foot"})
      /\ DOMAIN n.head = {x \in DOMAIN h.head : x <= p \/ x >= p + s} \cup {p}
      /\ n.head[p] = [size |-> s, pinuse |-> pin, cinuse |-> cin]
      /\ \A x \in DOMAIN n.head : x # p => n.head[x] = h.head[x]
      /\ DOMAIN n.foot = {x \in DOMAIN h.foot : (x <= p \/ x >= p + s) /\ (cin => x # p + s)}
      /\ \A x \in DOMAIN n.foot : n.foot[x] = h.foot[x]
  BY StoreHeadIs
<1> HIDE DEF n
<1>2. cin = FALSE
  OBVIOUS
<1>3. HeadAdded(h, n, p, s, e, pin)
  BY <1>1, <1>2 DEF HeadAdded
<1>4. QED
  BY <1>3 DEF n

LEMMA InitTopMakes ==
  ASSUME NEW h, WellFormed(h), NEW p0 \in Nat, NEW s0 \in Nat, NEW p, p = align_as_chunk(p0),
         NEW s \in Nat, s > 0, p + s = p0 + s0, NEW e, e = p + s
  PROVE  TopMade(h, init_top(h, p0, s0), p, s, e)
<1> DEFINE k == StoreHead(h, p, s, TRUE, FALSE)
           j == StoreHead(k, e, TOP_FOOT_SIZE, FALSE, FALSE)
           n == init_top(h, p0, s0)
<1> SUFFICES TopMade(h, n, p, s, e)
  OBVIOUS
<1>1. p \in Nat /\ p = p0 + align_offset(chunk2mem(p0)) /\ s = s0 - align_offset(chunk2mem(p0))
  <2>1. p \in Nat /\ align_offset(chunk2mem(p0)) = p - p0
    BY AlignAsChunk
  <2>2. QED
    BY <2>1
<1>2. n = [j EXCEPT !.top = p, !.topsize = s, !.trim_check = h.trim_threshold]
  BY <1>1 DEF init_top
<1>3. HeadAdded(h, k, p, s, e, TRUE)
  <2>1. IsState(h)
    BY DEF WellFormed
  <2>2. QED
    BY <2>1, HeadIsAdded
<1> HIDE DEF k
<1>4. HeadAdded(k, j, e, TOP_FOOT_SIZE, e + 40, FALSE)
  <2>1. IsState(k)
    BY <1>3 DEF Only, HeadAdded
  <2>2. e + 40 = e + TOP_FOOT_SIZE
    BY TopFootSize
  <2>3. QED
    BY <2>1, <2>2, HeadIsAdded
<1> HIDE DEF j
<1>5. Only(n, h, {"head", "foot", "top", "topsize", "trim_check"}) /\ n.top = p /\ n.topsize = s
      /\ n.head = j.head /\ n.foot = j.foot
  <2>1. Only(j, h, {"head", "foot"})
    BY <1>3, <1>4, OnlyTransitive DEF HeadAdded
  <2> HIDE DEF n
  <2>2. QED
    BY <1>2, <2>1 DEF Only, IsState, FieldNames
<1> HIDE DEF n
<1>6. \A x \in DOMAIN h.head : x \in Nat
  BY DEF WellFormed
<1>7. \A x \in DOMAIN h.foot : x \in Nat
  BY DEF WellFormed
<1>8. p < e /\ e \in Nat
  BY <1>1
<1>9. \A x \in DOMAIN n.head : x = p \/ x = e \/ (x \in DOMAIN h.head /\ (x < p \/ x >= e + 40))
  BY <1>1, <1>3, <1>4, <1>5, <1>6, <1>8 DEF HeadAdded
<1>10. \A x \in DOMAIN h.head : x < p => x \in DOMAIN n.head /\ n.head[x] = h.head[x]
  <2>1. ASSUME NEW x \in DOMAIN h.head, x < p
        PROVE  x \in DOMAIN n.head /\ n.head[x] = h.head[x]
    <3>1. x \in DOMAIN k.head /\ x <= e /\ x # e /\ x # p
      BY <1>1, <1>3, <1>6, <1>8, <2>1 DEF HeadAdded
    <3>2. QED
      BY <1>3, <1>4, <1>5, <3>1 DEF HeadAdded
  <2>2. QED
    BY <2>1
<1>11. /\ p \in DOMAIN n.head /\ n.head[p] = [size |-> s, pinuse |-> TRUE, cinuse |-> FALSE]
       /\ e \in DOMAIN n.head /\ n.head[e] = [size |-> TOP_FOOT_SIZE, pinuse |-> FALSE, cinuse |-> FALSE]
  BY <1>1, <1>3, <1>4, <1>5, <1>8 DEF HeadAdded
<1>12. \A x \in DOMAIN h.foot : x <= p => x \in DOMAIN n.foot /\ n.foot[x] = h.foot[x]
  <2>1. ASSUME NEW x \in DOMAIN h.foot, x <= p
        PROVE  x \in DOMAIN n.foot /\ n.foot[x] = h.foot[x]
    <3>1. x \in DOMAIN k.foot /\ x <= e
      BY <1>1, <1>3, <1>7, <1>8, <2>1 DEF HeadAdded
    <3>2. QED
      BY <1>3, <1>4, <1>5, <3>1 DEF HeadAdded
  <2>2. QED
    BY <2>1
<1>13. WellFormed(n)
  <2>1. n.junk = h.junk
    BY <1>5 DEF Only, FieldNames
  <2>2. \A x \in DOMAIN n.foot : x \in Nat
    BY <1>3, <1>4, <1>5, <1>7 DEF HeadAdded
  <2>3. ASSUME NEW x \in DOMAIN n.head
        PROVE  x \in Nat /\ n.head[x] \in HeadRecords
    <3>1. CASE x = p
      BY <1>1, <1>11, <3>1, HeadTypes
    <3>2. CASE x = e
      BY <1>8, <1>11, <3>2, TopFootSize, HeadTypes
    <3>3. CASE x # p /\ x # e
      BY <1>3, <1>4, <1>5, <3>3 DEF WellFormed, HeadAdded
    <3>4. QED
      BY <3>1, <3>2, <3>3
  <2>4. QED
    BY <1>5, <2>1, <2>2, <2>3 DEF WellFormed, Only
<1>14. QED
  BY <1>5, <1>9, <1>10, <1>11, <1>12, <1>13 DEF TopMade

NothingIn(h) ==
  /\ DOMAIN h.head = {} /\ DOMAIN h.foot = {} /\ h.bins = NoBins
  /\ h.top = 0 /\ h.topsize = 0 /\ h.dv = 0 /\ h.dvsize = 0

OneChunk(p, s) == [x \in {p} |-> s]

LEMMA FreshHeap ==
  ASSUME NEW h, NothingIn(h), NEW n, NEW p \in Nat, NEW s \in Nat, NEW e, e = p + s,
         TopMade(h, n, p, s, e), p % 8 = 0, s % 8 = 0, s > 0
  PROVE  HeapOf(n, p, e, OneChunk(p, s), {})
<1> DEFINE t == OneChunk(p, s)
           U == {}
<1>1. DOMAIN t = {p} /\ t[p] = s /\ t = [c \in DOMAIN t |-> t[c]]
  BY DEF OneChunk
<1> HIDE DEF t
<1>2. Tiling(p, e, t)
  BY <1>1 DEF Tiling
<1>3. n.bins = NoBins /\ n.dv = 0 /\ n.dvsize = 0 /\ WellFormed(n) /\ n.top = p /\ n.topsize = s
  BY DEF TopMade, Only, FieldNames, NothingIn
<1>4. Heads(n.head, n.foot, p, e, p, t, U, e)
  <2>1. \A x \in DOMAIN n.head : x = p \/ x = e
    BY DEF TopMade, NothingIn
  <2>2. /\ p \in DOMAIN n.head /\ n.head[p] = [size |-> s, pinuse |-> TRUE, cinuse |-> FALSE]
        /\ e \in DOMAIN n.head /\ n.head[e] = [size |-> TOP_FOOT_SIZE, pinuse |-> FALSE, cinuse |-> FALSE]
        /\ \A x \in DOMAIN n.head : x \in Nat /\ n.head[x] \in HeadRecords
    BY DEF TopMade, WellFormed
  <2>3. e \notin DOMAIN t /\ e # p
    BY <1>1
  <2>4. n.head[p] \in HeadRecords /\ n.head[p].size = s /\ ~n.head[p].cinuse /\ n.head[p].pinuse
    BY <2>2
  <2>5. \A c \in DOMAIN t : c # e => /\ c \in DOMAIN n.head /\ n.head[c] \in HeadRecords
                                     /\ n.head[c].size = t[c]
                                     /\ n.head[c].cinuse <=> c \in U
    BY <1>1, <2>2, <2>4
  <2>6. QED
    BY <1>1, <2>1, <2>2, <2>3, <2>4, <2>5 DEF Heads
<1>5. BinsOK(n.bins, n.dv, n.dvsize, t, FreeChunks(t, U, p))
  <2>1. FreeChunks(t, U, p) = {}
    BY <1>1 DEF FreeChunks
  <2>2. DOMAIN NoBins = {}
    BY DEF NoBins
  <2>3. QED
    BY <1>3, <2>1, <2>2 DEF BinsOK
<1>6. HeapOf(n, p, e, t, U)
  BY <1>1, <1>2, <1>3, <1>4, <1>5 DEF HeapOf, Layout
<1>7. QED
  BY <1>6 DEF t

GrowTop(sz, p, g) == [x \in DOMAIN sz |-> IF x = p THEN sz[p] + g ELSE sz[x]]

LEMMA GrowTiles ==
  ASSUME NEW lo, NEW e, NEW sz, Tiling(lo, e, sz), NEW p \in DOMAIN sz, p + sz[p] = e,
         NEW g \in Nat, g % 8 = 0, NEW e2, e2 = e + g
  PROVE  Tiling(lo, e2, GrowTop(sz, p, g))
<1> DEFINE t == GrowTop(sz, p, g)
<1>1. /\ DOMAIN t = DOMAIN sz /\ t = [c \in DOMAIN t |-> t[c]] /\ t[p] = sz[p] + g
      /\ \A c \in DOMAIN sz : c # p => t[c] = sz[c]
  BY DEF GrowTop
<1> HIDE DEF t
<1>2. /\ lo \in Nat /\ e \in Nat /\ lo \in DOMAIN sz /\ e \notin DOMAIN sz
      /\ \A c \in DOMAIN sz : /\ c \in Nat /\ sz[c] \in Nat /\ sz[c] > 0
                              /\ lo <= c /\ c < e /\ c + sz[c] <= e
                              /\ c + sz[c] \in DOMAIN sz \/ c + sz[c] = e
      /\ \A c \in DOMAIN sz, d \in DOMAIN sz : /\ c < d => c + sz[c] <= d
                                               /\ c + sz[c] = d + sz[d] => c = d
  BY TilingArith
<1>3. \A c \in DOMAIN sz : c % 8 = 0 /\ sz[c] % 8 = 0
  BY DEF Tiling
<1>4. e2 \in Nat /\ p + t[p] = e2 /\ t[p] \in Nat /\ t[p] % 8 = 0 /\ t[p] > 0
  BY <1>1, <1>2, <1>3
<1>5. \A c \in DOMAIN sz : c # p => c < p /\ c + sz[c] <= p
  BY <1>2
<1>6. \A c \in DOMAIN t : /\ c \in Nat /\ c % 8 = 0 /\ lo <= c /\ c < e2
                          /\ t[c] \in Nat /\ t[c] % 8 = 0 /\ t[c] > 0
  BY <1>1, <1>2, <1>3, <1>4
<1>7. \A c \in DOMAIN t : c + t[c] = e2 \/ c + t[c] \in DOMAIN t
  <2>1. ASSUME NEW c \in DOMAIN sz, c # p
        PROVE  c + sz[c] \in DOMAIN sz
    BY <1>2, <2>1
  <2>2. QED
    BY <1>1, <1>4, <2>1
<1>8. \A c \in DOMAIN t : c = lo \/ \E d \in DOMAIN t : d + t[d] = c
  <2>1. ASSUME NEW c \in DOMAIN sz, c # lo
        PROVE  \E d \in DOMAIN t : d + t[d] = c
    <3>1. PICK d \in DOMAIN sz : d + sz[d] = c
      BY <2>1 DEF Tiling
    <3>2. d # p
      BY <1>2, <3>1
    <3>3. QED
      BY <1>1, <3>1, <3>2
  <2>2. QED
    BY <1>1, <2>1
<1>9. \A c \in DOMAIN t, d \in DOMAIN t : c < d => c + t[c] <= d
  <2>1. ASSUME NEW c \in DOMAIN sz, NEW d \in DOMAIN sz, c < d
        PROVE  c # p /\ c + sz[c] <= d
    BY <1>2, <1>5, <2>1
  <2>2. QED
    BY <1>1, <2>1
<1>10. Tiling(lo, e2, t)
  BY <1>1, <1>2, <1>4, <1>6, <1>7, <1>8, <1>9 DEF Tiling
<1>11. QED
  BY <1>10 DEF t

LEMMA GrownHeap ==
  ASSUME NEW h, NEW lo, NEW e, NEW sz, NEW U, HeapOf(h, lo, e, sz, U),
         NEW p, p = h.top, NEW g \in Nat, g % 8 = 0, NEW e2, e2 = e + g,
         NEW s, s = h.topsize + g, NEW n, TopMade(h, n, p, s, e2)
  PROVE  HeapOf(n, lo, e2, GrowTop(sz, p, g), U)
<1> DEFINE t == GrowTop(sz, p, g)
           F == FreeChunks(sz, U, p)
<1>0. /\ Tiling(lo, e, sz) /\ Heads(h.head, h.foot, lo, e, p, sz, U, e) /\ h.topsize = sz[p]
      /\ BinsOK(h.bins, h.dv, h.dvsize, sz, F)
  BY DEF HeapOf, Layout
<1>1. p \in DOMAIN sz /\ p + sz[p] = e /\ p \notin U /\ U \subseteq DOMAIN sz /\ e \notin DOMAIN sz
  <2>1. Layout(h.head, h.foot, h.bins, h.dv, h.dvsize, lo, e, p, sz, U, e)
    BY DEF HeapOf
  <2>2. p \in DOMAIN sz /\ p + sz[p] = e /\ U \subseteq DOMAIN sz /\ e \notin DOMAIN sz
    BY <2>1, LayoutHole
  <2>3. p \notin U
    BY <2>1, <2>2, LayoutHole
  <2>4. QED
    BY <2>2, <2>3
<1>2. /\ DOMAIN t = DOMAIN sz /\ t[p] = sz[p] + g
      /\ \A c \in DOMAIN sz : c # p => t[c] = sz[c]
  BY <1>1 DEF GrowTop
<1>3. Tiling(lo, e2, t)
  BY <1>0, <1>1, GrowTiles
<1> HIDE DEF t
<1>4. /\ lo \in Nat /\ e \in Nat /\ e \notin DOMAIN sz /\ lo \in DOMAIN sz
      /\ \A c \in DOMAIN sz : /\ c \in Nat /\ sz[c] \in Nat /\ sz[c] > 0
                              /\ lo <= c /\ c < e /\ c + sz[c] <= e
                              /\ c + sz[c] \in DOMAIN sz \/ c + sz[c] = e
      /\ \A c \in DOMAIN sz, d \in DOMAIN sz : /\ c < d => c + sz[c] <= d
                                               /\ c + sz[c] = d + sz[d] => c = d
  BY <1>0, TilingArith
<1>5. n.bins = h.bins /\ n.dv = h.dv /\ n.dvsize = h.dvsize /\ WellFormed(n) /\ n.top = p /\ n.topsize = s
  BY DEF TopMade, Only, FieldNames
<1>6. \A c \in DOMAIN sz : c # p => c < p /\ c + sz[c] \in DOMAIN sz /\ c + sz[c] <= p
  BY <1>1, <1>4
<1>7. /\ \A x \in DOMAIN n.head : x = p \/ x = e2 \/ (x \in DOMAIN h.head /\ (x < p \/ x >= e2 + 40))
      /\ \A x \in DOMAIN h.head : x < p => x \in DOMAIN n.head /\ n.head[x] = h.head[x]
      /\ p \in DOMAIN n.head /\ n.head[p] = [size |-> s, pinuse |-> TRUE, cinuse |-> FALSE]
      /\ e2 \in DOMAIN n.head /\ n.head[e2] = [size |-> TOP_FOOT_SIZE, pinuse |-> FALSE, cinuse |-> FALSE]
      /\ \A x \in DOMAIN h.foot : x <= p => x \in DOMAIN n.foot /\ n.foot[x] = h.foot[x]
      /\ \A x \in DOMAIN n.head : x \in Nat /\ n.head[x] \in HeadRecords
  BY DEF TopMade, WellFormed
<1>8. e2 \notin DOMAIN t /\ e2 \in Nat /\ e <= e2 /\ p \in Nat
  BY <1>1, <1>2, <1>4
<1>9. /\ \A x \in DOMAIN h.head : x \in Nat /\ (x \in DOMAIN sz \/ x = e)
      /\ \A c \in DOMAIN sz : /\ c \in DOMAIN h.head /\ h.head[c] \in HeadRecords
                              /\ h.head[c].size = sz[c]
                              /\ h.head[c].cinuse <=> c \in U
      /\ \A c \in DOMAIN sz : c # p => (h.head[c + sz[c]].pinuse <=> c \in U)
      /\ h.head[lo].pinuse
      /\ \A c \in DOMAIN sz \ U : c # p => /\ c + sz[c] \in U
                                           /\ c + sz[c] \in DOMAIN h.foot
                                           /\ h.foot[c + sz[c]] = sz[c]
      /\ \A c \in DOMAIN sz : c # p => sz[c] >= 16
  <2>1. \A c \in DOMAIN sz : c # e /\ (c # p => c + sz[c] # e)
    BY <1>1, <1>4, <1>6
  <2>2. QED
    BY <1>0, <1>1, <1>4, <2>1 DEF Heads
<1>10. n.head[p].pinuse /\ ~n.head[p].cinuse /\ n.head[p].size = t[p]
  BY <1>0, <1>2, <1>7
<1>11. \A c \in DOMAIN sz : c # p => c \in DOMAIN n.head /\ n.head[c] = h.head[c]
  BY <1>6, <1>7, <1>9
<1>12. h.head[p].pinuse
  <2>1. CASE p = lo
    BY <1>9, <2>1
  <2>2. CASE p # lo
    <3>1. PICK d \in DOMAIN sz : d + sz[d] = p
      BY <1>0, <1>1, <2>2 DEF Tiling
    <3>2. d # p
      BY <1>1, <1>4, <3>1
    <3>3. d \in U
      BY <1>1, <1>9, <3>1, <3>2
    <3>4. QED
      BY <1>9, <3>1, <3>2, <3>3
  <2>3. QED
    BY <2>1, <2>2
<1>13. Heads(n.head, n.foot, lo, e2, p, t, U, e2)
  <2>1. \A x \in DOMAIN n.head : x \in Nat /\ (x \in DOMAIN t \/ x = e2)
    BY <1>1, <1>2, <1>4, <1>7, <1>8, <1>9
  <2>2. \A c \in DOMAIN t : c # e2 => /\ c \in DOMAIN n.head /\ n.head[c] \in HeadRecords
                                      /\ n.head[c].size = t[c]
                                      /\ n.head[c].cinuse <=> c \in U
    <3>1. ASSUME NEW c \in DOMAIN sz, c # p
          PROVE  /\ c \in DOMAIN n.head /\ n.head[c] \in HeadRecords
                 /\ n.head[c].size = t[c] /\ (n.head[c].cinuse <=> c \in U)
      BY <1>2, <1>9, <1>11, <3>1
    <3>2. n.head[p].cinuse <=> p \in U
      BY <1>1, <1>10
    <3>3. QED
      BY <1>2, <1>7, <1>10, <3>1, <3>2
  <2>3. \A c \in DOMAIN t : c # e2 /\ c # p /\ c + t[c] # e2 => (n.head[c + t[c]].pinuse <=> c \in U)
    <3>1. ASSUME NEW c \in DOMAIN sz, c # p
          PROVE  n.head[c + sz[c]].pinuse <=> c \in U
      <4>1. CASE c + sz[c] = p
        <5>1. h.head[p].pinuse <=> c \in U
          BY <1>9, <3>1, <4>1
        <5>2. QED
          BY <1>10, <1>12, <4>1, <5>1
      <4>2. CASE c + sz[c] # p
        <5>1. n.head[c + sz[c]] = h.head[c + sz[c]]
          BY <1>6, <1>11, <3>1, <4>2
        <5>2. QED
          BY <1>9, <3>1, <5>1
      <4>3. QED
        BY <4>1, <4>2
    <3>2. QED
      BY <1>2, <3>1
  <2>4. n.head[lo].pinuse
    BY <1>4, <1>9, <1>10, <1>11
  <2>5. \A c \in DOMAIN t \ U : c # p => /\ c + t[c] \in U
                                         /\ c + t[c] \in DOMAIN n.foot
                                         /\ n.foot[c + t[c]] = t[c]
    <3>1. ASSUME NEW c \in DOMAIN sz \ U, c # p
          PROVE  c + sz[c] \in U /\ c + sz[c] \in DOMAIN n.foot /\ n.foot[c + sz[c]] = sz[c]
      <4>1. c + sz[c] \in U /\ c + sz[c] \in DOMAIN h.foot /\ h.foot[c + sz[c]] = sz[c]
        BY <1>9, <3>1
      <4>2. c + sz[c] <= p
        BY <1>6, <3>1
      <4>3. QED
        BY <1>7, <4>1, <4>2
    <3>2. QED
      BY <1>2, <3>1
  <2>6. \A c \in DOMAIN t : c # e2 /\ c # p => t[c] >= 16
    BY <1>2, <1>9
  <2>7. U \subseteq DOMAIN t /\ p \in DOMAIN t /\ p + t[p] = e2
    BY <1>0, <1>1, <1>2, <1>4
  <2>8. QED
    BY <1>1, <1>7, <1>8, <2>1, <2>2, <2>3, <2>4, <2>5, <2>6, <2>7 DEF Heads
<1>14. BinsOK(n.bins, n.dv, n.dvsize, t, FreeChunks(t, U, p))
  <2>1. FreeChunks(t, U, p) = F
    BY <1>2 DEF FreeChunks
  <2>2. \A c \in F : t[c] = sz[c]
    BY <1>2 DEF FreeChunks
  <2> HIDE DEF F
  <2>3. BinsOK(h.bins, h.dv, h.dvsize, t, F)
    BY <1>0, <2>2, BinsFrame
  <2>4. QED
    BY <1>5, <2>1, <2>3
<1>15. HeapOf(n, lo, e2, t, U)
  <2>1. s = t[p]
    BY <1>0, <1>2
  <2>2. QED
    BY <1>3, <1>5, <1>13, <1>14, <2>1 DEF HeapOf, Layout
<1>16. QED
  BY <1>15 DEF t

-----------------------------------------------------------------------------
(* The state between calls.                                                *)

(* The parameters, and what they are to the system.                        *)
Params(h) ==
  /\ h.heap_base \in 1 .. HeapEnd /\ h.memory_end \in HeapEnd .. MaxMemory
  /\ h.footprint_limit \in Nat /\ h.contiguous \in BOOLEAN /\ h.enomem \in BOOLEAN /\ h.ok
  /\ h.granularity \in 0 .. MAX_SIZE_T /\ h.granularity % 8 = 0

Lo(h)  == align_as_chunk(h.base)
End(h) == h.base + h.segsize - TOP_FOOT_SIZE

(* One segment, which ends at the break. *)
Segment(h) ==
  /\ h.base \in Nat \ {0} /\ h.segsize \in Nat
  /\ h.brk = h.base + h.segsize /\ h.brk <= h.memory_end
  /\ h.footprint = h.segsize /\ h.max_footprint \in Nat /\ h.footprint <= h.max_footprint
  /\ h.granularity # 0

(* There is a heap, or none yet; U are the chunks in use.                  *)
Heap(h, sz, U) == HeapOf(h, Lo(h), End(h), sz, U) /\ Segment(h)

NoHeap(h) ==
  /\ WellFormed(h) /\ NothingIn(h)
  /\ h.base = 0 /\ h.segsize = 0 /\ h.footprint = 0 /\ h.max_footprint = 0 /\ h.brk = HeapEnd

Mem(h, sz, U) == Params(h) /\ (Heap(h, sz, U) \/ (NoHeap(h) /\ U = {}))

(* Sizes of chunks that are asked for. *)
NbOK(nb) ==
  nb \in Nat /\ nb >= 16 /\ (nb = MAX_SIZE_T \/ (nb % 8 = 0 /\ nb + 48 < WordSize))

LEMMA ChunkSizes ==
  ASSUME NEW bytes \in Nat, NEW nb, nb = ChunkSizeFor(bytes)
  PROVE  /\ NbOK(nb) /\ (bytes <= MAX_SMALL_REQUEST => nb < 256 /\ nb % 8 = 0)
         /\ bytes > MAX_SMALL_REQUEST =>
              nb = MAX_SIZE_T \/ (nb >= 256 /\ nb % 8 = 0 /\ nb < MAX_SIZE_T)
         /\ nb # MAX_SIZE_T => nb >= bytes + 4
         /\ bytes < MAX_REQUEST => nb = request2size(bytes)
<1>1. CASE bytes >= MAX_REQUEST
  <2>1. nb = MAX_SIZE_T
    BY <1>1 DEF ChunkSizeFor
  <2>2. ~(bytes < MAX_REQUEST) /\ ~(bytes <= MAX_SMALL_REQUEST) /\ nb >= 16
    BY <1>1, <2>1, Requests DEF MAX_SIZE_T
  <2>3. QED
    BY <2>1, <2>2, Requests DEF NbOK
<1>2. CASE ~(bytes >= MAX_REQUEST)
  <2>1. nb = request2size(bytes)
    BY <1>2 DEF ChunkSizeFor
  <2>2. bytes < MAX_REQUEST
    BY <1>2, Requests
  <2>3. /\ nb \in Nat /\ nb % 8 = 0 /\ nb >= 16 /\ nb >= bytes + 4 /\ nb <= bytes + 16
        /\ nb < MAX_SIZE_T
        /\ bytes <= 244 => nb <= 248
        /\ bytes > 244 => nb >= 256
    BY <2>1, <2>2, RequestSize
  <2>4. nb + 48 < WordSize
    BY <2>2, <2>3, Requests
  <2>5. QED
    BY <2>1, <2>3, <2>4, Requests DEF NbOK
<1>3. QED
  BY <1>1, <1>2

LEMMA HeapFacts ==
  ASSUME NEW h, NEW sz, NEW U, Params(h), Heap(h, sz, U)
  PROVE  /\ is_initialized(h) /\ h.top \in Nat /\ h.top % 8 = 0
         /\ Lo(h) \in Nat /\ End(h) \in Nat /\ End(h) < MAX_SIZE_T
         /\ End(h) + 40 = h.brk /\ h.brk \in Nat /\ h.base <= Lo(h)
         /\ h.top \in DOMAIN sz /\ h.topsize = sz[h.top] /\ U \subseteq DOMAIN sz
         /\ \A c \in DOMAIN sz : c \in Nat /\ h.base <= c /\ c + sz[c] <= End(h) /\ sz[c] \in Nat
<1>1. HeapOf(h, Lo(h), End(h), sz, U) /\ Segment(h)
  BY DEF Heap
<1> DEFINE lo == Lo(h)
           e == End(h)
<1>2. Layout(h.head, h.foot, h.bins, h.dv, h.dvsize, lo, e, h.top, sz, U, e) /\ h.topsize = sz[h.top]
  BY <1>1 DEF HeapOf
<1>3. lo \in Nat /\ h.base <= lo
  BY <1>1, AlignAsChunk DEF Segment, Lo
<1>4. e + 40 = h.brk
  BY <1>1, TopFootSize DEF Segment, End
<1> HIDE DEF lo, e
<1>5. h.top \in DOMAIN sz /\ U \subseteq DOMAIN sz
  BY <1>2, LayoutHole
<1>6. \A c \in DOMAIN sz : c \in Nat /\ e \in Nat /\ lo <= c /\ sz[c] \in Nat /\ c + sz[c] <= e /\ c % 8 = 0
  BY <1>2, ChunkFacts
<1>7. h.brk \in Nat /\ h.brk <= MAX_SIZE_T
  BY <1>1, SystemAssumption, Requests DEF Segment, Params
<1>8. e \in Nat /\ e < MAX_SIZE_T
  BY <1>4, <1>5, <1>6, <1>7, Requests
<1>9. h.base \in Nat /\ h.base > 0
  BY <1>1 DEF Segment
<1>10. \A c \in DOMAIN sz : h.base <= c
  BY <1>3, <1>6, <1>9
<1>11. h.top \in Nat /\ h.top # 0 /\ h.top % 8 = 0
  BY <1>5, <1>6, <1>9, <1>10
<1>12. QED
  BY <1>2, <1>3, <1>4, <1>5, <1>6, <1>7, <1>8, <1>10, <1>11 DEF is_initialized, lo, e

(* What the heap does not depend on. *)
LEMMA HeapFrame ==
  ASSUME NEW h, NEW sz, NEW U, Heap(h, sz, U), NEW n,
         Only(n, h, {"contiguous", "enomem", "footprint_limit", "trim_check", "trim_threshold",
                     "granularity"}),
         n.granularity # 0
  PROVE  Heap(n, sz, U)
<1>1. /\ n.head = h.head /\ n.foot = h.foot /\ n.bins = h.bins /\ n.dv = h.dv /\ n.dvsize = h.dvsize
      /\ n.top = h.top /\ n.topsize = h.topsize /\ n.base = h.base /\ n.segsize = h.segsize
      /\ n.brk = h.brk /\ n.memory_end = h.memory_end /\ n.footprint = h.footprint
      /\ n.max_footprint = h.max_footprint /\ n.junk = h.junk /\ IsState(n)
  BY DEF Only, FieldNames
<1>2. Lo(n) = Lo(h) /\ End(n) = End(h)
  BY <1>1 DEF Lo, End
<1>3. WellFormed(n)
  BY <1>1, WellFormedIs DEF Heap, HeapOf
<1>4. QED
  BY <1>1, <1>2, <1>3 DEF Heap, HeapOf, Segment

LEMMA NoHeapFrame ==
  ASSUME NEW h, NoHeap(h), NEW n,
         Only(n, h, {"contiguous", "enomem", "footprint_limit", "trim_check", "trim_threshold",
                     "granularity"})
  PROVE  NoHeap(n)
<1>1. /\ n.head = h.head /\ n.foot = h.foot /\ n.bins = h.bins /\ n.dv = h.dv /\ n.dvsize = h.dvsize
      /\ n.top = h.top /\ n.topsize = h.topsize /\ n.base = h.base /\ n.segsize = h.segsize
      /\ n.brk = h.brk /\ n.footprint = h.footprint
      /\ n.max_footprint = h.max_footprint /\ n.junk = h.junk /\ IsState(n)
  BY DEF Only, FieldNames
<1>2. WellFormed(n)
  BY <1>1, WellFormedIs DEF NoHeap
<1>3. QED
  BY <1>1, <1>2 DEF NoHeap, NothingIn

(* The system's side is untouched by what only cuts and joins chunks. *)
LEMMA ChunksOnly ==
  ASSUME NEW h, NEW n, Only(n, h, ChunkFields)
  PROVE  /\ Params(h) => Params(n)
         /\ Segment(h) => Segment(n)
         /\ Lo(n) = Lo(h) /\ End(n) = End(h)
         /\ n.enomem = h.enomem /\ n.footprint = h.footprint /\ n.brk = h.brk
         /\ n.footprint_limit = h.footprint_limit /\ n.base = h.base
<1>1. /\ n.base = h.base /\ n.segsize = h.segsize /\ n.ok = h.ok
      /\ n.brk = h.brk /\ n.memory_end = h.memory_end /\ n.footprint = h.footprint
      /\ n.max_footprint = h.max_footprint /\ n.granularity = h.granularity
      /\ n.contiguous = h.contiguous /\ n.enomem = h.enomem /\ n.footprint_limit = h.footprint_limit
      /\ n.heap_base = h.heap_base
  BY DEF Only, FieldNames, ChunkFields
<1>2. QED
  BY <1>1 DEF Params, Segment, Lo, End

-----------------------------------------------------------------------------
(* What a call may do to the memory it has. *)
Growth(h, n) ==
  is_initialized(h) /\ h.footprint_limit # 0 /\ n.footprint > h.footprint
    => n.footprint <= h.footprint_limit

Keeps(t, sz, U) == \A c \in U : t[c] = sz[c]

(* The result is a block of nb bytes of a chunk, beside the ones of U. *)
Grants(h, r, nb, sz, U) ==
  \E p \in Nat : \E t : /\ r.mem = chunk2mem(p) /\ p \notin U
                        /\ Params(r.m) /\ Heap(r.m, t, U \cup {p})
                        /\ t[p] >= nb /\ PredUsed(Lo(r.m), t, U \cup {p}, p) /\ Keeps(t, sz, U)
                        /\ r.m.enomem = h.enomem /\ Growth(h, r.m)

(* Or it is none, and then nothing has happened. *)
Refuses(h, r, sz, U) ==
  /\ r.mem = 0 /\ r.m.enomem /\ r.m.brk = h.brk /\ Growth(h, r.m)
  /\ is_initialized(h) => Only(r.m, h, {"contiguous", "enomem"})
  /\ Mem(r.m, sz, U)

LEMMA ServesGrants ==
  ASSUME NEW h, NEW sz, NEW U, Params(h), Heap(h, sz, U), NEW r, NEW nb,
         Serves(h, r, nb, Lo(h), End(h), sz, U)
  PROVE  Grants(h, r, nb, sz, U)
<1>1. PICK p \in Nat : r.mem = chunk2mem(p) /\ Served(h, r.m, p, nb, Lo(h), End(h), sz, U)
  BY DEF Serves
<1>2. PICK t : /\ HeapOf(r.m, Lo(h), End(h), t, U \cup {p}) /\ t[p] >= nb
               /\ PredUsed(Lo(h), t, U \cup {p}, p)
               /\ \A c \in U : t[c] = sz[c]
  BY <1>1 DEF Served
<1>3. Only(r.m, h, ChunkFields) /\ p \notin U
  BY <1>1 DEF Served
<1>4. /\ Params(r.m) /\ Heap(r.m, t, U \cup {p}) /\ PredUsed(Lo(r.m), t, U \cup {p}, p)
      /\ r.m.enomem = h.enomem /\ r.m.footprint = h.footprint
  BY <1>2, <1>3, ChunksOnly DEF Heap
<1>5. Growth(h, r.m)
  <2>1. h.footprint \in Nat
    BY DEF Heap, Segment
  <2>2. QED
    BY <1>4, <2>1 DEF Growth
<1>6. QED
  BY <1>1, <1>2, <1>3, <1>4, <1>5 DEF Grants, Keeps

(* A granule for a chunk of nb bytes, unless the sum wraps. *)
LEMMA GranuleFacts ==
  ASSUME NEW nb, NbOK(nb), NEW g \in 1 .. MAX_SIZE_T, g % 8 = 0,
         NEW asize, asize = AlignUp(Word(nb + SYS_ALLOC_PADDING), g), ~(asize <= nb)
  PROVE  /\ asize \in Nat /\ asize % 8 = 0 /\ asize >= nb + 48 /\ asize < WordSize
         /\ nb % 8 = 0 /\ nb + 48 < WordSize /\ nb + 48 + g - 1 < WordSize
<1>0. /\ WordSize \in Nat \ {0} /\ nb \in Nat /\ SYS_ALLOC_PADDING = 48 /\ g \in Nat \ {0}
      /\ WordSize >= 4096 /\ MAX_SIZE_T = WordSize - 1
  BY Requests, TopFootSize DEF NbOK, MAX_SIZE_T
<1>1. nb # MAX_SIZE_T
  <2> SUFFICES ASSUME nb = MAX_SIZE_T
               PROVE  FALSE
    OBVIOUS
  <2> DEFINE w == nb + 48
             v == Word(47 + g - 1)
  <2>1. WordSize \in Nat \ {0} /\ w \in Int /\ WordSize <= w /\ w < 2 * WordSize
    BY <1>0
  <2>2. w - WordSize = 47
    BY <1>0
  <2>2a. Word(w) = 47
    <3> HIDE DEF w
    <3>1. w % WordSize = w - WordSize
      BY <2>1, WordOfCarry
    <3>2. QED
      BY <2>2, <3>1 DEF Word
  <2>3. asize = v - (v % g)
    BY <1>0, <2>2a DEF AlignUp
  <2>4. v \in 0 .. WordSize - 1
    <3> DEFINE x == 47 + g - 1
    <3>1. x \in Nat
      BY <1>0
    <3> HIDE DEF x
    <3>2. x % WordSize \in 0 .. WordSize - 1
      BY <1>0, <3>1
    <3>3. QED
      BY <3>2 DEF Word, x
  <2> HIDE DEF v
  <2>5. v % g \in 0 .. g - 1
    BY <1>0, <2>4
  <2>6. QED
    BY <1>0, <2>3, <2>4, <2>5
<1>2. nb % 8 = 0 /\ nb + 48 < WordSize
  BY <1>1 DEF NbOK
<1>3. Word(nb + SYS_ALLOC_PADDING) = nb + 48
  <2> DEFINE w == nb + 48
  <2>1. w \in 0 .. WordSize - 1
    BY <1>0, <1>2
  <2> HIDE DEF w
  <2>2. Word(w) = w
    BY <1>0, <2>1, WordOfSmall DEF Word
  <2>3. QED
    BY <1>0, <2>2 DEF w
<1> DEFINE n == nb + 48
<1>4. n \in Nat /\ asize = AlignUp(n, g) /\ n < WordSize
  BY <1>0, <1>2, <1>3
<1> HIDE DEF n
<1>5. n + g - 1 < WordSize
  <2>1. n + g - 1 >= WordSize => asize = 0
    BY <1>0, <1>4, AlignUpWraps
  <2>2. QED
    BY <1>0, <1>4, <2>1
<1>6. asize \in Nat /\ asize % g = 0 /\ n <= asize /\ asize <= n + g - 1
  BY <1>0, <1>4, <1>5, AlignUpIs
<1>7. asize % 8 = 0
  BY <1>0, <1>6, DividesEight
<1>8. QED
  BY <1>0, <1>2, <1>4, <1>5, <1>6, <1>7 DEF n

LEMMA HeapEndIsAPage == page_align(HeapEnd) = HeapEnd
<1> DEFINE y == AlignUp(HeapEnd, PageSize)
<1>0. PageSize \in Nat \ {0} /\ HeapEnd \in Nat /\ HeapEnd % PageSize = 0 /\ HeapEnd + PageSize <= WordSize
      /\ WordSize \in Nat
  BY Pages, Requests
<1>1. y \in Nat /\ y % PageSize = 0 /\ HeapEnd <= y /\ y <= HeapEnd + PageSize - 1
  <2>1. HeapEnd + PageSize - 1 < WordSize
    BY <1>0
  <2>2. QED
    BY <1>0, <2>1, AlignUpIs
<1> HIDE DEF y
<1>2. PICK i \in Nat : HeapEnd = i * PageSize
  BY <1>0, MultipleOf
<1>3. PICK j \in Nat : y = j * PageSize
  BY <1>0, <1>1, MultipleOf
<1>4. ~(i < j)
  <2>1. i < j => i * PageSize + PageSize <= j * PageSize
    BY <1>0, ScaleUp
  <2>2. QED
    BY <1>0, <1>1, <1>2, <1>3, <2>1
<1>5. j * PageSize <= i * PageSize
  BY <1>0, <1>4, ScaleMonotone
<1>6. y = HeapEnd
  BY <1>0, <1>1, <1>2, <1>3, <1>5
<1>7. QED
  BY <1>6 DEF y, page_align

-----------------------------------------------------------------------------
(* What the system gives. *)
Supplied(k, x, need, asize) ==
  \/ x.tbase = CMFAIL /\ Only(x.m, k, {"contiguous"}) /\ x.m.contiguous \in BOOLEAN
  \/ /\ x.tbase = k.brk /\ x.tsize \in Nat /\ x.tsize % 8 = 0 /\ need <= x.tsize /\ x.tsize <= asize
     /\ Only(x.m, k, {"contiguous", "brk"}) /\ x.m.contiguous \in BOOLEAN
     /\ x.m.brk = k.brk + x.tsize /\ x.m.brk <= k.memory_end

BrkSet(k, b)        == [k EXCEPT !.brk = b]
ContiguousSet(k, c) == [k EXCEPT !.contiguous = c]

LEMMA WithBrk ==
  ASSUME NEW k, IsState(k), NEW b
  PROVE  LET n == BrkSet(k, b)
         IN  Only(n, k, {"contiguous", "brk"}) /\ n.brk = b /\ n.contiguous = k.contiguous
BY DEF BrkSet, Only, IsState, FieldNames

LEMMA WithContiguous ==
  ASSUME NEW k, IsState(k), NEW c
  PROVE  LET n == ContiguousSet(k, c)
         IN  Only(n, k, {"contiguous"}) /\ n.contiguous = c
BY DEF ContiguousSet, Only, IsState, FieldNames

LEMMA MorecoreIs ==
  ASSUME NEW k, IsState(k), k.brk \in Nat, k.memory_end \in Nat, NEW n \in Nat, NEW granted
  PROVE  LET c == Morecore(k, n, granted)
         IN  \/ c.br = CMFAIL /\ c.m = k
             \/ /\ c.br = k.brk /\ c.br # CMFAIL /\ c.m.contiguous = k.contiguous
                /\ Only(c.m, k, {"contiguous", "brk"}) /\ c.m.brk = k.brk + n
                /\ c.m.brk <= k.memory_end
<1> DEFINE c == Morecore(k, n, granted)
<1> SUFFICES \/ c.br = CMFAIL /\ c.m = k
             \/ /\ c.br = k.brk /\ c.br # CMFAIL /\ c.m.contiguous = k.contiguous
                /\ Only(c.m, k, {"contiguous", "brk"}) /\ c.m.brk = k.brk + n
                /\ c.m.brk <= k.memory_end
  OBVIOUS
<1>1. CASE granted /\ k.brk + n <= k.memory_end
  <2>1. c.m = BrkSet(k, k.brk + n) /\ c.br = k.brk
    BY <1>1 DEF Morecore, BrkSet
  <2>2. k.brk # CMFAIL
    BY DEF CMFAIL
  <2> HIDE DEF c
  <2>3. QED
    BY <1>1, <2>1, <2>2, WithBrk
<1>2. CASE ~(granted /\ k.brk + n <= k.memory_end)
  BY <1>2 DEF Morecore
<1>3. QED
  BY <1>1, <1>2

LEMMA AnywhereSupplies ==
  ASSUME NEW k, IsState(k), k.brk \in Nat, k.memory_end \in Nat, k.contiguous \in BOOLEAN,
         NEW nb \in Nat, NEW asize \in Nat, asize % 8 = 0, asize >= nb + 48, NEW granted
  PROVE  Supplied(k, ExtendAnywhere(k, nb, asize, granted), nb + 48, asize)
<1> DEFINE x == ExtendAnywhere(k, nb, asize, granted)
           c == Morecore(k, asize, granted)
<1> SUFFICES Supplied(k, x, nb + 48, asize)
  OBVIOUS
<1>1. CASE ~(asize < HALF_MAX_SIZE_T)
  <2>1. x.tbase = CMFAIL /\ x.m = k
    BY <1>1 DEF ExtendAnywhere, Refused, Given
  <2>2. Only(k, k, {"contiguous"})
    BY DEF Only
  <2> HIDE DEF x
  <2>3. QED
    BY <2>1, <2>2 DEF Supplied
<1>2. CASE asize < HALF_MAX_SIZE_T
  <2>1. x = Between(c, nb)
    BY <1>2 DEF ExtendAnywhere
  <2>2. \/ c.br = CMFAIL /\ c.m = k
        \/ /\ c.br = k.brk /\ c.br # CMFAIL /\ c.m.contiguous = k.contiguous
           /\ Only(c.m, k, {"contiguous", "brk"}) /\ c.m.brk = k.brk + asize
           /\ c.m.brk <= k.memory_end
    BY MorecoreIs
  <2> HIDE DEF c, x
  <2>3. CASE c.br = CMFAIL /\ c.m = k
    <3>1. x.tbase = CMFAIL /\ x.m = k
      BY <2>1, <2>3 DEF Between, Refused, Given
    <3>2. Only(k, k, {"contiguous"})
      BY DEF Only
    <3>3. QED
      BY <3>1, <3>2 DEF Supplied
  <2>4. CASE /\ c.br = k.brk /\ c.br # CMFAIL /\ c.m.contiguous = k.contiguous
             /\ Only(c.m, k, {"contiguous", "brk"}) /\ c.m.brk = k.brk + asize
             /\ c.m.brk <= k.memory_end
    <3>1. c.m.brk - c.br = asize /\ asize > nb + TOP_FOOT_SIZE
      BY <2>4, TopFootSize
    <3>2. x.tbase = k.brk /\ x.m = c.m /\ x.tsize = asize
      BY <2>1, <2>4, <3>1 DEF Between, Given
    <3>3. QED
      BY <2>4, <3>2 DEF Supplied
  <2>5. QED
    BY <2>2, <2>3, <2>4
<1>3. QED
  BY <1>1, <1>2

LEMMA ContinuedSupplies ==
  ASSUME NEW k, IsState(k), k.brk \in Nat, k.memory_end \in Nat, k.contiguous \in BOOLEAN,
         NEW need, NEW asize, NEW ssize \in Nat, ssize % 8 = 0, need <= ssize, ssize <= asize,
         NEW granted, NEW allowed, NEW end, end = k.brk,
         NEW c, c = IF allowed THEN Morecore(k, ssize, granted) ELSE [m |-> k, br |-> CMFAIL]
  PROVE  Supplied(k, Continued(c, end, ssize), need, asize)
<1> DEFINE x == Continued(c, end, ssize)
<1> SUFFICES Supplied(k, x, need, asize)
  OBVIOUS
<1>1. CASE c.br = CMFAIL /\ c.m = k
  <2>1. x.tbase = CMFAIL /\ x.m = ContiguousSet(k, FALSE)
    BY <1>1 DEF Continued, Refused, Given, ContiguousSet
  <2> HIDE DEF x
  <2>2. QED
    BY <2>1, WithContiguous DEF Supplied
<1>2. CASE /\ c.br = k.brk /\ c.br # CMFAIL /\ c.m.contiguous = k.contiguous
           /\ Only(c.m, k, {"contiguous", "brk"}) /\ c.m.brk = k.brk + ssize
           /\ c.m.brk <= k.memory_end
  <2>1. x.tbase = k.brk /\ x.m = c.m /\ x.tsize = ssize
    BY <1>2 DEF Continued, Given
  <2> HIDE DEF x
  <2>2. QED
    BY <1>2, <2>1 DEF Supplied
<1>3. CASE allowed
  BY <1>1, <1>2, <1>3, MorecoreIs
<1>4. CASE ~allowed
  BY <1>1, <1>4
<1>5. QED
  BY <1>3, <1>4

Needs(k, nb, need) ==
  \/ NoHeap(k) /\ need = nb + 48
  \/ Segment(k) /\ is_initialized(k) /\ k.topsize \in Nat /\ k.topsize <= nb /\ need = nb - k.topsize + 48

LEMMA StateFacts ==
  ASSUME NEW k, Params(k), NoHeap(k) \/ Segment(k)
  PROVE  k.brk \in Nat /\ k.memory_end \in Nat /\ k.contiguous \in BOOLEAN /\ MaxMemory < WordSize
         /\ k.memory_end < WordSize
BY SystemAssumption, Requests DEF Params, NoHeap, Segment, MAX_SIZE_T

LEMMA ContiguousSupplies ==
  ASSUME NEW k, Params(k), IsState(k), k.granularity # 0,
         NEW nb, NbOK(nb), NEW need \in Nat, Needs(k, nb, need),
         NEW asize, asize = AlignUp(Word(nb + SYS_ALLOC_PADDING), k.granularity), ~(asize <= nb),
         NEW granted
  PROVE  Supplied(k, ExtendContiguously(k, nb, asize, granted), need, asize)
<1> DEFINE first == ~is_initialized(k)
           ssize == IF first THEN Word(asize + page_align(k.brk) - k.brk) ELSE Extension(k, nb)
           allowed == /\ ssize < HALF_MAX_SIZE_T
                      /\ first => ssize > nb /\ ~OverLimit(k, Word(k.footprint + ssize))
           end == IF first THEN k.brk ELSE k.base + k.segsize
           c == IF allowed THEN Morecore(k, ssize, granted) ELSE [m |-> k, br |-> CMFAIL]
           g == k.granularity
<1>1. ExtendContiguously(k, nb, asize, granted) = Continued(c, end, ssize)
  BY DEF ExtendContiguously
<1>2. g \in 1 .. MAX_SIZE_T /\ g % 8 = 0 /\ g \in Nat \ {0}
  BY Requests DEF Params
<1>3. /\ asize \in Nat /\ asize % 8 = 0 /\ asize >= nb + 48 /\ asize < WordSize
      /\ nb % 8 = 0 /\ nb + 48 < WordSize /\ nb + 48 + g - 1 < WordSize
  <2> HIDE DEF g
  <2>1. asize = AlignUp(Word(nb + SYS_ALLOC_PADDING), g)
    BY DEF g
  <2>2. QED
    BY <1>2, <2>1, GranuleFacts
<1>4. nb \in Nat /\ WordSize \in Nat \ {0} /\ SYS_ALLOC_PADDING = 48
  BY Requests, TopFootSize DEF NbOK
<1>5. k.brk \in Nat /\ k.memory_end \in Nat /\ k.contiguous \in BOOLEAN
  BY StateFacts DEF Needs
<1>6. ssize \in Nat /\ ssize % 8 = 0 /\ need <= ssize /\ ssize <= asize /\ end = k.brk
  <2>1. CASE NoHeap(k) /\ need = nb + 48
    <3>1. first /\ k.brk = HeapEnd /\ HeapEnd \in Nat
      BY <2>1, Pages DEF NoHeap, NothingIn, is_initialized
    <3>2. asize + page_align(k.brk) - k.brk = asize
      BY <1>3, <3>1, HeapEndIsAPage
    <3>3. asize \in 0 .. WordSize - 1
      BY <1>3, <1>4
    <3>4. Word(asize) = asize
      BY <1>4, <3>3, WordOfSmall DEF Word
    <3>5. ssize = asize
      BY <3>1, <3>2, <3>4
    <3> HIDE DEF ssize
    <3>6. QED
      BY <1>3, <2>1, <3>1, <3>5
  <2>2. CASE Segment(k) /\ is_initialized(k) /\ k.topsize \in Nat /\ k.topsize <= nb /\ need = nb - k.topsize + 48
    <3> DEFINE d == nb - k.topsize + 48
               n == nb + 48
    <3>1. d \in Nat /\ d <= n /\ n \in Nat /\ d < WordSize /\ d \in 0 .. WordSize - 1
      BY <1>3, <1>4, <2>2
    <3>2. Word(nb - k.topsize + SYS_ALLOC_PADDING) = d
      <4>1. nb - k.topsize + SYS_ALLOC_PADDING = d
        BY <1>4
      <4> HIDE DEF d
      <4>2. QED
        BY <1>4, <3>1, <4>1, WordOfSmall DEF Word
    <3>3. Word(nb + SYS_ALLOC_PADDING) = n
      <4>1. nb + SYS_ALLOC_PADDING = n /\ n \in 0 .. WordSize - 1
        BY <1>3, <1>4
      <4> HIDE DEF n
      <4>2. QED
        BY <1>4, <4>1, WordOfSmall DEF Word
    <3>4. ssize = AlignUp(d, g)
      <4> HIDE DEF d, n
      <4>1. ssize = Extension(k, nb)
        BY <2>2
      <4>2. Extension(k, nb) = AlignUp(d, g)
        BY <3>2 DEF Extension, granularity_align
      <4>3. QED
        BY <4>1, <4>2
    <3>5. asize = AlignUp(n, g)
      BY <3>3
    <3>6. n + g - 1 < WordSize /\ d + g - 1 < WordSize
      <4>1. n + g - 1 < WordSize
        BY <1>3
      <4> HIDE DEF d, n, g
      <4>2. QED
        BY <1>2, <1>4, <3>1, <4>1
    <3>9. need = d /\ end = k.brk
      BY <2>2 DEF Segment
    <3> HIDE DEF ssize, d, n, g, end
    <3>7. ssize \in Nat /\ ssize % g = 0 /\ d <= ssize
      BY <1>2, <3>1, <3>4, <3>6, AlignUpIs
    <3>8. ssize <= asize
      BY <1>2, <3>1, <3>4, <3>5, <3>6, AlignUpMonotone
    <3>10. ssize % 8 = 0
      BY <1>2, <3>7, DividesEight
    <3>11. QED
      BY <3>7, <3>8, <3>9, <3>10
  <2>3. QED
    BY <2>1, <2>2 DEF Needs
<1> DEFINE a == allowed
<1>7. c = IF a THEN Morecore(k, ssize, granted) ELSE [m |-> k, br |-> CMFAIL]
  OBVIOUS
<1> HIDE DEF c, ssize, end, a
<1>8. Supplied(k, Continued(c, end, ssize), need, asize)
  BY <1>5, <1>6, <1>7, ContinuedSupplies
<1>9. QED
  BY <1>1, <1>8

LEMMA ExtendSupplies ==
  ASSUME NEW k, Params(k), IsState(k), k.granularity # 0,
         NEW nb, NbOK(nb), NEW need \in Nat, Needs(k, nb, need),
         NEW asize, asize = AlignUp(Word(nb + SYS_ALLOC_PADDING), k.granularity), ~(asize <= nb),
         NEW env
  PROVE  Supplied(k, Extend(k, nb, asize, env), need, asize)
<1> DEFINE g == k.granularity
           x == ExtendContiguously(k, nb, asize, env[1])
<1>2. g \in 1 .. MAX_SIZE_T /\ g % 8 = 0
  BY Requests DEF Params
<1>3. asize \in Nat /\ asize % 8 = 0 /\ asize >= nb + 48
  <2> HIDE DEF g
  <2>1. asize = AlignUp(Word(nb + SYS_ALLOC_PADDING), g)
    BY DEF g
  <2>2. QED
    BY <1>2, <2>1, GranuleFacts
<1>4. nb \in Nat /\ need <= nb + 48
  BY DEF NbOK, Needs
<1>5. k.brk \in Nat /\ k.memory_end \in Nat /\ k.contiguous \in BOOLEAN
  BY StateFacts DEF Needs
<1>6. \A e \in {env[2]} : Supplied(k, ExtendAnywhere(k, nb, asize, e), nb + 48, asize)
  BY <1>3, <1>4, <1>5, AnywhereSupplies
<1>7. \A y : Supplied(k, y, nb + 48, asize) => Supplied(k, y, need, asize)
  BY <1>4 DEF Supplied
<1>8. CASE ~k.contiguous
  BY <1>6, <1>7, <1>8 DEF Extend
<1>9. CASE k.contiguous
  <2>1. Supplied(k, x, need, asize)
    BY ContiguousSupplies
  <2>2. Extend(k, nb, asize, env) = IF x.tbase # CMFAIL THEN x ELSE ExtendAnywhere(x.m, nb, asize, env[2])
    BY <1>9 DEF Extend, Retried
  <2> HIDE DEF x
  <2>3. CASE x.tbase # CMFAIL
    BY <2>1, <2>2, <2>3
  <2>4. CASE x.tbase = CMFAIL
    <3> DEFINE j == x.m
               y == ExtendAnywhere(j, nb, asize, env[2])
    <3>1. Only(j, k, {"contiguous"}) /\ j.contiguous \in BOOLEAN
      <4>1. k.brk # CMFAIL
        BY <1>5 DEF CMFAIL
      <4>2. QED
        BY <2>1, <2>4, <4>1 DEF Supplied
    <3>2. IsState(j) /\ j.brk = k.brk /\ j.memory_end = k.memory_end
      BY <3>1 DEF Only, FieldNames
    <3> HIDE DEF j
    <3>3. Supplied(j, y, nb + 48, asize)
      BY <1>3, <1>4, <1>5, <3>1, <3>2, AnywhereSupplies
    <3>4. Extend(k, nb, asize, env) = y
      BY <2>2, <2>4 DEF j
    <3> HIDE DEF y
    <3>5. Supplied(k, y, nb + 48, asize)
      <4>1. CASE y.tbase = CMFAIL /\ Only(y.m, j, {"contiguous"}) /\ y.m.contiguous \in BOOLEAN
        <5>1. Only(y.m, k, {"contiguous"})
          BY <3>1, <4>1, OnlyTransitive
        <5>2. QED
          BY <4>1, <5>1 DEF Supplied
      <4>2. CASE ~(y.tbase = CMFAIL /\ Only(y.m, j, {"contiguous"}) /\ y.m.contiguous \in BOOLEAN)
        <5>1. Only(y.m, j, {"contiguous", "brk"})
          BY <3>3, <4>2 DEF Supplied
        <5>2. Only(y.m, k, {"contiguous", "brk"})
          BY <3>1, <5>1 DEF Only
        <5>3. QED
          BY <3>2, <3>3, <4>2, <5>2 DEF Supplied
      <4>3. QED
        BY <4>1, <4>2
    <3>6. QED
      BY <1>7, <3>4, <3>5
  <2>5. QED
    BY <2>3, <2>4
<1>10. QED
  BY <1>8, <1>9

(* New memory. *)
Counted(c, k, g) ==
  /\ Only(c, k, {"footprint", "max_footprint"})
  /\ c.footprint = k.footprint + g /\ c.max_footprint \in Nat /\ c.footprint <= c.max_footprint

LEMMA CountFootprintIs ==
  ASSUME NEW k, IsState(k), k.footprint \in Nat, k.max_footprint \in Nat, NEW g \in Nat
  PROVE  Counted(CountFootprint(k, g), k, g)
<1> DEFINE n == CountFootprint(k, g)
           a == k.max_footprint
           b == k.footprint + g
           S == {a, b}
           x == Max(S)
<1>1. x \in S /\ \A y \in S : y <= x
  <2>1. \E z \in S : \A y \in S : y <= z
    <3>1. CASE a <= b
      BY <3>1
    <3>2. CASE ~(a <= b)
      BY <3>2
    <3>3. QED
      BY <3>1, <3>2
  <2>2. x = CHOOSE z \in S : \A y \in S : y <= z
    BY DEF Max
  <2> HIDE DEF x, S
  <2>3. QED
    BY <2>1, <2>2
<1>2. Only(n, k, {"footprint", "max_footprint"}) /\ n.footprint = b
  BY DEF IsState, Only, FieldNames, CountFootprint
<1>3. n.max_footprint = x
  BY DEF IsState, FieldNames, CountFootprint
<1> HIDE DEF n, x
<1>4. x \in Nat /\ b <= x
  BY <1>1
<1>5. Counted(n, k, g)
  BY <1>2, <1>3, <1>4 DEF Counted
<1>6. QED
  BY <1>5 DEF n

SegmentSet(k, b, s) == [k EXCEPT !.base = b, !.segsize = s]
SegsizeSet(k, s)    == [k EXCEPT !.segsize = s]

LEMMA WithSegment ==
  ASSUME NEW k, IsState(k), NEW b, NEW s
  PROVE  LET n == SegmentSet(k, b, s)
         IN  Only(n, k, {"base", "segsize"}) /\ n.base = b /\ n.segsize = s
<1> QED BY DEF IsState, Only, FieldNames, SegmentSet

LEMMA WithSegsize ==
  ASSUME NEW k, IsState(k), NEW s
  PROVE  LET n == SegsizeSet(k, s)
         IN  Only(n, k, {"base", "segsize"}) /\ n.base = k.base /\ n.segsize = s
<1> QED BY DEF IsState, Only, FieldNames, SegsizeSet

(* n is k with g more bytes in its top. *)
Extended(k, n, nb, g, sz, U) ==
  /\ Params(n) /\ (\E t : Heap(n, t, U) /\ Keeps(t, sz, U))
  /\ nb < n.topsize /\ n.enomem = k.enomem /\ n.footprint = k.footprint + g

LEMMA FirstSegment ==
  ASSUME NEW k, NoHeap(k), NEW i, Only(i, k, {"contiguous", "brk", "footprint", "max_footprint", "base", "segsize"}),
         Params(i), i.granularity # 0,
         NEW nb \in Nat, NEW g \in Nat, g % 8 = 0, nb + 48 <= g,
         i.base = HeapEnd, i.segsize = g, i.brk = HeapEnd + g, i.brk <= i.memory_end,
         i.footprint = g, i.max_footprint \in Nat, g <= i.max_footprint,
         NEW s0, s0 = g - 40, NEW n, n = init_top(i, HeapEnd, s0), NEW sz
  PROVE  Extended(k, n, nb, g, sz, {})
<1>1. /\ i.head = k.head /\ i.foot = k.foot /\ i.bins = k.bins /\ i.dv = k.dv /\ i.dvsize = k.dvsize
      /\ i.top = k.top /\ i.topsize = k.topsize /\ i.junk = k.junk /\ IsState(i) /\ i.enomem = k.enomem
  BY DEF Only, FieldNames
<1>2. NothingIn(i) /\ WellFormed(i)
  BY <1>1, WellFormedIs DEF NoHeap, NothingIn
<1>3. HeapEnd \in Nat /\ HeapEnd % 8 = 0 /\ HeapEnd > 0
  BY Pages DEF Params
<1>4. align_as_chunk(HeapEnd) = HeapEnd
  BY <1>3, AlignAsChunk
<1>5. s0 \in Nat /\ s0 > 0 /\ s0 % 8 = 0 /\ nb < s0
  OBVIOUS
<1> DEFINE e == HeapEnd + s0
           t == OneChunk(HeapEnd, s0)
<1>6. e = HeapEnd + s0
  OBVIOUS
<1> HIDE DEF e, t
<1>7. TopMade(i, n, HeapEnd, s0, e)
  BY <1>2, <1>3, <1>4, <1>5, <1>6, InitTopMakes
<1>8. HeapOf(n, HeapEnd, e, t, {})
  BY <1>2, <1>3, <1>5, <1>6, <1>7, FreshHeap DEF t
<1>9. /\ n.base = i.base /\ n.segsize = i.segsize /\ n.brk = i.brk /\ n.memory_end = i.memory_end
      /\ n.footprint = i.footprint /\ n.max_footprint = i.max_footprint
      /\ n.granularity = i.granularity /\ n.contiguous = i.contiguous /\ n.enomem = i.enomem
      /\ n.footprint_limit = i.footprint_limit /\ n.heap_base = i.heap_base /\ n.ok = i.ok
      /\ n.topsize = s0
  BY <1>7 DEF TopMade, Only, FieldNames
<1>10. Params(n) /\ Segment(n)
  <2>1. Params(n)
    BY <1>9 DEF Params
  <2>2. n.base \in Nat \ {0} /\ n.segsize \in Nat /\ n.brk = n.base + n.segsize
    BY <1>3, <1>9
  <2>3. QED
    BY <1>9, <2>1, <2>2 DEF Segment
<1>11. Lo(n) = HeapEnd /\ End(n) = e
  BY <1>3, <1>4, <1>6, <1>9, TopFootSize DEF Lo, End
<1>12. Heap(n, t, {})
  BY <1>8, <1>10, <1>11 DEF Heap
<1>13. n.footprint = k.footprint + g
  BY <1>9 DEF NoHeap
<1>14. Keeps(t, sz, {})
  BY DEF Keeps
<1>15. nb < n.topsize /\ n.enomem = k.enomem
  BY <1>1, <1>5, <1>9
<1>16. \E t2 : Heap(n, t2, {}) /\ Keeps(t2, sz, {})
  BY <1>12, <1>14
<1> HIDE DEF e
<1>17. QED
  BY <1>10, <1>13, <1>15, <1>16 DEF Extended

LEMMA MoreSegment ==
  ASSUME NEW k, NEW sz, NEW U, Heap(k, sz, U), Params(k),
         NEW i, Only(i, k, {"contiguous", "brk", "footprint", "max_footprint", "base", "segsize"}),
         Params(i), i.granularity # 0,
         NEW nb \in Nat, NEW g \in Nat, g % 8 = 0, nb + 48 <= k.topsize + g,
         i.base = k.base, i.segsize = k.segsize + g, i.brk = k.brk + g, i.brk <= i.memory_end,
         i.footprint = k.footprint + g, i.max_footprint \in Nat, i.footprint <= i.max_footprint,
         NEW s0, s0 = k.topsize + g, NEW n, n = init_top(i, k.top, s0)
  PROVE  Extended(k, n, nb, g, sz, U)
<1>1. /\ i.head = k.head /\ i.foot = k.foot /\ i.bins = k.bins /\ i.dv = k.dv /\ i.dvsize = k.dvsize
      /\ i.top = k.top /\ i.topsize = k.topsize /\ i.junk = k.junk /\ IsState(i) /\ i.enomem = k.enomem
  BY DEF Only, FieldNames
<1>2. k.top \in Nat /\ k.top % 8 = 0 /\ k.topsize \in Nat /\ Lo(k) \in Nat /\ End(k) \in Nat
      /\ k.top \in DOMAIN sz /\ k.topsize = sz[k.top] /\ U \subseteq DOMAIN sz
  BY HeapFacts
<1> DEFINE lo == Lo(k)
           e == End(k)
           p == k.top
           e2 == e + g
           t == GrowTop(sz, p, g)
<1>3. HeapOf(k, lo, e, sz, U) /\ Segment(k)
  BY DEF Heap
<1>4. WellFormed(i) /\ HeapOf(i, lo, e, sz, U)
  BY <1>1, <1>3, WellFormedIs DEF HeapOf
<1>5. p + k.topsize = e
  BY <1>2, <1>3, LayoutHole DEF HeapOf
<1>6. s0 \in Nat /\ s0 > 0 /\ nb < s0 /\ p + s0 = e2 /\ e2 = e + g /\ s0 = i.topsize + g
  BY <1>1, <1>2, <1>5
<1>7. align_as_chunk(p) = p
  BY <1>2, AlignAsChunk
<1>8. p = i.top
  BY <1>1
<1>e. e \in Nat /\ lo \in Nat
  BY <1>2
<1>13. Lo(i) = lo /\ End(i) = e2
  <2>1. k.base \in Nat /\ k.segsize \in Nat
    BY <1>3 DEF Segment
  <2>2. QED
    BY <2>1, TopFootSize DEF Lo, End
<1> HIDE DEF e2, t, lo, e, p
<1>9. TopMade(i, n, p, s0, e2)
  <2>1. n = init_top(i, p, s0)
    BY DEF p
  <2>2. p \in Nat
    BY <1>2 DEF p
  <2>3. QED
    BY <1>4, <1>6, <1>7, <2>1, <2>2, InitTopMakes
<1>10. HeapOf(n, lo, e2, t, U)
  BY <1>4, <1>6, <1>8, <1>9, GrownHeap DEF t
<1>11. /\ n.base = i.base /\ n.segsize = i.segsize /\ n.brk = i.brk /\ n.memory_end = i.memory_end
      /\ n.footprint = i.footprint /\ n.max_footprint = i.max_footprint
      /\ n.granularity = i.granularity /\ n.contiguous = i.contiguous /\ n.enomem = i.enomem
      /\ n.footprint_limit = i.footprint_limit /\ n.heap_base = i.heap_base /\ n.ok = i.ok
      /\ n.topsize = s0
  BY <1>9 DEF TopMade, Only, FieldNames
<1>12. Params(n) /\ Segment(n)
  <2>1. Params(n)
    BY <1>11 DEF Params
  <2>6. /\ k.base \in Nat /\ k.base # 0 /\ k.segsize \in Nat /\ k.brk = k.base + k.segsize
        /\ k.footprint = k.segsize
    BY <1>3 DEF Segment
  <2>7. i.base \in Nat /\ i.base # 0 /\ i.segsize \in Nat /\ i.brk = i.base + i.segsize
    BY <2>6
  <2>2. n.base \in Nat \ {0} /\ n.segsize \in Nat /\ n.brk = n.base + n.segsize
    BY <1>11, <2>7
  <2>3. n.footprint = n.segsize
    BY <1>11, <2>6
  <2>4. /\ n.brk <= n.memory_end /\ n.max_footprint \in Nat /\ n.footprint <= n.max_footprint
        /\ n.granularity # 0
    BY <1>11
  <2>5. QED
    BY <2>1, <2>2, <2>3, <2>4 DEF Segment
<1>14. Lo(n) = lo /\ End(n) = e2
  BY <1>11, <1>13 DEF Lo, End
<1>15. Heap(n, t, U)
  BY <1>10, <1>12, <1>14 DEF Heap
<1>16. Keeps(t, sz, U)
  <2>1. p \notin U
    <3>1. Layout(k.head, k.foot, k.bins, k.dv, k.dvsize, lo, e, p, sz, U, e)
      BY <1>3 DEF HeapOf, p
    <3>2. p # e
      BY <3>1, LayoutHole DEF p
    <3>3. QED
      BY <3>1, <3>2, LayoutHole
  <2>2. QED
    BY <1>2, <2>1 DEF Keeps, t, GrowTop
<1>17. nb < n.topsize /\ n.enomem = k.enomem /\ n.footprint = k.footprint + g
  BY <1>1, <1>6, <1>11
<1>18. \E t2 : Heap(n, t2, U) /\ Keeps(t2, sz, U)
  BY <1>15, <1>16
<1>19. QED
  BY <1>12, <1>17, <1>18 DEF Extended

LEMMA AddMemoryExtends ==
  ASSUME NEW k, Params(k), IsState(k), k.granularity # 0,
         NEW sz, NEW U, Heap(k, sz, U) \/ (NoHeap(k) /\ U = {}),
         NEW nb \in Nat, NEW need \in Nat, Needs(k, nb, need),
         NEW asize, NEW x, Supplied(k, x, need, asize), x.tbase # CMFAIL
  PROVE  Extended(k, AddMemory(CountFootprint(x.m, x.tsize), x.tbase, x.tsize), nb, x.tsize, sz, U)
<1> DEFINE j == x.m
           g == x.tsize
           c == CountFootprint(j, g)
<1>1. /\ x.tbase = k.brk /\ g \in Nat /\ g % 8 = 0 /\ need <= g
      /\ Only(j, k, {"contiguous", "brk"}) /\ j.contiguous \in BOOLEAN
      /\ j.brk = k.brk + g /\ j.brk <= k.memory_end
  BY DEF Supplied
<1>2. k.footprint \in Nat /\ k.max_footprint \in Nat /\ k.footprint <= k.max_footprint
  BY DEF Heap, Segment, NoHeap
<1>3. IsState(j) /\ j.footprint = k.footprint /\ j.max_footprint = k.max_footprint
  BY <1>1 DEF Only, FieldNames
<1>4. Counted(c, j, g)
  <2> HIDE DEF j, g
  <2>1. QED
    BY <1>1, <1>2, <1>3, CountFootprintIs
<1>5. Only(c, j, {"footprint", "max_footprint"}) /\ IsState(c)
  BY <1>4 DEF Counted, Only
<1>6. /\ c.base = j.base /\ c.segsize = j.segsize /\ c.brk = j.brk /\ c.top = j.top
      /\ c.topsize = j.topsize
  BY <1>5 DEF Only, FieldNames
<1>7. j.base = k.base /\ j.segsize = k.segsize /\ j.top = k.top /\ j.topsize = k.topsize
  BY <1>1 DEF Only, FieldNames
<1>8. c.footprint = k.footprint + g /\ c.max_footprint \in Nat /\ c.footprint <= c.max_footprint
  BY <1>3, <1>4 DEF Counted
<1> HIDE DEF j, c, g
<1>9. \A i : Only(i, c, {"base", "segsize"})
        => /\ Only(i, k, {"contiguous", "brk", "footprint", "max_footprint", "base", "segsize"})
           /\ Params(i) /\ i.granularity # 0 /\ i.brk = k.brk + g /\ i.brk <= i.memory_end
           /\ i.footprint = k.footprint + g /\ i.max_footprint \in Nat
           /\ i.footprint <= i.max_footprint
  <2> TAKE i
  <2> HAVE Only(i, c, {"base", "segsize"})
  <2>1. Only(i, k, {"contiguous", "brk", "footprint", "max_footprint", "base", "segsize"})
    BY <1>1, <1>5 DEF Only
  <2>2. /\ i.heap_base = k.heap_base /\ i.memory_end = k.memory_end
        /\ i.footprint_limit = k.footprint_limit /\ i.enomem = k.enomem /\ i.ok = k.ok
        /\ i.granularity = k.granularity
    BY <2>1 DEF Only, FieldNames
  <2>3. i.contiguous = j.contiguous /\ i.brk = j.brk
    BY <1>5 DEF Only, FieldNames
  <2>4. i.footprint = c.footprint /\ i.max_footprint = c.max_footprint
    BY DEF Only, FieldNames
  <2>5. Params(i)
    BY <1>1, <2>2, <2>3 DEF Params
  <2>6. QED
    BY <1>1, <1>8, <2>1, <2>2, <2>3, <2>4, <2>5
<1>10. CASE NoHeap(k) /\ U = {}
  <2>1. k.top = 0 /\ k.brk = HeapEnd /\ k.footprint = 0
    BY <1>10 DEF NoHeap, NothingIn
  <2>2. need = nb + 48
    BY <2>1 DEF Needs, is_initialized
  <2> DEFINE i == SegmentSet(c, HeapEnd, g)
             s0 == g - 40
             n == init_top(i, HeapEnd, s0)
  <2>3. Only(i, c, {"base", "segsize"}) /\ i.base = HeapEnd /\ i.segsize = g
    BY <1>5, WithSegment
  <2>4. AddMemory(c, x.tbase, g) = n
    BY <1>1, <1>6, <1>7, <2>1, TopFootSize DEF AddMemory, is_initialized, SegmentSet
  <2> HIDE DEF i
  <2>5. /\ Only(i, k, {"contiguous", "brk", "footprint", "max_footprint", "base", "segsize"})
        /\ Params(i) /\ i.granularity # 0 /\ i.brk = k.brk + g /\ i.brk <= i.memory_end
        /\ i.footprint = k.footprint + g /\ i.max_footprint \in Nat
        /\ i.footprint <= i.max_footprint
    BY <1>9, <2>3
  <2>6. i.footprint = g /\ i.brk = HeapEnd + g /\ g <= i.max_footprint
    BY <1>1, <2>1, <2>5
  <2>7. nb + 48 <= g
    BY <1>1, <2>2
  <2> HIDE DEF n, s0
  <2>8. Extended(k, n, nb, g, sz, {})
    BY <1>1, <1>10, <2>3, <2>5, <2>6, <2>7, FirstSegment DEF n, s0
  <2>9. QED
    BY <1>10, <2>4, <2>8 DEF c, g, j
<1>11. CASE Heap(k, sz, U)
  <2>1. k.top # 0 /\ k.topsize \in Nat /\ k.brk = k.base + k.segsize
    BY <1>11, HeapFacts DEF Heap, Segment, is_initialized
  <2>2. need = nb - k.topsize + 48
    BY <2>1 DEF Needs, NoHeap, NothingIn
  <2>s. k.segsize \in Nat
    BY <1>11 DEF Heap, Segment
  <2> DEFINE s == c.segsize + g
             i == SegsizeSet(c, s)
             s0 == k.topsize + g
             n == init_top(i, k.top, s0)
  <2>3. Only(i, c, {"base", "segsize"}) /\ i.base = c.base /\ i.segsize = s
    BY <1>5, WithSegsize
  <2>c. i = [c EXCEPT !.segsize = @ + g]
    BY DEF SegsizeSet
  <2>e. i.top = k.top /\ i.topsize = k.topsize
    BY <1>6, <1>7, <2>3 DEF Only, FieldNames
  <2>4. AddMemory(c, x.tbase, g) = n
    <3> HIDE DEF i
    <3>1. c.top # 0 /\ x.tbase = c.base + c.segsize
      BY <1>1, <1>6, <1>7, <2>1
    <3>2. AddMemory(c, x.tbase, g) = init_top(i, c.top, c.topsize + g)
      BY <3>1, <2>c DEF AddMemory, is_initialized
    <3>3. QED
      BY <1>6, <1>7, <3>2
  <2>5. s = k.segsize + g
    BY <1>6, <1>7
  <2> HIDE DEF i, s
  <2>6. /\ Only(i, k, {"contiguous", "brk", "footprint", "max_footprint", "base", "segsize"})
        /\ Params(i) /\ i.granularity # 0 /\ i.brk = k.brk + g /\ i.brk <= i.memory_end
        /\ i.footprint = k.footprint + g /\ i.max_footprint \in Nat
        /\ i.footprint <= i.max_footprint
    BY <1>9, <2>3
  <2>7. i.base = k.base /\ i.segsize = k.segsize + g
    BY <1>6, <1>7, <2>3, <2>5
  <2>8. nb + 48 <= k.topsize + g
    BY <1>1, <2>1, <2>2
  <2> HIDE DEF n, s0
  <2>9. Extended(k, n, nb, g, sz, U)
    BY <1>1, <1>11, <2>6, <2>7, <2>8, MoreSegment DEF n, s0
  <2>10. QED
    BY <2>4, <2>9 DEF c, g, j
<1>12. QED
  BY <1>10, <1>11

LEMMA WithinLimit ==
  ASSUME NEW k, k.footprint \in Nat, k.footprint < WordSize, k.footprint_limit \in Nat,
         NEW a \in Nat, a < WordSize, ~OverLimit(k, Word(k.footprint + a)), k.footprint_limit # 0
  PROVE  k.footprint + a <= k.footprint_limit
<1> DEFINE f == k.footprint
           w == Word(f + a)
<1>1. w > f /\ w <= k.footprint_limit
  <2>1. ~(w <= f) /\ ~(w > k.footprint_limit)
    BY DEF OverLimit
  <2>2. WordSize \in Nat \ {0}
    BY Requests
  <2>3. w \in Nat
    BY <2>2 DEF Word
  <2> HIDE DEF w
  <2>4. QED
    BY <2>1, <2>3
<1>2. CASE f + a < WordSize
  <2>1. w = f + a
    <3> DEFINE n == f + a
    <3>1. n \in 0 .. WordSize - 1
      BY <1>2, Requests
    <3> HIDE DEF n
    <3>2. Word(n) = n
      BY <3>1, Requests, WordOfSmall DEF Word
    <3>3. QED
      BY <3>2 DEF n
  <2>2. QED
    BY <1>1, <2>1
<1>3. CASE ~(f + a < WordSize)
  <2>1. w = f + a - WordSize
    <3> DEFINE n == f + a
    <3>0. WordSize \in Nat \ {0}
      BY Requests
    <3>1. n \in Int /\ WordSize <= n /\ n < 2 * WordSize
      BY <1>3, <3>0
    <3> HIDE DEF n
    <3>2. n % WordSize = n - WordSize
      BY <3>0, <3>1, WordOfCarry
    <3>3. Word(n) = n - WordSize
      BY <3>2 DEF Word
    <3>4. w = Word(n)
      BY DEF n
    <3> HIDE DEF w
    <3>5. QED
      BY <3>0, <3>3, <3>4 DEF n
  <2>2. QED
    BY <1>1, <2>1, Requests
<1>4. QED
  BY <1>2, <1>3

EnomemSet(k, b) == [k EXCEPT !.enomem = b]

LEMMA WithEnomem ==
  ASSUME NEW k, IsState(k), NEW b
  PROVE  LET n == EnomemSet(k, b)
         IN  Only(n, k, {"contiguous", "enomem"}) /\ n.enomem = b /\ n.contiguous = k.contiguous
<1> QED BY DEF IsState, Only, FieldNames, EnomemSet

(* The break may no longer be asked for one piece after the other. *)
LEMMA FailedRefuses ==
  ASSUME NEW k, NEW sz, NEW U, Mem(k, sz, U), IsState(k), k.granularity # 0,
         NEW j, Only(j, k, {"contiguous"}), j.contiguous \in BOOLEAN
  PROVE  Refuses(k, Failed(j), sz, U)
<1> DEFINE n == EnomemSet(j, TRUE)
<1>1. Failed(j).mem = 0 /\ Failed(j).m = n
  BY DEF Failed, Result, MALLOC_FAILURE_ACTION, EnomemSet
<1>2. IsState(j)
  BY DEF Only
<1>3. Only(n, j, {"contiguous", "enomem"}) /\ n.enomem /\ n.contiguous = j.contiguous
  <2>1. \A b : Only(EnomemSet(j, b), j, {"contiguous", "enomem"}) /\ EnomemSet(j, b).enomem = b
               /\ EnomemSet(j, b).contiguous = j.contiguous
    BY <1>2, WithEnomem
  <2>2. n.enomem = TRUE
    BY <2>1
  <2>3. QED
    BY <2>1, <2>2
<1> HIDE DEF n
<1>4. Only(n, k, {"contiguous", "enomem"})
  BY <1>3 DEF Only
<1>5. /\ n.heap_base = k.heap_base /\ n.memory_end = k.memory_end
      /\ n.footprint_limit = k.footprint_limit /\ n.ok = k.ok
      /\ n.granularity = k.granularity /\ n.brk = k.brk /\ n.footprint = k.footprint
  BY <1>4 DEF Only, FieldNames
<1>6. Params(k)
  BY DEF Mem
<1>7. n.contiguous \in BOOLEAN /\ n.enomem \in BOOLEAN
  <2>1. n.enomem = TRUE
    <3>1. \A b : EnomemSet(j, b).enomem = b
      BY <1>2, WithEnomem
    <3>2. QED
      BY <3>1 DEF n
  <2>2. QED
    BY <1>3, <2>1
<1>8. Params(n)
  BY <1>5, <1>6, <1>7 DEF Params
<1>9. Only(n, k, {"contiguous", "enomem", "footprint_limit", "trim_check", "trim_threshold",
                  "granularity"})
  BY <1>4 DEF Only
<1>10. Heap(k, sz, U) => Heap(n, sz, U)
  BY <1>5, <1>9, HeapFrame
<1>11. NoHeap(k) => NoHeap(n)
  BY <1>9, NoHeapFrame
<1>12. Mem(n, sz, U)
  BY <1>8, <1>10, <1>11 DEF Mem
<1>13. k.footprint \in Nat
  BY DEF Mem, Heap, Segment, NoHeap
<1>14. Growth(k, n)
  BY <1>5, <1>13 DEF Growth
<1>15. QED
  BY <1>1, <1>3, <1>4, <1>5, <1>12, <1>14 DEF Refuses

LEMMA ServeOutcome ==
  ASSUME NEW k, IsState(k), k.granularity # 0, NEW sz, NEW U, Mem(k, sz, U),
         NEW nb \in Nat, nb >= 16, nb % 8 = 0, NEW need \in Nat, Needs(k, nb, need),
         NEW asize \in Nat, asize < WordSize, ~OverLimit(k, Word(k.footprint + asize)),
         NEW x, Supplied(k, x, need, asize)
  PROVE  Grants(k, Serve(x, nb), nb, sz, U) \/ Refuses(k, Serve(x, nb), sz, U)
<1>1. CASE x.tbase = CMFAIL
  <2>1. k.brk # CMFAIL
    <3>1. k.brk \in Nat
      BY Pages DEF Mem, Heap, Segment, NoHeap, Params
    <3>2. QED
      BY <3>1 DEF CMFAIL
  <2>2. Only(x.m, k, {"contiguous"}) /\ x.m.contiguous \in BOOLEAN
    BY <1>1, <2>1 DEF Supplied
  <2>3. Serve(x, nb) = Failed(x.m)
    BY <1>1 DEF Serve
  <2>4. QED
    BY <2>2, <2>3, FailedRefuses
<1>2. CASE x.tbase # CMFAIL
  <2> DEFINE g == x.tsize
             n == AddMemory(CountFootprint(x.m, g), x.tbase, g)
             r == Serve(x, nb)
  <2>1. Params(k)
    BY DEF Mem
  <2>2. Extended(k, n, nb, g, sz, U)
    BY <1>2, <2>1, AddMemoryExtends DEF Mem
  <2>3. g \in Nat /\ g <= asize
    BY <1>2 DEF Supplied
  <2>4. r = ServeFromTop(n, nb)
    BY <1>2 DEF Serve
  <2> HIDE DEF n, r, g
  <2>5. PICK t : Heap(n, t, U) /\ Keeps(t, sz, U)
    BY <2>2 DEF Extended
  <2>6. Params(n) /\ nb < n.topsize /\ n.enomem = k.enomem /\ n.footprint = k.footprint + g
    BY <2>2 DEF Extended
  <2>7. r = SplitTop(n, nb)
    BY <2>4, <2>6 DEF ServeFromTop
  <2>8. Serves(n, r, nb, Lo(n), End(n), t, U)
    BY <2>5, <2>6, <2>7, SplitTopServes DEF Heap
  <2>9. Grants(n, r, nb, t, U)
    BY <2>5, <2>6, <2>8, ServesGrants
  <2>10. PICK p, t2 :
            /\ p \in Nat /\ r.mem = chunk2mem(p) /\ p \notin U
            /\ Params(r.m) /\ Heap(r.m, t2, U \cup {p})
            /\ t2[p] >= nb /\ PredUsed(Lo(r.m), t2, U \cup {p}, p) /\ Keeps(t2, t, U)
            /\ r.m.enomem = n.enomem /\ Growth(n, r.m)
    BY <2>9 DEF Grants
  <2>11. Keeps(t2, sz, U)
    BY <2>5, <2>10 DEF Keeps
  <2>12. r.m.enomem = k.enomem
    BY <2>6, <2>10
  <2>13. Growth(k, r.m)
    <3> SUFFICES ASSUME is_initialized(k), k.footprint_limit # 0
                 PROVE  r.m.footprint <= k.footprint_limit
      BY DEF Growth
    <3>1. k.footprint \in Nat /\ k.footprint < WordSize /\ k.footprint_limit \in Nat
      <4>1. NoHeap(k) => ~is_initialized(k)
        BY DEF NoHeap, NothingIn, is_initialized
      <4>2. Segment(k) /\ Params(k)
        BY <2>1, <4>1 DEF Mem, Heap
      <4>3. k.footprint \in Nat /\ k.footprint <= k.brk /\ k.brk <= k.memory_end /\ k.brk \in Nat
        BY <4>2 DEF Segment
      <4>4. k.memory_end \in Nat /\ k.memory_end < WordSize
        BY <4>2, StateFacts
      <4>5. WordSize \in Nat
        BY Requests
      <4>6. k.footprint < WordSize
        BY <4>3, <4>4, <4>5
      <4>7. QED
        BY <4>2, <4>3, <4>6 DEF Params
    <3>2. k.footprint + asize <= k.footprint_limit
      BY <3>1, WithinLimit
    <3>3. r.m.footprint = n.footprint
      <4>1. PICK q \in Nat : Served(n, r.m, q, nb, Lo(n), End(n), t, U)
        BY <2>8 DEF Serves
      <4>2. QED
        BY <4>1, ChunksOnly DEF Served
    <3>4. QED
      BY <2>3, <2>6, <3>1, <3>2, <3>3
  <2>14. Grants(k, r, nb, sz, U)
    BY <2>10, <2>11, <2>12, <2>13 DEF Grants
  <2>15. QED
    BY <2>14 DEF r
<1>3. QED
  BY <1>1, <1>2

(* What ensure_initialization leaves alone. *)
Ensured(k, h) ==
  /\ Only(k, h, {"granularity", "trim_threshold"}) /\ k.granularity # 0
  /\ h.granularity # 0 => k = h
  /\ k.granularity \in 0 .. MAX_SIZE_T /\ k.granularity % 8 = 0

GranularitySet(h, g, t) == [h EXCEPT !.granularity = g, !.trim_threshold = t]

LEMMA WithGranularity ==
  ASSUME NEW h, IsState(h), NEW g, NEW t
  PROVE  LET n == GranularitySet(h, g, t)
         IN  /\ Only(n, h, {"granularity", "trim_threshold"}) /\ n.granularity = g
             /\ n.trim_threshold = t
<1> QED BY DEF IsState, Only, FieldNames, GranularitySet

LEMMA EnsureInitializes ==
  ASSUME NEW h, IsState(h), Params(h)
  PROVE  Ensured(ensure_initialization(h), h)
<1>1. CASE h.granularity # 0
  <2>1. ensure_initialization(h) = h
    BY <1>1 DEF ensure_initialization
  <2>2. Only(h, h, {"granularity", "trim_threshold"})
    BY DEF Only
  <2>3. QED
    BY <1>1, <2>1, <2>2 DEF Ensured, Params
<1>2. CASE ~(h.granularity # 0)
  <2> DEFINE k == GranularitySet(h, PageSize, MAX_SIZE_T)
  <2>1. ensure_initialization(h) = k
    BY <1>2 DEF ensure_initialization, GranularitySet
  <2>2. Only(k, h, {"granularity", "trim_threshold"}) /\ k.granularity = PageSize
    BY WithGranularity
  <2> HIDE DEF k
  <2>3. PageSize \in Nat /\ PageSize # 0 /\ PageSize % 8 = 0 /\ PageSize <= MAX_SIZE_T
    <3>1. HeapEnd > 0 /\ HeapEnd \in Nat
      BY Pages DEF Params
    <3>2. PageSize < WordSize
      BY <3>1, Pages, Requests
    <3>3. QED
      BY <3>2, Pages, Requests DEF MAX_SIZE_T
  <2>4. PageSize \in 0 .. MAX_SIZE_T
    BY <2>3, Requests
  <2>5. QED
    BY <1>2, <2>1, <2>2, <2>3, <2>4 DEF Ensured
<1>3. QED
  BY <1>1, <1>2

LEMMA EnsuredMem ==
  ASSUME NEW h, NEW k, Params(h), Ensured(k, h)
  PROVE  /\ IsState(k) /\ Params(k) /\ k.granularity # 0
         /\ k.brk = h.brk /\ k.enomem = h.enomem /\ (is_initialized(k) <=> is_initialized(h))
         /\ k.topsize = h.topsize /\ k.footprint = h.footprint
         /\ k.footprint_limit = h.footprint_limit
         /\ NoHeap(h) => NoHeap(k)
         /\ \A sz, U : Heap(h, sz, U) => k = h /\ Heap(k, sz, U)
         /\ \A sz, U : Mem(h, sz, U) => Mem(k, sz, U)
<1>1. Only(k, h, {"granularity", "trim_threshold"})
  BY DEF Ensured
<1>2. /\ k.heap_base = h.heap_base /\ k.memory_end = h.memory_end /\ k.top = h.top
      /\ k.footprint_limit = h.footprint_limit /\ k.ok = h.ok /\ k.contiguous = h.contiguous
      /\ k.brk = h.brk /\ k.footprint = h.footprint /\ k.enomem = h.enomem
      /\ k.topsize = h.topsize /\ IsState(k)
  BY <1>1 DEF Only, FieldNames
<1>3. k.granularity \in 0 .. MAX_SIZE_T /\ k.granularity % 8 = 0 /\ k.granularity # 0
  BY DEF Ensured
<1>4. Params(k)
  BY <1>2, <1>3 DEF Params
<1>5. Only(k, h, {"contiguous", "enomem", "footprint_limit", "trim_check", "trim_threshold",
                  "granularity"})
  BY <1>1 DEF Only
<1>6. NoHeap(h) => NoHeap(k)
  BY <1>5, NoHeapFrame
<1>7. \A sz, U : Heap(h, sz, U) => k = h /\ Heap(k, sz, U)
  BY DEF Ensured, Heap, Segment
<1>8. \A sz, U : Mem(h, sz, U) => Mem(k, sz, U)
  BY <1>4, <1>6, <1>7 DEF Mem
<1>9. QED
  BY <1>2, <1>3, <1>4, <1>6, <1>7, <1>8 DEF is_initialized

LEMMA MemIsState ==
  ASSUME NEW h, NEW sz, NEW U, Mem(h, sz, U)
  PROVE  IsState(h) /\ Params(h) /\ (is_initialized(h) <=> Heap(h, sz, U))
<1>1. Heap(h, sz, U) => is_initialized(h)
  BY HeapFacts DEF Mem
<1>2. NoHeap(h) => ~is_initialized(h)
  BY DEF NoHeap, NothingIn, is_initialized
<1>3. QED
  BY <1>1, <1>2 DEF Mem, Heap, HeapOf, NoHeap, WellFormed

LEMMA GrantsFrom ==
  ASSUME NEW h, NEW k, NEW r, NEW nb, NEW sz, NEW U, Grants(k, r, nb, sz, U),
         k.enomem = h.enomem, Growth(h, r.m)
  PROVE  Grants(h, r, nb, sz, U)
<1>1. PICK p, t :
         /\ p \in Nat /\ r.mem = chunk2mem(p) /\ p \notin U
         /\ Params(r.m) /\ Heap(r.m, t, U \cup {p})
         /\ t[p] >= nb /\ PredUsed(Lo(r.m), t, U \cup {p}, p) /\ Keeps(t, sz, U)
         /\ r.m.enomem = k.enomem
  BY DEF Grants
<1>2. r.m.enomem = h.enomem
  BY <1>1
<1>3. QED
  BY <1>1, <1>2 DEF Grants

LEMMA SysAllocOutcome ==
  ASSUME NEW h, NEW sz, NEW U, Mem(h, sz, U), NEW nb, NbOK(nb),
         is_initialized(h) => h.topsize <= nb, NEW env
  PROVE  Grants(h, sys_alloc(h, nb, env), nb, sz, U) \/ Refuses(h, sys_alloc(h, nb, env), sz, U)
<1> DEFINE k == ensure_initialization(h)
           asize == granularity_align(k, Word(nb + SYS_ALLOC_PADDING))
           x == Extend(k, nb, asize, env)
           r == sys_alloc(h, nb, env)
<1>1. Params(h) /\ IsState(h)
  BY MemIsState
<1>2. Ensured(k, h)
  BY <1>1, EnsureInitializes
<1> HIDE DEF k
<1>3. /\ IsState(k) /\ Params(k) /\ k.granularity # 0 /\ Mem(k, sz, U)
      /\ k.brk = h.brk /\ k.enomem = h.enomem /\ (is_initialized(k) <=> is_initialized(h))
      /\ k.topsize = h.topsize
  BY <1>1, <1>2, EnsuredMem
<1>4. is_initialized(h) => k = h
  <2>1. is_initialized(h) => Heap(h, sz, U)
    BY MemIsState
  <2>2. QED
    BY <1>1, <1>2, <2>1, EnsuredMem
<1>5. Grants(k, r, nb, sz, U) \/ Refuses(k, r, sz, U)
  <2>1. CASE asize <= nb \/ OverLimit(k, Word(k.footprint + asize))
    <3>1. r = Failed(k)
      BY <2>1 DEF k, sys_alloc, AllocateFromSystem
    <3>2. Only(k, k, {"contiguous"}) /\ k.contiguous \in BOOLEAN
      BY <1>3 DEF Only, Params
    <3>3. QED
      BY <1>3, <3>1, <3>2, FailedRefuses
  <2>2. CASE ~(asize <= nb \/ OverLimit(k, Word(k.footprint + asize)))
    <3>1. r = Serve(x, nb)
      BY <2>2 DEF k, sys_alloc, AllocateFromSystem
    <3> DEFINE g == k.granularity
    <3>2. asize = AlignUp(Word(nb + SYS_ALLOC_PADDING), g) /\ ~(asize <= nb)
      BY <1>3, <2>2 DEF granularity_align
    <3>3. g \in 1 .. MAX_SIZE_T /\ g % 8 = 0
      <4>1. g \in 0 .. MAX_SIZE_T /\ g % 8 = 0 /\ g # 0
        BY <1>3 DEF Params
      <4>2. MAX_SIZE_T \in Nat
        BY Requests
      <4> HIDE DEF g
      <4>3. QED
        BY <4>1, <4>2
    <3> HIDE DEF asize
    <3>5. nb \in Nat /\ nb >= 16
      BY DEF NbOK
    <3>4. asize \in Nat /\ asize < WordSize /\ nb % 8 = 0
      <4> HIDE DEF g
      <4>1. QED
        BY <3>2, <3>3, GranuleFacts
    <3>6. \E need \in Nat : Needs(k, nb, need)
      <4>1. CASE is_initialized(k)
        <5>1. Heap(k, sz, U)
          BY <1>3, <4>1, MemIsState
        <5>2. k.topsize \in Nat
          BY <1>3, <5>1, HeapFacts
        <5>3. k.topsize <= nb
          BY <1>3, <4>1
        <5>4. nb - k.topsize + 48 \in Nat
          BY <3>5, <5>2, <5>3
        <5>5. Segment(k)
          BY <5>1 DEF Heap
        <5>6. Needs(k, nb, nb - k.topsize + 48)
          BY <4>1, <5>5, <5>2, <5>3 DEF Needs
        <5>7. QED
          BY <5>4, <5>6
      <4>2. CASE ~is_initialized(k)
        <5>1. NoHeap(k)
          BY <1>3, <4>2, MemIsState DEF Mem
        <5>2. nb + 48 \in Nat
          BY <3>5
        <5>3. QED
          BY <5>1, <5>2 DEF Needs
      <4>3. QED
        BY <4>1, <4>2
    <3>7. PICK need \in Nat : Needs(k, nb, need)
      BY <3>6
    <3>8. Supplied(k, x, need, asize)
      BY <1>3, <3>2, <3>7, ExtendSupplies
    <3> HIDE DEF x
    <3>9. Grants(k, Serve(x, nb), nb, sz, U) \/ Refuses(k, Serve(x, nb), sz, U)
      BY <1>3, <2>2, <3>4, <3>5, <3>7, <3>8, ServeOutcome
    <3>10. QED
      BY <3>1, <3>9
  <2>3. QED
    BY <2>1, <2>2
<1> HIDE DEF r
<1>6. CASE is_initialized(h)
  BY <1>4, <1>5, <1>6 DEF r
<1>7. CASE ~is_initialized(h)
  <2>1. Growth(h, r.m)
    BY <1>7 DEF Growth
  <2>2. Grants(k, r, nb, sz, U) => Grants(h, r, nb, sz, U)
    BY <1>3, <2>1, GrantsFrom
  <2>3. Refuses(k, r, sz, U) => Refuses(h, r, sz, U)
    <3> SUFFICES ASSUME Refuses(k, r, sz, U) PROVE Refuses(h, r, sz, U)
      OBVIOUS
    <3>1. r.mem = 0 /\ r.m.enomem /\ r.m.brk = k.brk /\ Mem(r.m, sz, U)
      BY DEF Refuses
    <3>2. r.m.brk = h.brk
      BY <1>3, <3>1
    <3>3. QED
      BY <1>7, <2>1, <3>1, <3>2 DEF Refuses
  <2>4. QED
    BY <1>5, <2>2, <2>3 DEF r
<1>8. QED
  BY <1>6, <1>7

InitialSet(k, s) ==
  [k EXCEPT !.base = k.heap_base, !.segsize = s, !.footprint = s, !.max_footprint = s]

LEMMA WithInitial ==
  ASSUME NEW k, IsState(k), NEW s
  PROVE  LET n == InitialSet(k, s)
         IN  /\ Only(n, k, {"base", "segsize", "footprint", "max_footprint"})
             /\ n.base = k.heap_base /\ n.segsize = s /\ n.footprint = s /\ n.max_footprint = s
<1> QED BY DEF IsState, Only, FieldNames, InitialSet

(* The memory in front of the heap, if it is large enough.                 *)
LEMMA TryInitMakes ==
  ASSUME NEW h, Params(h), NoHeap(h), NEW n, n = try_init_allocator(h)
  PROVE  /\ Params(n) /\ n.brk = h.brk /\ n.enomem = h.enomem
         /\ NoHeap(n) \/ \E t : Heap(n, t, {})
<1>1. IsState(h)
  BY DEF NoHeap, WellFormed
<1> DEFINE k == ensure_initialization(h)
           s == HeapEnd - h.heap_base
<1>2. Ensured(k, h)
  BY <1>1, EnsureInitializes
<1>3. /\ n = IF s <= 64 THEN k ELSE init_top(InitialSet(k, s), h.heap_base, s - 40)
  <2>1. k.heap_base = h.heap_base
    BY <1>2 DEF Ensured, Only, FieldNames
  <2>2. MIN_CHUNK_SIZE + TOP_FOOT_SIZE + MALLOC_ALIGNMENT = 64
    BY MinChunkSize, TopFootSize DEF MALLOC_ALIGNMENT
  <2> HIDE DEF k
  <2>3. n = IF s <= 64 THEN k
            ELSE init_top([k EXCEPT !.base = h.heap_base, !.segsize = s,
                                    !.footprint = s, !.max_footprint = s],
                          h.heap_base, s - TOP_FOOT_SIZE)
    BY <2>2 DEF k, try_init_allocator
  <2>4. QED
    BY <2>1, <2>3, TopFootSize DEF InitialSet
<1> HIDE DEF k
<1>4. /\ IsState(k) /\ Params(k) /\ k.granularity # 0 /\ NoHeap(k)
      /\ k.brk = h.brk /\ k.enomem = h.enomem
  BY <1>2, EnsuredMem
<1>5. CASE s <= 64
  BY <1>3, <1>4, <1>5
<1>6. CASE ~(s <= 64)
  <2> DEFINE i == InitialSet(k, s)
             b == h.heap_base
             p == align_as_chunk(b)
             s0 == s - 40
             e == HeapEnd - 40
             z == e - p
             t == OneChunk(p, z)
  <2>1. k.heap_base = b
    BY <1>2 DEF Ensured, Only, FieldNames
  <2>2. /\ Only(i, k, {"base", "segsize", "footprint", "max_footprint"})
        /\ i.base = b /\ i.segsize = s /\ i.footprint = s /\ i.max_footprint = s
    BY <1>4, <2>1, WithInitial
  <2>3. n = init_top(i, b, s0)
    BY <1>3, <1>6
  <2> HIDE DEF i
  <2>4. /\ i.head = k.head /\ i.foot = k.foot /\ i.bins = k.bins /\ i.dv = k.dv /\ i.dvsize = k.dvsize
        /\ i.top = k.top /\ i.topsize = k.topsize /\ i.junk = k.junk /\ IsState(i)
        /\ i.enomem = k.enomem /\ i.brk = k.brk /\ i.contiguous = k.contiguous
        /\ i.heap_base = k.heap_base /\ i.memory_end = k.memory_end /\ i.ok = k.ok
        /\ i.footprint_limit = k.footprint_limit /\ i.granularity = k.granularity
    BY <2>2 DEF Only, FieldNames
  <2>5. NothingIn(i) /\ WellFormed(i)
    BY <1>4, <2>4, WellFormedIs DEF NoHeap, NothingIn
  <2>6. b \in Nat /\ b > 0 /\ b <= HeapEnd /\ HeapEnd \in Nat /\ HeapEnd % 8 = 0
    BY Pages DEF Params
  <2>7. p \in Nat /\ p % 8 = 0 /\ b <= p /\ p <= b + 7
    <3> HIDE DEF b
    <3>1. QED
      BY <2>6, AlignAsChunk
  <2> HIDE DEF b, p
  <2>8. s0 \in Nat /\ z \in Nat /\ z > 0 /\ p + z = b + s0 /\ e = p + z
    <3>1. s = HeapEnd - b
      BY DEF b
    <3>2. QED
      BY <1>6, <2>6, <2>7, <3>1
  <2>9. z % 8 = 0
    BY <2>6, <2>7, <2>8
  <2> HIDE DEF s0, z, e, t
  <2>10. TopMade(i, n, p, z, e)
    BY <2>3, <2>5, <2>6, <2>7, <2>8, InitTopMakes DEF p
  <2>11. HeapOf(n, p, e, t, {})
    BY <2>5, <2>7, <2>8, <2>9, <2>10, FreshHeap DEF t
  <2>12. /\ n.base = i.base /\ n.segsize = i.segsize /\ n.brk = i.brk /\ n.memory_end = i.memory_end
        /\ n.footprint = i.footprint /\ n.max_footprint = i.max_footprint
        /\ n.granularity = i.granularity /\ n.contiguous = i.contiguous /\ n.enomem = i.enomem
        /\ n.footprint_limit = i.footprint_limit /\ n.heap_base = i.heap_base /\ n.ok = i.ok
    BY <2>10 DEF TopMade, Only, FieldNames
  <2>13. Params(n)
    BY <1>4, <2>4, <2>12 DEF Params
  <2>14. k.brk = HeapEnd /\ HeapEnd <= k.memory_end
    BY <1>4, Pages DEF NoHeap, Params
  <2>15. s \in Nat /\ b + s = HeapEnd
    BY <1>6, <2>6 DEF b
  <2> HIDE DEF s
  <2>16. Segment(n)
    <3>6. n.base = b /\ n.segsize = s /\ n.brk = HeapEnd
      BY <2>2, <2>4, <2>12, <2>14
    <3>1. n.base \in Nat /\ n.segsize \in Nat /\ n.brk = n.base + n.segsize
      BY <2>6, <2>15, <3>6
    <3>2. n.footprint = n.segsize /\ n.max_footprint \in Nat /\ n.footprint <= n.max_footprint
      BY <2>2, <2>12, <2>15
    <3>3. n.brk <= n.memory_end /\ n.granularity # 0
      BY <1>4, <2>4, <2>12, <2>14
    <3>5. n.base \in Nat \ {0}
      BY <2>2, <2>6, <2>12
    <3>4. QED
      BY <3>1, <3>2, <3>3, <3>5 DEF Segment
  <2>17. Lo(n) = p /\ End(n) = e
    <3>1. Lo(n) = p
      BY <2>2, <2>12 DEF Lo, p
    <3>2. n.base + n.segsize = HeapEnd
      BY <2>2, <2>12, <2>15
    <3>3. QED
      BY <2>6, <2>2, <2>12, <2>15, <3>1, <3>2, TopFootSize DEF End, e
  <2>18. Heap(n, t, {})
    BY <2>11, <2>16, <2>17 DEF Heap
  <2>19. n.brk = h.brk /\ n.enomem = h.enomem
    BY <1>4, <2>4, <2>12
  <2>20. QED
    BY <2>13, <2>18, <2>19
<1>7. QED
  BY <1>5, <1>6

LEMMA EmptyRequests ==
  ASSUME NEW h, NoHeap(h), NEW nb \in Nat, nb > 0, NEW env
  PROVE  /\ SmallRequest(h, nb, env) = sys_alloc(h, nb, env)
         /\ LargeRequest(h, nb, env) = sys_alloc(h, nb, env)
<1>1. DOMAIN h.bins = {} /\ h.dvsize = 0 /\ h.topsize = 0
  BY DEF NoHeap, NothingIn, NoBins
<1>2. AtLeast(SmallBinned(h), nb) = {} /\ TreeBinned(h) = {} /\ AtLeast(TreeBinned(h), nb) = {}
  BY <1>1 DEF AtLeast, SmallBinned, TreeBinned
<1>3. UseDvTopOrSystem(h, nb, env) = sys_alloc(h, nb, env)
  BY <1>1 DEF UseDvTopOrSystem
<1>4. SmallRequest(h, nb, env) = sys_alloc(h, nb, env)
  <2>1. ~(nb <= h.dvsize)
    BY <1>1
  <2>2. QED
    BY <1>2, <1>3, <2>1 DEF SmallRequest
<1>5. tmalloc_large(h, nb) = Result(h, 0)
  BY <1>2 DEF tmalloc_large
<1>6. LargeRequest(h, nb, env) = sys_alloc(h, nb, env)
  <2>1. Result(h, 0).mem = 0
    BY DEF Result
  <2>2. QED
    BY <1>3, <1>5, <2>1 DEF LargeRequest
<1>7. QED
  BY <1>4, <1>6

-----------------------------------------------------------------------------
(* malloc.                                                                 *)

(* No memory for a call, and what was there is still there.                *)
Fails(h, r, sz, U) ==
  /\ r.mem = 0 /\ r.m.enomem /\ r.m.brk = h.brk /\ Growth(h, r.m)
  /\ is_initialized(h) => Only(r.m, h, {"contiguous", "enomem"})
  /\ \E t : Mem(r.m, t, U) /\ Keeps(t, sz, U)

LEMMA RefusesFails ==
  ASSUME NEW h, NEW r, NEW sz, NEW U, Refuses(h, r, sz, U)
  PROVE  Fails(h, r, sz, U)
<1>1. Keeps(sz, sz, U)
  BY DEF Keeps
<1>2. QED
  BY <1>1 DEF Refuses, Fails

LEMMA ServingOutcome ==
  ASSUME NEW h, NEW sz, NEW U, Mem(h, sz, U), NEW bytes \in Nat, NEW nb, nb = ChunkSizeFor(bytes),
         NEW env, NEW r, r = IF bytes <= MAX_SMALL_REQUEST THEN SmallRequest(h, nb, env)
                                                          ELSE LargeRequest(h, nb, env)
  PROVE  \/ Grants(h, r, nb, sz, U)
         \/ Refuses(h, r, sz, U) /\ (is_initialized(h) => Exhausted(h, nb))
<1>1. /\ NbOK(nb) /\ (bytes <= MAX_SMALL_REQUEST => nb < 256 /\ nb % 8 = 0)
      /\ bytes > MAX_SMALL_REQUEST =>
              nb = MAX_SIZE_T \/ (nb >= 256 /\ nb % 8 = 0 /\ nb < MAX_SIZE_T)
  BY ChunkSizes
<1>2. nb \in Nat /\ nb >= 16
  BY <1>1 DEF NbOK
<1>3. Params(h)
  BY DEF Mem
<1>4. CASE NoHeap(h)
  <2>1. r = sys_alloc(h, nb, env)
    BY <1>2, <1>4, EmptyRequests
  <2>2. ~is_initialized(h)
    BY <1>4 DEF NoHeap, NothingIn, is_initialized
  <2>3. Grants(h, r, nb, sz, U) \/ Refuses(h, r, sz, U)
    BY <1>1, <2>1, <2>2, SysAllocOutcome
  <2>4. QED
    BY <2>2, <2>3
<1>5. CASE Heap(h, sz, U)
  <2> DEFINE lo == Lo(h)
             e == End(h)
  <2>1. HeapOf(h, lo, e, sz, U) /\ e < MAX_SIZE_T
    BY <1>3, <1>5, HeapFacts DEF Heap
  <2>2. \/ Serves(h, r, nb, lo, e, sz, U)
        \/ r = sys_alloc(h, nb, env) /\ Exhausted(h, nb)
    <3> HIDE DEF lo, e
    <3>1. CASE bytes <= MAX_SMALL_REQUEST
      BY <1>1, <1>2, <2>1, <3>1, SmallRequestServes
    <3>2. CASE ~(bytes <= MAX_SMALL_REQUEST)
      <4>1. bytes > MAX_SMALL_REQUEST
        BY <3>2, Requests
      <4>2. QED
        BY <1>1, <1>2, <2>1, <3>2, <4>1, LargeRequestServes
    <3>3. QED
      BY <3>1, <3>2
  <2>3. CASE Serves(h, r, nb, lo, e, sz, U)
    BY <1>3, <1>5, <2>3, ServesGrants
  <2>4. CASE r = sys_alloc(h, nb, env) /\ Exhausted(h, nb)
    <3>1. h.topsize <= nb
      BY <2>4 DEF Exhausted
    <3>2. QED
      BY <1>1, <2>4, <3>1, SysAllocOutcome
  <2>5. QED
    BY <2>2, <2>3, <2>4
<1>6. QED
  BY <1>4, <1>5 DEF Mem

LEMMA MallocOutcome ==
  ASSUME NEW h, NEW sz, NEW U, Mem(h, sz, U), NEW bytes \in Nat, NEW nb, nb = ChunkSizeFor(bytes),
         NEW env, NEW r, r = dlmalloc(h, bytes, env)
  PROVE  \/ Grants(h, r, nb, sz, U)
         \/ Fails(h, r, sz, U) /\ (is_initialized(h) => Exhausted(h, nb))
<1> DEFINE k == IF is_initialized(h) THEN h ELSE try_init_allocator(h)
<1>1. r = IF bytes <= MAX_SMALL_REQUEST THEN SmallRequest(k, nb, env) ELSE LargeRequest(k, nb, env)
  BY DEF dlmalloc
<1>2. Params(h) /\ (is_initialized(h) <=> Heap(h, sz, U))
  BY MemIsState
<1>3. CASE is_initialized(h)
  <2>1. k = h
    BY <1>3
  <2>2. \/ Grants(h, r, nb, sz, U)
        \/ Refuses(h, r, sz, U) /\ (is_initialized(h) => Exhausted(h, nb))
    <3> HIDE DEF k
    <3>1. QED
      BY <1>1, <2>1, ServingOutcome
  <2>3. QED
    BY <2>2, RefusesFails
<1>4. CASE ~is_initialized(h)
  <2>1. NoHeap(h) /\ U = {}
    BY <1>2, <1>4 DEF Mem
  <2>2. k = try_init_allocator(h)
    BY <1>4
  <2> HIDE DEF k
  <2>3. /\ Params(k) /\ k.brk = h.brk /\ k.enomem = h.enomem
        /\ NoHeap(k) \/ \E t : Heap(k, t, {})
    BY <1>2, <2>1, <2>2, TryInitMakes
  <2>4. \E t : Mem(k, t, U)
    BY <2>1, <2>3 DEF Mem
  <2>5. PICK t : Mem(k, t, U)
    BY <2>4
  <2>6. Grants(k, r, nb, t, U) \/ Refuses(k, r, t, U)
    BY <1>1, <2>5, ServingOutcome
  <2>7. Growth(h, r.m)
    BY <1>4 DEF Growth
  <2>8. \A t2 : Keeps(t2, sz, U)
    BY <2>1 DEF Keeps
  <2>9. CASE Grants(k, r, nb, t, U)
    <3>1. Grants(h, r, nb, t, U)
      BY <2>3, <2>7, <2>9, GrantsFrom
    <3>2. Grants(h, r, nb, sz, U)
      BY <2>8, <3>1 DEF Grants
    <3>3. QED
      BY <3>2
  <2>10. CASE Refuses(k, r, t, U)
    <3>1. r.mem = 0 /\ r.m.enomem /\ r.m.brk = k.brk /\ Mem(r.m, t, U)
      BY <2>10 DEF Refuses
    <3>2. r.m.brk = h.brk
      BY <2>3, <3>1
    <3>3. Fails(h, r, sz, U)
      BY <1>4, <2>7, <2>8, <3>1, <3>2 DEF Fails
    <3>4. QED
      BY <1>4, <3>3
  <2>11. QED
    BY <2>6, <2>9, <2>10
<1>5. QED
  BY <1>3, <1>4

-----------------------------------------------------------------------------
(* free.                                                                   *)

(* What follows the hole of a layout.                                      *)
LEMMA HoleNext ==
  ASSUME NEW head, NEW foot, NEW bins, NEW dv, NEW dvsize, NEW lo, NEW e, NEW top, NEW sz, NEW U,
         NEW p \in DOMAIN sz, Layout(head, foot, bins, dv, dvsize, lo, e, top, sz, U, p),
         p # top, NEW n, n = p + sz[p]
  PROVE  /\ p \in Nat /\ sz[p] \in Nat /\ sz[p] > 0 /\ sz[p] % 8 = 0 /\ n \in Nat /\ e \in Nat
         /\ n \in DOMAIN sz /\ n # p /\ n # e /\ n + sz[n] <= e
         /\ n \in DOMAIN head /\ head[n] \in HeadRecords /\ head[n].size = sz[n]
         /\ head[n].cinuse <=> n \in U
         /\ n \in FreeChunks(sz, U, top) =>
              /\ sz[n] \in Nat /\ sz[n] >= 16 /\ n + sz[n] \in U /\ n + sz[n] \in DOMAIN head
              /\ n + sz[n] # e /\ ~head[n + sz[n]].pinuse
<1>1. Tiling(lo, e, sz) /\ Heads(head, foot, lo, e, top, sz, U, p)
  BY DEF Layout
<1>2. top \in DOMAIN sz /\ top + sz[top] = e /\ U \subseteq DOMAIN sz /\ p \in U
  BY LayoutHole
<1>3. /\ p \in Nat /\ sz[p] \in Nat /\ sz[p] > 0 /\ n \in Nat /\ e \in Nat
      /\ n \in DOMAIN sz /\ n # p /\ n # e /\ n + sz[n] <= e
  BY <1>1, <1>2, TilingArith
<1>4. sz[p] % 8 = 0
  BY <1>1 DEF Tiling
<1>5. /\ n \in DOMAIN head /\ head[n] \in HeadRecords /\ head[n].size = sz[n]
      /\ head[n].cinuse <=> n \in U
  BY <1>1, <1>3 DEF Heads
<1>6. ASSUME n \in FreeChunks(sz, U, top)
      PROVE  /\ sz[n] \in Nat /\ sz[n] >= 16 /\ n + sz[n] \in U /\ n + sz[n] \in DOMAIN head
             /\ n + sz[n] # e /\ ~head[n + sz[n]].pinuse
  <2>1. n \in DOMAIN sz \ U /\ n # top
    BY <1>6 DEF FreeChunks
  <2>2. sz[n] \in Nat /\ sz[n] >= 16 /\ n + sz[n] \in U
    BY <1>1, <1>3, <2>1, TilingArith DEF Heads
  <2>3. n + sz[n] # p
    BY <1>1, <1>3, TilingArith
  <2>4. n + sz[n] \in DOMAIN sz /\ n + sz[n] # e
    BY <1>1, <1>2, <2>2, TilingArith
  <2>5. n + sz[n] \in DOMAIN head
    BY <1>1, <2>3, <2>4 DEF Heads
  <2>6. ~head[n + sz[n]].pinuse
    BY <1>1, <1>3, <2>1, <2>3 DEF Heads
  <2>7. QED
    BY <2>2, <2>4, <2>5, <2>6
<1>7. QED
  BY <1>3, <1>4, <1>5, <1>6

(* The hole becomes a free chunk. *)
FreeIs(n, k, bins2, dv2, dvsize2, lo, e, top, sz, V) ==
  /\ WellFormed(n) /\ Only(n, k, {"head", "foot"})
  /\ Layout(n.head, n.foot, bins2, dv2, dvsize2, lo, e, top, sz, V, e)

LEMMA FreeHole ==
  ASSUME NEW k, WellFormed(k), NEW bins, NEW dv, NEW dvsize, NEW lo, NEW e, NEW top, NEW sz, NEW U,
         NEW p \in DOMAIN sz, Layout(k.head, k.foot, bins, dv, dvsize, lo, e, top, sz, U, p),
         p # top, NEW s, s = sz[p], s >= 16, PredUsed(lo, sz, U, p),
         NEW q, q = p + s, q \in U, ~k.head[q].pinuse,
         NEW bins2, NEW dv2, NEW dvsize2,
         BinsOK(bins2, dv2, dvsize2, sz, FreeChunks(sz, U, top) \cup {p})
  PROVE  FreeIs(set_size_and_pinuse_of_free_chunk(k, p, s), k, bins2, dv2, dvsize2,
                lo, e, top, sz, U \ {p})
<1> DEFINE n == set_size_and_pinuse_of_free_chunk(k, p, s)
<1>1. /\ p \in Nat /\ s \in Nat /\ s > 0 /\ q \in Nat /\ q \in DOMAIN k.head
  BY HoleNext
<1>2. WritesTo(k, n, e, p, s) /\ FreeStored(k, n, p, s)
  <2>1. Within(p, s, p, s)
    BY <1>1 DEF Within
  <2>2. QED
    BY <2>1, FreeIn
<1> SUFFICES FreeIs(n, k, bins2, dv2, dvsize2, lo, e, top, sz, U \ {p})
  OBVIOUS
<1> HIDE DEF n
<1>3. Layout(n.head, n.foot, bins, dv, dvsize, lo, e, top, sz, U, p)
  BY <1>2, LayoutFrame DEF WritesTo
<1>4. /\ p \in DOMAIN n.head /\ n.head[p] = [size |-> s, pinuse |-> TRUE, cinuse |-> FALSE]
      /\ \A x \in DOMAIN k.head : x < p \/ x >= p + s => x \in DOMAIN n.head /\ n.head[x] = k.head[x]
      /\ \A x \in DOMAIN n.head : x # p => x \in DOMAIN k.head /\ (x < p \/ x >= p + s)
      /\ q \in DOMAIN n.foot /\ n.foot[q] = s
  BY <1>2 DEF FreeStored, HeadStored
<1>5. n.head[q] = k.head[q]
  BY <1>1, <1>4
<1>6. WellFormed(n) /\ n.head[p] \in HeadRecords /\ Only(n, k, {"head", "foot"})
  BY <1>2, <1>4 DEF WritesTo, WellFormed
<1>7. NoHeads(n.head, p, s)
  <2>1. \A x \in DOMAIN n.head : x \in Nat
    BY <1>6 DEF WellFormed
  <2>2. QED
    BY <1>1, <1>4, <2>1 DEF NoHeads
<1>8. /\ n.head[p].size = sz[p] /\ ~n.head[p].cinuse /\ n.head[p].pinuse
      /\ p + sz[p] \in U /\ ~n.head[p + sz[p]].pinuse
      /\ p + sz[p] \in DOMAIN n.foot /\ n.foot[p + sz[p]] = sz[p] /\ NoHeads(n.head, p, sz[p])
  BY <1>4, <1>5, <1>7
<1>9. Layout(n.head, n.foot, bins2, dv2, dvsize2, lo, e, top, sz, U \ {p}, e)
  BY <1>3, <1>4, <1>6, <1>8, LayoutCloseFree
<1>10. QED
  BY <1>6, <1>9 DEF FreeIs

(* The same with the chunk behind told first. *)
LEMMA FreeHoleClearing ==
  ASSUME NEW k, WellFormed(k), NEW bins, NEW dv, NEW dvsize, NEW lo, NEW e, NEW top, NEW sz, NEW U,
         NEW p \in DOMAIN sz, Layout(k.head, k.foot, bins, dv, dvsize, lo, e, top, sz, U, p),
         p # top, NEW s, s = sz[p], s >= 16, PredUsed(lo, sz, U, p),
         NEW q, q = p + s, q \in U,
         NEW bins2, NEW dv2, NEW dvsize2,
         BinsOK(bins2, dv2, dvsize2, sz, FreeChunks(sz, U, top) \cup {p})
  PROVE  FreeIs(set_free_with_pinuse(k, p, s, q), k, bins2, dv2, dvsize2,
                lo, e, top, sz, U \ {p})
<1> DEFINE j == clear_pinuse(k, q)
           n == set_size_and_pinuse_of_free_chunk(j, p, s)
<1>1. p \in Nat /\ s \in Nat /\ s > 0 /\ q \in Nat /\ q \in DOMAIN k.head /\ q # e
  BY HoleNext
<1>2. WritesTo(k, j, e, p, s) /\ PinuseStored(k, j, q, FALSE)
  <2>1. \A pin \in BOOLEAN : WritesTo(k, StorePinuse(k, q, pin), e, p, s)
                             /\ PinuseStored(k, StorePinuse(k, q, pin), q, pin)
    BY <1>1, StorePinuseIn
  <2>2. j = StorePinuse(k, q, FALSE)
    BY DEF clear_pinuse
  <2> HIDE DEF j
  <2>3. QED
    BY <2>1, <2>2
<1> SUFFICES FreeIs(n, k, bins2, dv2, dvsize2, lo, e, top, sz, U \ {p})
  BY DEF set_free_with_pinuse
<1> HIDE DEF j
<1>3. WellFormed(j) /\ Only(j, k, {"head", "foot"}) /\ ~j.head[q].pinuse
  BY <1>2 DEF WritesTo, PinuseStored
<1>4. Layout(j.head, j.foot, bins, dv, dvsize, lo, e, top, sz, U, p)
  BY <1>2, LayoutFrame DEF WritesTo
<1>5. FreeIs(n, j, bins2, dv2, dvsize2, lo, e, top, sz, U \ {p})
  BY <1>3, <1>4, FreeHole
<1> HIDE DEF n
<1>6. Only(n, k, {"head", "foot"})
  BY <1>3, <1>5, OnlyTransitive DEF FreeIs
<1>7. QED
  BY <1>5, <1>6 DEF FreeIs

(* The hole becomes the top. *)
LEMMA TopHole ==
  ASSUME NEW k, WellFormed(k), NEW bins, NEW dv, NEW dvsize, NEW lo, NEW e, NEW p, NEW sz, NEW U,
         Layout(k.head, k.foot, bins, dv, dvsize, lo, e, p, sz, U, p), PredUsed(lo, sz, U, p),
         NEW s, s = sz[p]
  PROVE  FreeIs(StoreHead(k, p, s, TRUE, FALSE), k, bins, dv, dvsize, lo, e, p, sz, U \ {p})
<1> DEFINE n == StoreHead(k, p, s, TRUE, FALSE)
<1>0. p \in DOMAIN sz
  BY LayoutHole
<1>1. p \in Nat /\ s \in Nat /\ s > 0
  BY <1>0, TilingArith DEF Layout
<1>2. WritesTo(k, n, e, p, s) /\ HeadStored(k, n, p, s, TRUE, FALSE)
  <2>1. Within(p, s, p, s)
    BY <1>1 DEF Within
  <2>2. QED
    BY <2>1, StoreHeadIn
<1> SUFFICES FreeIs(n, k, bins, dv, dvsize, lo, e, p, sz, U \ {p})
  OBVIOUS
<1> HIDE DEF n
<1>3. Layout(n.head, n.foot, bins, dv, dvsize, lo, e, p, sz, U, p)
  BY <1>0, <1>2, LayoutFrame DEF WritesTo
<1>4. /\ p \in DOMAIN n.head /\ n.head[p] = [size |-> s, pinuse |-> TRUE, cinuse |-> FALSE]
      /\ \A x \in DOMAIN n.head : x # p => x \in DOMAIN k.head /\ (x < p \/ x >= p + s)
  BY <1>2 DEF HeadStored
<1>5. WellFormed(n) /\ n.head[p] \in HeadRecords /\ Only(n, k, {"head", "foot"})
  BY <1>2, <1>4 DEF WritesTo, WellFormed
<1>6. NoHeads(n.head, p, sz[p])
  <2>1. \A x \in DOMAIN n.head : x \in Nat
    BY <1>5 DEF WellFormed
  <2>2. QED
    BY <1>1, <1>4, <2>1 DEF NoHeads
<1>7. n.head[p].size = sz[p] /\ ~n.head[p].cinuse /\ n.head[p].pinuse
  BY <1>4
<1>8. Layout(n.head, n.foot, bins, dv, dvsize, lo, e, p, sz, U \ {p}, e)
  BY <1>3, <1>4, <1>5, <1>6, <1>7, LayoutCloseTop
<1>9. QED
  BY <1>5, <1>8 DEF FreeIs

(* A dv that is the hole is none for the bins. *)
DvBut(k, p)     == IF k.dv = p THEN 0 ELSE k.dv
DvSizeBut(k, p) == IF k.dv = p THEN 0 ELSE k.dvsize

(* What free has when it looks at the chunk behind. *)
Hole(k, h, p, s, next, lo, e, sz, U) ==
  /\ WellFormed(k) /\ Only(k, h, ChunkFields)
  /\ Layout(k.head, k.foot, k.bins, DvBut(k, p), DvSizeBut(k, p), lo, e, k.top, sz, U, p)
  /\ p \in DOMAIN sz /\ p # 0 /\ s = sz[p] /\ s >= 16 /\ next = p + s /\ PredUsed(lo, sz, U, p)
  /\ p # k.top /\ k.topsize = sz[k.top]
  /\ k.dv = p => next \notin U

Freed(n, h, lo, e, sz, W)    == Only(n, h, ChunkFields) /\ HeapOf(n, lo, e, sz, W)
Released(n, h, lo, e, sz, W) == \E t : Freed(n, h, lo, e, t, W) /\ Keeps(t, sz, W)

LEMMA HoleFacts ==
  ASSUME NEW k, NEW h, NEW p, NEW s, NEW next, NEW lo, NEW e, NEW sz, NEW U,
         Hole(k, h, p, s, next, lo, e, sz, U)
  PROVE  /\ p \in Nat /\ s \in Nat /\ s > 0 /\ s % 8 = 0 /\ next \in Nat
         /\ next \in DOMAIN sz /\ next # p /\ p \in U
         /\ chunksize(k, next) = sz[next] /\ (cinuse(k, next) <=> next \in U)
         /\ next \in FreeChunks(sz, U, k.top) =>
              /\ sz[next] \in Nat /\ sz[next] >= 16 /\ next + sz[next] \in U
              /\ ~k.head[next + sz[next]].pinuse
<1>1. /\ Layout(k.head, k.foot, k.bins, DvBut(k, p), DvSizeBut(k, p), lo, e, k.top, sz, U, p)
      /\ p \in DOMAIN sz /\ p # k.top /\ next = p + sz[p] /\ s = sz[p] /\ WellFormed(k)
  BY DEF Hole
<1>2. /\ p \in Nat /\ sz[p] \in Nat /\ sz[p] > 0 /\ sz[p] % 8 = 0 /\ next \in Nat
      /\ next \in DOMAIN sz /\ next # p
      /\ next \in DOMAIN k.head /\ k.head[next].size = sz[next]
      /\ k.head[next].cinuse <=> next \in U
      /\ next \in FreeChunks(sz, U, k.top) =>
              /\ sz[next] \in Nat /\ sz[next] >= 16 /\ next + sz[next] \in U
              /\ ~k.head[next + sz[next]].pinuse
  BY <1>1, HoleNext
<1>3. p \in U
  BY <1>1, LayoutHole
<1>4. HeadAt(k, next) = k.head[next]
  BY <1>1, <1>2, HeadAtType
<1>5. chunksize(k, next) = sz[next] /\ (cinuse(k, next) <=> next \in U)
  BY <1>2, <1>4 DEF chunksize, cinuse
<1>6. QED
  BY <1>1, <1>2, <1>3, <1>5

(* The chunk behind is in use. *)
LEMMA InsertReleases ==
  ASSUME NEW k, NEW h, NEW p, NEW s, NEW next, NEW lo, NEW e, NEW sz, NEW U,
         Hole(k, h, p, s, next, lo, e, sz, U), next \in U
  PROVE  Released(insert_chunk(set_free_with_pinuse(k, p, s, next), p, s), h, lo, e, sz, U \ {p})
<1> DEFINE j == set_free_with_pinuse(k, p, s, next)
           n == insert_chunk(j, p, s)
           F == FreeChunks(sz, U, k.top)
           b == Put(k.bins, p, s)
<1>1. /\ WellFormed(k) /\ Only(k, h, ChunkFields) /\ k.dv # p /\ p \in DOMAIN sz /\ p # 0
      /\ Layout(k.head, k.foot, k.bins, k.dv, k.dvsize, lo, e, k.top, sz, U, p)
      /\ s = sz[p] /\ s >= 16 /\ next = p + s /\ PredUsed(lo, sz, U, p)
      /\ p # k.top /\ k.topsize = sz[k.top]
  BY DEF Hole, DvBut, DvSizeBut
<1>2. p \in U
  BY HoleFacts
<1>3. BinsOK(b, k.dv, k.dvsize, sz, F \cup {p})
  <2>1. BinsOK(k.bins, k.dv, k.dvsize, sz, F)
    BY <1>1 DEF Layout
  <2>2. p \notin F
    BY <1>2 DEF FreeChunks
  <2> HIDE DEF F
  <2>3. QED
    BY <1>1, <2>1, <2>2, PutBins
<1> HIDE DEF b
<1>4. FreeIs(j, k, b, k.dv, k.dvsize, lo, e, k.top, sz, U \ {p})
  BY <1>1, <1>3, FreeHoleClearing
<1> HIDE DEF j
<1>5. IsState(j) /\ j.bins = k.bins /\ j.dv = k.dv /\ j.dvsize = k.dvsize /\ j.top = k.top
      /\ j.topsize = k.topsize /\ Only(j, k, ChunkFields) /\ WellFormed(j)
  BY <1>1, <1>4, FieldsOf DEF FreeIs, WellFormed
<1>6. Only(n, j, {"bins"}) /\ n.bins = b
  BY <1>5, InsertIs DEF b
<1> HIDE DEF n
<1>7. /\ n.head = j.head /\ n.foot = j.foot /\ n.dv = k.dv /\ n.dvsize = k.dvsize /\ n.top = k.top
      /\ n.topsize = k.topsize /\ Only(n, j, ChunkFields) /\ WellFormed(n)
  BY <1>5, <1>6, FieldsOf, WellFormedIs DEF Only
<1>8. Layout(n.head, n.foot, n.bins, n.dv, n.dvsize, lo, e, n.top, sz, U \ {p}, e)
  BY <1>4, <1>6, <1>7 DEF FreeIs
<1>9. Only(n, h, ChunkFields)
  BY <1>1, <1>5, <1>7, OnlyTransitive
<1>10. Freed(n, h, lo, e, sz, U \ {p})
  BY <1>1, <1>7, <1>8, <1>9 DEF Freed, HeapOf
<1>11. QED
  BY <1>10 DEF Released, Keeps, n, j

LEMMA JoinedFacts ==
  ASSUME NEW lo, NEW e, NEW sz, Tiling(lo, e, sz), NEW p \in DOMAIN sz, NEW U, U \subseteq DOMAIN sz,
         NEW n \in DOMAIN sz, p + sz[p] = n, NEW t, t = JoinChunks(sz, p), n \notin U
  PROVE  /\ p \in DOMAIN t /\ t[p] = sz[p] + sz[n] /\ p + t[p] = n + sz[n] /\ n # p
         /\ Keeps(t, sz, U \ {p}) /\ (PredUsed(lo, sz, U, p) => PredUsed(lo, t, U, p))
         /\ \A c \in DOMAIN sz : c # p /\ c # n => t[c] = sz[c]
<1>1. /\ DOMAIN t = DOMAIN sz \ {n} /\ t[p] = sz[p] + sz[n] /\ p + t[p] = n + sz[n]
      /\ p \in DOMAIN t /\ n # p
      /\ \A c \in DOMAIN sz : c # p /\ c # n => t[c] = sz[c]
  BY JoinedSizes
<1>2. Keeps(t, sz, U \ {p})
  BY <1>1 DEF Keeps
<1>3. ASSUME PredUsed(lo, sz, U, p) PROVE PredUsed(lo, t, U, p)
  <2>1. CASE p = lo
    BY <2>1 DEF PredUsed
  <2>2. CASE p # lo
    <3>1. PICK d \in U : d + sz[d] = p
      BY <1>3, <2>2 DEF PredUsed
    <3>2. d # p
      BY <3>1, TilingArith
    <3>3. t[d] = sz[d]
      BY <1>1, <3>2
    <3>4. QED
      BY <3>1, <3>3 DEF PredUsed
  <2>3. QED
    BY <2>1, <2>2
<1>4. QED
  BY <1>1, <1>2, <1>3

TopDvSet(k, a, b, c, d) == [k EXCEPT !.top = a, !.topsize = b, !.dv = c, !.dvsize = d]

LEMMA WithTopDv ==
  ASSUME NEW k, IsState(k), NEW a, NEW b, NEW c, NEW d
  PROVE  LET n == TopDvSet(k, a, b, c, d)
         IN  /\ Only(n, k, {"top", "topsize", "dv", "dvsize"})
             /\ n.top = a /\ n.topsize = b /\ n.dv = c /\ n.dvsize = d
<1> QED BY DEF IsState, Only, FieldNames, TopDvSet

(* The chunk behind is the top. *)
LEMMA JoinTopReleases ==
  ASSUME NEW k, NEW h, NEW p, NEW s, NEW next, NEW lo, NEW e, NEW sz, NEW U,
         Hole(k, h, p, s, next, lo, e, sz, U), next = k.top
  PROVE  Released(JoinTop(k, p, s), h, lo, e, sz, U \ {p})
<1> DEFINE c == DvBut(k, p)
           d == DvSizeBut(k, p)
           z == k.topsize + s
           j == TopDvSet(k, p, z, c, d)
           n == StoreHead(j, p, z, TRUE, FALSE)
           t == JoinChunks(sz, p)
<1>1. /\ WellFormed(k) /\ Only(k, h, ChunkFields) /\ p \in DOMAIN sz
      /\ Layout(k.head, k.foot, k.bins, c, d, lo, e, k.top, sz, U, p)
      /\ s = sz[p] /\ next = p + s /\ PredUsed(lo, sz, U, p) /\ p # k.top
      /\ k.topsize = sz[k.top]
  BY DEF Hole
<1>2. JoinTop(k, p, s) = n
  <2>1. c = (IF p = k.dv THEN 0 ELSE k.dv) /\ d = (IF p = k.dv THEN 0 ELSE k.dvsize)
    BY DEF DvBut, DvSizeBut
  <2> HIDE DEF c, d
  <2>2. QED
    BY <2>1 DEF JoinTop, TopDvSet
<1>3. next \in DOMAIN sz /\ next \notin U /\ U \subseteq DOMAIN sz /\ s \in Nat
  BY <1>1, HoleFacts, LayoutHole
<1>4. Tiling(lo, e, sz)
  BY <1>1 DEF Layout
<1>5. /\ p \in DOMAIN t /\ t[p] = sz[p] + sz[next]
      /\ Keeps(t, sz, U \ {p}) /\ PredUsed(lo, t, U, p)
  BY <1>1, <1>3, <1>4, JoinedFacts
<1>6. z = t[p]
  <2>1. sz[next] \in Nat
    BY <1>3, <1>4, TilingArith
  <2>2. k.topsize = sz[next] /\ s = sz[p]
    BY <1>1
  <2> HIDE DEF t
  <2>3. QED
    BY <1>3, <1>5, <2>1, <2>2
<1>7. Layout(k.head, k.foot, k.bins, c, d, lo, e, p, t, U, p)
  BY <1>1, <1>3, LayoutMergeTop
<1> HIDE DEF t, z, c, d
<1>8. Only(j, k, {"top", "topsize", "dv", "dvsize"}) /\ j.top = p /\ j.topsize = z /\ j.dv = c /\ j.dvsize = d
  BY <1>1, WithTopDv DEF WellFormed
<1> HIDE DEF j
<1>9. /\ j.head = k.head /\ j.foot = k.foot /\ j.bins = k.bins /\ Only(j, k, ChunkFields)
      /\ WellFormed(j)
  BY <1>1, <1>8, FieldsOf, WellFormedIs DEF Only, WellFormed
<1>10. FreeIs(n, j, k.bins, c, d, lo, e, p, t, U \ {p})
  BY <1>5, <1>6, <1>7, <1>9, TopHole
<1> HIDE DEF n
<1>11. /\ n.bins = k.bins /\ n.dv = c /\ n.dvsize = d /\ n.top = p /\ n.topsize = z
       /\ Only(n, j, ChunkFields)
  BY <1>8, <1>9, <1>10, FieldsOf DEF FreeIs, WellFormed
<1>12. Only(n, h, ChunkFields)
  BY <1>1, <1>9, <1>11, OnlyTransitive
<1>13. Freed(n, h, lo, e, t, U \ {p})
  BY <1>6, <1>10, <1>11, <1>12 DEF Freed, HeapOf, FreeIs
<1>14. QED
  BY <1>2, <1>5, <1>13 DEF Released

(* What is known once the chunk behind, which is free, has joined. *)
Joined2(k, h, bins, dv, dvsize, p, s, q, lo, e, t, sz, U) ==
  /\ WellFormed(k) /\ Only(k, h, ChunkFields)
  /\ Layout(k.head, k.foot, bins, dv, dvsize, lo, e, k.top, t, U, p)
  /\ p \in DOMAIN t /\ p # 0 /\ p \notin FreeChunks(t, U, k.top)
  /\ s = t[p] /\ s \in Nat /\ s >= 16 /\ PredUsed(lo, t, U, p) /\ p # k.top
  /\ q = p + s /\ q \in U /\ ~k.head[q].pinuse
  /\ k.topsize = t[k.top] /\ Keeps(t, sz, U \ {p})

LEMMA JoinedHole ==
  ASSUME NEW k, NEW h, NEW p, NEW s, NEW next, NEW lo, NEW e, NEW sz, NEW U,
         Hole(k, h, p, s, next, lo, e, sz, U), next \in FreeChunks(sz, U, k.top),
         NEW t, t = JoinChunks(sz, p), NEW z, z = s + sz[next], NEW q, q = next + sz[next],
         NEW bins, NEW dv, NEW dvsize,
         Layout(k.head, k.foot, bins, dv, dvsize, lo, e, k.top, t, U, p)
  PROVE  Joined2(k, h, bins, dv, dvsize, p, z, q, lo, e, t, sz, U)
<1>1. /\ WellFormed(k) /\ Only(k, h, ChunkFields) /\ p \in DOMAIN sz /\ p # 0
      /\ Layout(k.head, k.foot, k.bins, DvBut(k, p), DvSizeBut(k, p), lo, e, k.top, sz, U, p)
      /\ s = sz[p] /\ s >= 16 /\ next = p + s /\ PredUsed(lo, sz, U, p) /\ p # k.top
      /\ k.topsize = sz[k.top]
  BY DEF Hole
<1>2. /\ next \in DOMAIN sz /\ next \notin U /\ next # k.top /\ p \in U /\ s \in Nat
      /\ sz[next] \in Nat /\ q \in U /\ ~k.head[q].pinuse
  BY HoleFacts DEF FreeChunks
<1>3. Tiling(lo, e, sz) /\ U \subseteq DOMAIN sz /\ k.top \in DOMAIN sz
  BY <1>1, LayoutHole DEF Layout
<1>4. /\ p \in DOMAIN t /\ t[p] = sz[p] + sz[next] /\ p + t[p] = next + sz[next]
      /\ Keeps(t, sz, U \ {p}) /\ PredUsed(lo, t, U, p)
      /\ \A c \in DOMAIN sz : c # p /\ c # next => t[c] = sz[c]
  BY <1>1, <1>2, <1>3, JoinedFacts
<1>5. t[k.top] = sz[k.top]
  BY <1>1, <1>2, <1>3, <1>4
<1>6. p \notin FreeChunks(t, U, k.top)
  BY <1>2 DEF FreeChunks
<1>7. z = t[p] /\ z \in Nat /\ z >= 16 /\ q = p + z
  BY <1>1, <1>2, <1>4
<1>8. QED
  BY <1>1, <1>2, <1>4, <1>5, <1>6, <1>7 DEF Joined2

(* The joined chunk is written, and is the dv or is binned.                *)
LEMMA JoinedReleases ==
  ASSUME NEW k, NEW h, NEW bins, NEW dv, NEW dvsize, NEW p, NEW s, NEW q, NEW lo, NEW e, NEW t,
         NEW sz, NEW U, Joined2(k, h, bins, dv, dvsize, p, s, q, lo, e, t, sz, U),
         NEW bins2, NEW dv2, NEW dvsize2,
         BinsOK(bins2, dv2, dvsize2, t, FreeChunks(t, U, k.top) \cup {p}),
         NEW n, Only(n, k, ChunkFields), n.top = k.top, n.topsize = k.topsize,
         NEW j, j = set_size_and_pinuse_of_free_chunk(k, p, s),
         n.head = j.head, n.foot = j.foot,
         n.bins = bins2, n.dv = dv2, n.dvsize = dvsize2
  PROVE  Released(n, h, lo, e, sz, U \ {p})
<1>1. FreeIs(j, k, bins2, dv2, dvsize2, lo, e, k.top, t, U \ {p})
  BY FreeHole DEF Joined2
<1>2. WellFormed(n)
  <2>1. WellFormed(j) /\ IsState(n)
    BY <1>1 DEF FreeIs, Only
  <2>2. n.junk = k.junk
    BY DEF Only, FieldNames, ChunkFields
  <2>3. j.junk = k.junk
    BY <1>1 DEF FreeIs, Only, FieldNames
  <2>4. QED
    BY <2>1, <2>2, <2>3, WellFormedIs
<1>3. Layout(n.head, n.foot, n.bins, n.dv, n.dvsize, lo, e, n.top, t, U \ {p}, e)
  BY <1>1 DEF FreeIs
<1>4. n.topsize = t[n.top]
  BY DEF Joined2
<1>5. Only(n, h, ChunkFields)
  BY OnlyTransitive DEF Joined2
<1>6. Freed(n, h, lo, e, t, U \ {p})
  BY <1>2, <1>3, <1>4, <1>5 DEF Freed, HeapOf
<1>7. Keeps(t, sz, U \ {p})
  BY DEF Joined2
<1>8. QED
  BY <1>6, <1>7 DEF Released

(* The write looks at neither bins nor dv. *)
LEMMA FreeWritesThrough ==
  ASSUME NEW k, NEW j, IsState(k), IsState(j), j.head = k.head, j.foot = k.foot, NEW p, NEW s
  PROVE  LET a == set_size_and_pinuse_of_free_chunk(k, p, s)
             b == set_size_and_pinuse_of_free_chunk(j, p, s)
         IN  /\ b.head = a.head /\ b.foot = a.foot /\ Only(b, j, {"head", "foot"})
             /\ Only(a, k, {"head", "foot"})
<1> DEFINE a1 == StoreHead(k, p, s, TRUE, FALSE)
           b1 == StoreHead(j, p, s, TRUE, FALSE)
<1>1. b1.head = a1.head /\ b1.foot = a1.foot
  BY DEF StoreHead, IsState, FieldNames
<1>2. Only(a1, k, {"head", "foot"}) /\ Only(b1, j, {"head", "foot"})
  BY StoreHeadIs
<1> HIDE DEF a1, b1
<1> DEFINE a == set_foot(a1, p, s)
           b == set_foot(b1, p, s)
<1>3. IsState(a1) /\ IsState(b1)
  BY <1>2 DEF Only
<1>4. b.head = a.head /\ b.foot = a.foot
  BY <1>1, <1>3 DEF set_foot, IsState, FieldNames
<1>5. Only(a, a1, {"foot"}) /\ Only(b, b1, {"foot"})
  BY <1>3, SetFootIs
<1> HIDE DEF a, b
<1>6. Only(a, k, {"head", "foot"}) /\ Only(b, j, {"head", "foot"})
  BY <1>2, <1>5 DEF Only
<1>7. QED
  BY <1>4, <1>6 DEF a, b, a1, b1, set_size_and_pinuse_of_free_chunk

LEMMA JoinDvReleases ==
  ASSUME NEW k, NEW h, NEW p, NEW s, NEW next, NEW lo, NEW e, NEW sz, NEW U,
         Hole(k, h, p, s, next, lo, e, sz, U), next \in FreeChunks(sz, U, k.top), next = k.dv
  PROVE  Released(JoinDv(k, p, s), h, lo, e, sz, U \ {p})
<1> DEFINE z == k.dvsize + s
           t == JoinChunks(sz, p)
           q == next + sz[next]
           i == DvSet(k, p, z)
           j == set_size_and_pinuse_of_free_chunk(k, p, z)
           n == set_size_and_pinuse_of_free_chunk(i, p, z)
<1>1. /\ WellFormed(k) /\ p \in DOMAIN sz /\ p # k.top /\ next = p + s /\ s = sz[p]
      /\ Layout(k.head, k.foot, k.bins, DvBut(k, p), DvSizeBut(k, p), lo, e, k.top, sz, U, p)
  BY DEF Hole
<1>2. next # p /\ next \in DOMAIN sz /\ s \in Nat /\ sz[next] \in Nat
  BY HoleFacts
<1>3. Layout(k.head, k.foot, k.bins, k.dv, k.dvsize, lo, e, k.top, sz, U, p)
  BY <1>1, <1>2 DEF DvBut, DvSizeBut
<1>4. Layout(k.head, k.foot, k.bins, 0, 0, lo, e, k.top, t, U, p)
  BY <1>1, <1>2, <1>3, LayoutMergeDv
<1>5. k.dvsize = sz[next]
  <2>1. k.dv # 0
    BY <1>3 DEF Layout, BinsOK
  <2>2. QED
    BY <1>3, <2>1 DEF Layout, BinsOK
<1>6. z = s + sz[next]
  BY <1>2, <1>5
<1> HIDE DEF t, q, z
<1>7. Joined2(k, h, k.bins, 0, 0, p, z, q, lo, e, t, sz, U)
  BY <1>4, <1>6, JoinedHole DEF t, q
<1>8. BinsOK(k.bins, p, z, t, FreeChunks(t, U, k.top) \cup {p})
  <2> DEFINE F == FreeChunks(t, U, k.top)
  <2>1. BinsOK(k.bins, 0, 0, t, F) /\ p \notin F /\ p # 0 /\ z = t[p]
    BY <1>7 DEF Joined2, Layout
  <2> HIDE DEF F
  <2>2. BinsOK(k.bins, p, z, t, F \cup {p})
    BY <2>1, SetDv
  <2>3. QED
    BY <2>2 DEF F
<1>9. Only(i, k, {"dv", "dvsize"}) /\ i.dv = p /\ i.dvsize = z /\ IsState(k) /\ IsState(i)
  BY <1>1, WithDv DEF WellFormed, Only
<1>10. JoinDv(k, p, s) = n
  BY DEF JoinDv, DvSet, z
<1> HIDE DEF i
<1>11. /\ i.head = k.head /\ i.foot = k.foot /\ i.bins = k.bins /\ i.top = k.top
       /\ i.topsize = k.topsize /\ Only(i, k, ChunkFields)
  BY <1>9, FieldsOf
<1>12. n.head = j.head /\ n.foot = j.foot /\ Only(n, i, {"head", "foot"})
  BY <1>9, <1>11, FreeWritesThrough
<1> HIDE DEF n
<1>13. /\ n.bins = k.bins /\ n.dv = p /\ n.dvsize = z /\ n.top = k.top /\ n.topsize = k.topsize
       /\ Only(n, i, ChunkFields)
  BY <1>9, <1>11, <1>12, FieldsOf
<1>14. Only(n, k, ChunkFields)
  BY <1>11, <1>13, OnlyTransitive
<1> HIDE DEF j
<1>15. Released(n, h, lo, e, sz, U \ {p})
  BY <1>7, <1>8, <1>12, <1>13, <1>14, JoinedReleases DEF j
<1>16. QED
  BY <1>10, <1>15

DvsizeSet(k, s) == [k EXCEPT !.dvsize = s]

LEMMA WithDvsize ==
  ASSUME NEW k, IsState(k), NEW s
  PROVE  LET n == DvsizeSet(k, s)
         IN  Only(n, k, {"dv", "dvsize"}) /\ n.dv = k.dv /\ n.dvsize = s
<1> QED BY DEF IsState, Only, FieldNames, DvsizeSet

(* The chunk behind is in its bin. *)
LEMMA JoinNextReleases ==
  ASSUME NEW k, NEW h, NEW p, NEW s, NEW next, NEW lo, NEW e, NEW sz, NEW U,
         Hole(k, h, p, s, next, lo, e, sz, U), next \in FreeChunks(sz, U, k.top), next # k.dv
  PROVE  Released(JoinNext(k, p, s, next), h, lo, e, sz, U \ {p})
<1> DEFINE x == sz[next]
           z == s + x
           t == JoinChunks(sz, p)
           q == next + x
           b == Take(k.bins, next, x)
           c == DvBut(k, p)
           d == DvSizeBut(k, p)
           u == unlink_chunk(k, next, x)
           j == set_size_and_pinuse_of_free_chunk(k, p, z)
           i == set_size_and_pinuse_of_free_chunk(u, p, z)
           n == IF p = k.dv THEN DvsizeSet(i, z) ELSE insert_chunk(i, p, z)
           F == FreeChunks(t, U, k.top)
<1>1. /\ WellFormed(k) /\ p \in DOMAIN sz /\ p # k.top /\ next = p + s /\ s = sz[p]
      /\ Layout(k.head, k.foot, k.bins, c, d, lo, e, k.top, sz, U, p)
      /\ k.dv = p => next \notin U
  BY DEF Hole
<1>2. next # p /\ next \in DOMAIN sz /\ s \in Nat /\ x \in Nat /\ chunksize(k, next) = x
  BY HoleFacts
<1>3. c # next
  <2>1. next # 0
    BY <1>1 DEF Layout, BinsOK
  <2>2. QED
    BY <2>1 DEF DvBut
<1> HIDE DEF c, d
<1>4. /\ Binned(k.bins, next, x)
      /\ Layout(k.head, k.foot, b, c, d, lo, e, k.top, t, U, p)
  BY <1>1, <1>2, <1>3, LayoutMergeBinned
<1>5. u = BinsSet(k, b)
  BY <1>4 DEF unlink_chunk, Binned, BinsSet
<1> HIDE DEF t, b
<1>6. Joined2(k, h, b, c, d, p, z, q, lo, e, t, sz, U)
  BY <1>4, JoinedHole DEF t
<1>7. IsState(k)
  BY <1>1 DEF WellFormed
<1>8. Only(u, k, {"bins"}) /\ u.bins = b /\ IsState(u)
  <2> HIDE DEF u
  <2>1. Only(u, k, {"bins"}) /\ u.bins = b
    BY <1>5, <1>7, WithBins
  <2>2. QED
    BY <2>1 DEF Only
<1> HIDE DEF u
<1>9. /\ u.head = k.head /\ u.foot = k.foot /\ u.dv = k.dv /\ u.dvsize = k.dvsize
      /\ u.top = k.top /\ u.topsize = k.topsize /\ Only(u, k, ChunkFields)
  BY <1>7, <1>8, FieldsOf
<1> HIDE DEF z
<1>10. i.head = j.head /\ i.foot = j.foot /\ Only(i, u, {"head", "foot"})
  BY <1>7, <1>8, <1>9, FreeWritesThrough
<1>11. JoinNext(k, p, s, next) = n
  BY <1>2, <1>9, <1>10, <1>8, FieldsOf DEF JoinNext, DvsizeSet, u, z
<1> HIDE DEF i
<1>12. /\ i.bins = b /\ i.dv = k.dv /\ i.dvsize = k.dvsize /\ i.top = k.top /\ i.topsize = k.topsize
       /\ Only(i, u, ChunkFields) /\ IsState(i)
  BY <1>8, <1>9, <1>10, FieldsOf DEF Only
<1>13. Only(i, k, ChunkFields)
  BY <1>9, <1>12, OnlyTransitive
<1>14. /\ BinsOK(b, c, d, t, F) /\ p \notin F /\ p # 0 /\ z = t[p]
  BY <1>6 DEF Joined2, Layout
<1> HIDE DEF F
<1>15. CASE p = k.dv
  <2>1. c = 0 /\ d = 0
    BY <1>15 DEF c, d, DvBut, DvSizeBut
  <2>2. BinsOK(b, p, z, t, F \cup {p})
    BY <1>14, <2>1, SetDv
  <2> DEFINE n1 == DvsizeSet(i, z)
  <2>3. Only(n1, i, {"dv", "dvsize"}) /\ n1.dv = p /\ n1.dvsize = z
    BY <1>12, <1>15, WithDvsize
  <2> HIDE DEF n1
  <2>4. /\ n1.head = j.head /\ n1.foot = j.foot /\ n1.bins = b /\ n1.top = k.top
        /\ n1.topsize = k.topsize /\ Only(n1, i, ChunkFields)
    BY <1>10, <1>12, <2>3, FieldsOf
  <2>5. Only(n1, k, ChunkFields)
    BY <1>13, <2>4, OnlyTransitive
  <2> HIDE DEF j
  <2>6. Released(n1, h, lo, e, sz, U \ {p})
    BY <1>6, <2>2, <2>3, <2>4, <2>5, JoinedReleases DEF j, F
  <2>7. QED
    BY <1>11, <1>15, <2>6 DEF n1
<1>16. CASE p # k.dv
  <2>1. c = k.dv /\ d = k.dvsize
    BY <1>16 DEF c, d, DvBut, DvSizeBut
  <2> DEFINE b2 == Put(b, p, z)
  <2>2. BinsOK(b2, k.dv, k.dvsize, t, F \cup {p})
    BY <1>14, <2>1, PutBins
  <2> DEFINE n1 == insert_chunk(i, p, z)
  <2>3. Only(n1, i, {"bins"}) /\ n1.bins = b2
    BY <1>12, InsertIs
  <2> HIDE DEF n1, b2
  <2>4. /\ n1.head = j.head /\ n1.foot = j.foot /\ n1.top = k.top /\ n1.dv = k.dv
        /\ n1.dvsize = k.dvsize /\ n1.topsize = k.topsize /\ Only(n1, i, ChunkFields)
    BY <1>10, <1>12, <2>3, FieldsOf
  <2>5. Only(n1, k, ChunkFields)
    BY <1>13, <2>4, OnlyTransitive
  <2> HIDE DEF j
  <2>6. Released(n1, h, lo, e, sz, U \ {p})
    BY <1>6, <2>2, <2>3, <2>4, <2>5, JoinedReleases DEF j, F
  <2>7. QED
    BY <1>11, <1>16, <2>6 DEF n1
<1>17. QED
  BY <1>15, <1>16

LEMMA ForwardReleases ==
  ASSUME NEW k, NEW h, NEW p, NEW s, NEW next, NEW lo, NEW e, NEW sz, NEW U,
         Hole(k, h, p, s, next, lo, e, sz, U)
  PROVE  Released(ConsolidateForward(k, p, s, next), h, lo, e, sz, U \ {p})
<1>1. next \in DOMAIN sz /\ (cinuse(k, next) <=> next \in U)
  BY HoleFacts
<1>2. CASE next \in U
  BY <1>1, <1>2, InsertReleases DEF ConsolidateForward
<1>3. CASE next \notin U /\ next = k.top
  BY <1>1, <1>3, JoinTopReleases DEF ConsolidateForward
<1>4. CASE next \notin U /\ next # k.top
  <2>1. next \in FreeChunks(sz, U, k.top)
    BY <1>1, <1>4 DEF FreeChunks
  <2>2. CASE next = k.dv
    BY <1>1, <1>4, <2>1, <2>2, JoinDvReleases DEF ConsolidateForward
  <2>3. CASE next # k.dv
    BY <1>1, <1>4, <2>1, <2>3, JoinNextReleases DEF ConsolidateForward
  <2>4. QED
    BY <2>2, <2>3
<1>5. QED
  BY <1>2, <1>3, <1>4

(* The chunk at p, which is in use, and the chunk behind it.               *)
LEMMA UsedFacts ==
  ASSUME NEW h, NEW lo, NEW e, NEW sz, NEW U, HeapOf(h, lo, e, sz, U), NEW p \in U,
         NEW s, s = sz[p], NEW next, next = p + s
  PROVE  /\ p \in DOMAIN sz /\ p \in Nat /\ p >= lo /\ p # h.top /\ p # e /\ p % 8 = 0
         /\ s \in Nat /\ s >= 16 /\ s % 8 = 0 /\ next \in Nat /\ next \in DOMAIN sz /\ next # p
         /\ next + sz[next] <= e /\ sz[next] \in Nat /\ next # e
         /\ chunksize(h, p) = s /\ cinuse(h, p) /\ (pinuse(h, p) <=> PredUsed(lo, sz, U, p))
         /\ chunksize(h, next) = sz[next] /\ pinuse(h, next) /\ (cinuse(h, next) <=> next \in U)
         /\ p # h.dv \/ p = 0
<1>1. Layout(h.head, h.foot, h.bins, h.dv, h.dvsize, lo, e, h.top, sz, U, e) /\ WellFormed(h)
  BY DEF HeapOf
<1>2. p \in DOMAIN sz /\ p # h.top
  BY <1>1, LayoutHole
<1>3. /\ p \in Nat /\ p >= lo /\ p # e /\ p % 8 = 0 /\ s \in Nat /\ s >= 16 /\ s % 8 = 0
      /\ next \in DOMAIN sz /\ next # p
      /\ p \in DOMAIN h.head /\ h.head[p].size = s /\ h.head[p].cinuse
      /\ h.head[p].pinuse <=> PredUsed(lo, sz, U, p)
      /\ next \in DOMAIN h.head /\ h.head[next].pinuse
  BY <1>1, <1>2, ChunkFacts
<1>4. /\ next \in Nat /\ next + sz[next] <= e /\ sz[next] \in Nat /\ next # e
      /\ h.head[next].size = sz[next] /\ (h.head[next].cinuse <=> next \in U)
  BY <1>1, <1>3, ChunkFacts
<1>5. HeadAt(h, p) = h.head[p] /\ HeadAt(h, next) = h.head[next]
  BY <1>1, <1>3, HeadAtType
<1>6. p # h.dv \/ p = 0
  BY <1>1 DEF Layout, BinsOK, FreeChunks
<1>7. QED
  BY <1>2, <1>3, <1>4, <1>5, <1>6 DEF chunksize, cinuse, pinuse

(* The chunk in front of it is free, and joins.                            *)
PrevJoined(h, prev, z, next, lo, e, sz, U, p, t, V) ==
  /\ prev \in DOMAIN t /\ prev # 0 /\ prev \in Nat /\ z = t[prev] /\ z \in Nat /\ z >= 16
  /\ next = prev + z /\ PredUsed(lo, t, V, prev) /\ prev # h.top /\ h.topsize = t[h.top]
  /\ Keeps(t, sz, U \ {p}) /\ V \ {prev} = U \ {p} /\ prev \in V
  /\ next \in V <=> next \in U

JoinedTo(t, sz, p, n) ==
  /\ DOMAIN t = DOMAIN sz \ {n} /\ t[p] = sz[p] + sz[n] /\ p \in DOMAIN t
  /\ \A c \in DOMAIN sz : c # p /\ c # n => t[c] = sz[c]

LEMMA JoinedWith ==
  ASSUME NEW lo, NEW e, NEW sz, Tiling(lo, e, sz), NEW prev \in DOMAIN sz, NEW p \in DOMAIN sz,
         prev + sz[prev] = p, NEW U, U \subseteq DOMAIN sz, p \in U, prev \notin U,
         PredUsed(lo, sz, U, prev), NEW t, t = JoinChunks(sz, prev)
  PROVE  /\ prev \in DOMAIN t /\ t[prev] = sz[prev] + sz[p] /\ Keeps(t, sz, U \ {p})
         /\ PredUsed(lo, t, U \ {p}, prev)
         /\ \A c \in DOMAIN sz : c # prev /\ c # p => t[c] = sz[c]
<1>1. /\ prev \in DOMAIN t /\ t[prev] = sz[prev] + sz[p]
      /\ \A c \in DOMAIN sz : c # prev /\ c # p => t[c] = sz[c]
  <2>1. JoinedTo(JoinChunks(sz, prev), sz, prev, p)
    BY JoinedSizes DEF JoinedTo
  <2>2. QED
    BY <2>1 DEF JoinedTo
<1>2. Keeps(t, sz, U \ {p})
  BY <1>1 DEF Keeps
<1>3. PredUsed(lo, t, U \ {p}, prev)
  <2>1. CASE prev = lo
    BY <2>1 DEF PredUsed
  <2>2. CASE prev # lo
    <3>1. PICK d \in U : d + sz[d] = prev
      BY <2>2 DEF PredUsed
    <3>2. d # p
      BY <3>1, TilingArith
    <3>3. t[d] = sz[d]
      BY <1>1, <3>2
    <3>4. QED
      BY <3>1, <3>2, <3>3 DEF PredUsed
  <2>3. QED
    BY <2>1, <2>2
<1>4. QED
  BY <1>1, <1>2, <1>3

LEMMA PrevJoins ==
  ASSUME NEW h, NEW lo, NEW e, NEW sz, NEW U, HeapOf(h, lo, e, sz, U), NEW p \in U,
         NEW prev \in FreeChunks(sz, U, h.top), NEW f, f = sz[prev], prev + f = p,
         PredUsed(lo, sz, U, prev), NEW s, s = sz[p], NEW next, next = p + s, NEW z, z = s + f,
         NEW t, t = JoinChunks(sz, prev), NEW V, V = (U \ {p}) \cup {prev}
  PROVE  PrevJoined(h, prev, z, next, lo, e, sz, U, p, t, V)
<1>1. /\ prev \in DOMAIN sz /\ prev \notin U /\ prev # h.top /\ prev \in Nat /\ f \in Nat /\ f >= 16
  BY FreeFacts DEF FreeChunks
<1>2. /\ p \in DOMAIN sz /\ p \in Nat /\ p # h.top /\ s \in Nat /\ s >= 16 /\ next \in Nat /\ next # p
  BY UsedFacts
<1>3. Tiling(lo, e, sz) /\ h.top \in DOMAIN sz /\ U \subseteq DOMAIN sz /\ h.topsize = sz[h.top]
      /\ prev # 0
  <2>1. Layout(h.head, h.foot, h.bins, h.dv, h.dvsize, lo, e, h.top, sz, U, e)
        /\ h.topsize = sz[h.top]
    BY DEF HeapOf
  <2>2. h.top \in DOMAIN sz /\ U \subseteq DOMAIN sz
    BY <2>1, LayoutHole
  <2>3. Tiling(lo, e, sz) /\ prev # 0
    BY <2>1 DEF Layout, BinsOK
  <2>4. QED
    BY <2>1, <2>2, <2>3
<1>6. /\ prev \in DOMAIN t /\ t[prev] = sz[prev] + sz[p]
      /\ Keeps(t, sz, U \ {p}) /\ PredUsed(lo, t, U \ {p}, prev)
      /\ \A c \in DOMAIN sz : c # prev /\ c # p => t[c] = sz[c]
  <2>1. prev + sz[prev] = p
    OBVIOUS
  <2>2. QED
    BY <1>1, <1>2, <1>3, <2>1, JoinedWith
<1>8. Keeps(t, sz, U \ {p})
  BY <1>6
<1>9. PredUsed(lo, t, V, prev)
  BY <1>6 DEF PredUsed
<1>10. t[h.top] = sz[h.top]
  BY <1>1, <1>2, <1>3, <1>6
<1>11. V \ {prev} = U \ {p} /\ prev \in V
  BY <1>1
<1>12. z = t[prev] /\ z \in Nat /\ z >= 16 /\ next = prev + z
  BY <1>1, <1>2, <1>6
<1>13. next # prev
  BY <1>1, <1>2
<1>14. next \in V <=> next \in U
  BY <1>2, <1>13
<1>15. QED
  BY <1>1, <1>3, <1>6, <1>8, <1>9, <1>10, <1>11, <1>12, <1>14 DEF PrevJoined

BackOutcome(b, h, p, next, lo, e, sz, U) ==
  IF b.done THEN Released(b.m, h, lo, e, sz, U \ {p})
  ELSE /\ b.p < next /\ pinuse(b.m, next)
       /\ \E t, V : /\ Hole(b.m, h, b.p, b.psize, next, lo, e, t, V)
                    /\ V \ {b.p} = U \ {p} /\ Keeps(t, sz, U \ {p})

Back(m1, p1, psize1, done1) == [m |-> m1, p |-> p1, psize |-> psize1, done |-> done1]

LEMMA NothingInFront ==
  ASSUME NEW h, NEW lo, NEW e, NEW sz, NEW U, HeapOf(h, lo, e, sz, U), NEW p \in U, p # 0,
         NEW s, s = sz[p], NEW next, next = p + s, pinuse(h, p)
  PROVE  /\ p < next /\ pinuse(h, next)
         /\ Hole(h, h, p, s, next, lo, e, sz, U)
<1>1. /\ p \in DOMAIN sz /\ p \in Nat /\ p # h.top /\ s \in Nat /\ s >= 16
      /\ pinuse(h, next) /\ PredUsed(lo, sz, U, p) /\ p # h.dv
  BY UsedFacts
<1>2. Layout(h.head, h.foot, h.bins, h.dv, h.dvsize, lo, e, h.top, sz, U, p)
  BY LayoutOpenUsed DEF HeapOf
<1>3. DvBut(h, p) = h.dv /\ DvSizeBut(h, p) = h.dvsize
  BY <1>1 DEF DvBut, DvSizeBut
<1>4. WellFormed(h) /\ Only(h, h, ChunkFields) /\ h.topsize = sz[h.top]
  BY DEF HeapOf, WellFormed, Only
<1>5. Hole(h, h, p, s, next, lo, e, sz, U)
  BY <1>1, <1>2, <1>3, <1>4 DEF Hole
<1>6. QED
  BY <1>1, <1>5

LEMMA BinnedInFront ==
  ASSUME NEW h, NEW lo, NEW e, NEW sz, NEW U, HeapOf(h, lo, e, sz, U), NEW p \in U,
         NEW prev \in FreeChunks(sz, U, h.top), NEW f, f = sz[prev], prev + f = p,
         PredUsed(lo, sz, U, prev), NEW s, s = sz[p], NEW next, next = p + s, NEW z, z = s + f,
         prev # h.dv, NEW t, t = JoinChunks(sz, prev), NEW V, V = (U \ {p}) \cup {prev},
         NEW k, k = unlink_chunk(h, prev, f)
  PROVE  /\ pinuse(k, next)
         /\ Hole(k, h, prev, z, next, lo, e, t, V)
<1> DEFINE b == Take(h.bins, prev, f)
<1>1. /\ p \in DOMAIN sz /\ p # h.top /\ pinuse(h, next)
  BY UsedFacts
<1>2. PrevJoined(h, prev, z, next, lo, e, sz, U, p, t, V)
  BY PrevJoins
<1>3. Layout(h.head, h.foot, h.bins, h.dv, h.dvsize, lo, e, h.top, sz, U, p)
  BY LayoutOpenUsed DEF HeapOf
<1>4. /\ Binned(h.bins, prev, f)
      /\ Layout(h.head, h.foot, b, h.dv, h.dvsize, lo, e, h.top, t, V, prev)
  BY <1>1, <1>3, LayoutPrevBinned
<1>5. k = BinsSet(h, b)
  BY <1>4 DEF unlink_chunk, Binned, BinsSet
<1>6. WellFormed(h) /\ IsState(h)
  BY DEF HeapOf, WellFormed
<1> HIDE DEF b
<1>7. Only(k, h, {"bins"}) /\ k.bins = b
  BY <1>5, <1>6, WithBins
<1>8. /\ WellFormed(k) /\ Only(k, h, ChunkFields) /\ k.head = h.head /\ k.foot = h.foot
      /\ k.dv = h.dv /\ k.dvsize = h.dvsize /\ k.top = h.top /\ k.topsize = h.topsize
      /\ k.junk = h.junk
  BY <1>6, <1>7, FieldsOf, WellFormedIs DEF Only
<1>9. DvBut(k, prev) = h.dv /\ DvSizeBut(k, prev) = h.dvsize
  BY <1>8 DEF DvBut, DvSizeBut
<1>10. Hole(k, h, prev, z, next, lo, e, t, V)
  BY <1>2, <1>4, <1>7, <1>8, <1>9 DEF Hole, PrevJoined
<1>11. pinuse(k, next)
  BY <1>1, <1>8 DEF pinuse, HeadAt
<1>12. QED
  BY <1>10, <1>11

(* A dv that a used chunk follows grows. *)
LEMMA DvGrows ==
  ASSUME NEW h, WellFormed(h), NEW prev, NEW z, NEW next, NEW lo, NEW e, NEW sz, NEW U, NEW p, NEW t,
         NEW V, PrevJoined(h, prev, z, next, lo, e, sz, U, p, t, V), prev = h.dv, next \in U,
         Layout(h.head, h.foot, h.bins, 0, 0, lo, e, h.top, t, V, prev)
  PROVE  Released(set_free_with_pinuse(DvsizeSet(h, z), prev, z, next), h, lo, e, sz, U \ {p})
<1> DEFINE k == DvsizeSet(h, z)
           n == set_free_with_pinuse(k, prev, z, next)
           F == FreeChunks(t, V, h.top)
<1>1. Only(k, h, {"dv", "dvsize"}) /\ k.dv = prev /\ k.dvsize = z
  <2>1. IsState(h)
    BY DEF WellFormed
  <2>2. QED
    BY <2>1, WithDvsize
<1> HIDE DEF k
<1>2. /\ WellFormed(k) /\ Only(k, h, ChunkFields) /\ k.head = h.head /\ k.foot = h.foot
      /\ k.bins = h.bins /\ k.top = h.top /\ k.topsize = h.topsize
  <2>1. IsState(h)
    BY DEF WellFormed
  <2>2. QED
    BY <1>1, <2>1, FieldsOf, WellFormedIs DEF Only
<1>3. BinsOK(h.bins, prev, z, t, F \cup {prev})
  <2>1. BinsOK(h.bins, 0, 0, t, F)
    BY DEF Layout
  <2>2. prev \notin F /\ prev # 0 /\ z = t[prev]
    BY DEF FreeChunks, PrevJoined
  <2> HIDE DEF F
  <2>3. QED
    BY <2>1, <2>2, SetDv
<1>4. /\ prev \in DOMAIN t /\ prev # h.top /\ z = t[prev] /\ z >= 16 /\ PredUsed(lo, t, V, prev)
      /\ next = prev + z /\ next \in V /\ V \ {prev} = U \ {p} /\ Keeps(t, sz, U \ {p})
      /\ h.topsize = t[h.top]
  BY DEF PrevJoined
<1> HIDE DEF F
<1>5. FreeIs(n, k, h.bins, prev, z, lo, e, h.top, t, V \ {prev})
  <2>1. Layout(k.head, k.foot, h.bins, 0, 0, lo, e, h.top, t, V, prev) /\ WellFormed(k)
    BY <1>2
  <2>2. BinsOK(h.bins, prev, z, t, FreeChunks(t, V, h.top) \cup {prev})
    BY <1>3 DEF F
  <2>3. QED
    BY <1>4, <2>1, <2>2, FreeHoleClearing
<1> HIDE DEF n
<1>6. /\ n.bins = h.bins /\ n.dv = prev /\ n.dvsize = z /\ n.top = h.top /\ n.topsize = h.topsize
      /\ Only(n, k, ChunkFields) /\ WellFormed(n)
  <2>1. IsState(k) /\ Only(n, k, {"head", "foot"}) /\ WellFormed(n)
    BY <1>2, <1>5 DEF FreeIs, WellFormed
  <2>2. QED
    BY <1>1, <1>2, <2>1, FieldsOf
<1>7. Only(n, h, ChunkFields)
  BY <1>2, <1>6, OnlyTransitive
<1>8. Layout(n.head, n.foot, n.bins, n.dv, n.dvsize, lo, e, n.top, t, U \ {p}, e)
  BY <1>4, <1>5, <1>6 DEF FreeIs
<1>9. Freed(n, h, lo, e, t, U \ {p})
  BY <1>4, <1>6, <1>7, <1>8 DEF Freed, HeapOf
<1>10. QED
  BY <1>4, <1>9 DEF Released, n, k

LEMMA DvInFront ==
  ASSUME NEW h, NEW lo, NEW e, NEW sz, NEW U, HeapOf(h, lo, e, sz, U), NEW p \in U,
         NEW prev \in FreeChunks(sz, U, h.top), NEW f, f = sz[prev], prev + f = p,
         PredUsed(lo, sz, U, prev), NEW s, s = sz[p], NEW next, next = p + s, NEW z, z = s + f,
         prev = h.dv, NEW t, t = JoinChunks(sz, prev), NEW V, V = (U \ {p}) \cup {prev}
  PROVE  /\ next \notin U => Hole(h, h, prev, z, next, lo, e, t, V)
         /\ next \in U =>
              Released(set_free_with_pinuse(DvsizeSet(h, z), prev, z, next), h, lo, e, sz, U \ {p})
<1>1. /\ p \in DOMAIN sz /\ p # h.top /\ next # p
  BY UsedFacts
<1>2. PrevJoined(h, prev, z, next, lo, e, sz, U, p, t, V)
  BY PrevJoins
<1>3. Layout(h.head, h.foot, h.bins, h.dv, h.dvsize, lo, e, h.top, sz, U, p)
  BY LayoutOpenUsed DEF HeapOf
<1>4. Layout(h.head, h.foot, h.bins, 0, 0, lo, e, h.top, t, V, prev)
  BY <1>1, <1>3, LayoutPrevDv
<1>5. WellFormed(h) /\ IsState(h) /\ Only(h, h, ChunkFields)
  BY DEF HeapOf, WellFormed, Only
<1>6. ASSUME next \notin U PROVE Hole(h, h, prev, z, next, lo, e, t, V)
  <2>1. DvBut(h, prev) = 0 /\ DvSizeBut(h, prev) = 0
    BY DEF DvBut, DvSizeBut
  <2>2. QED
    BY <1>2, <1>4, <1>5, <1>6, <2>1 DEF Hole, PrevJoined
<1>7. ASSUME next \in U
      PROVE  Released(set_free_with_pinuse(DvsizeSet(h, z), prev, z, next), h, lo, e, sz, U \ {p})
  BY <1>2, <1>4, <1>5, <1>7, DvGrows
<1>8. QED
  BY <1>6, <1>7

LEMMA BackwardOutcome ==
  ASSUME NEW h, NEW lo, NEW e, NEW sz, NEW U, HeapOf(h, lo, e, sz, U), NEW p \in U, p # 0,
         NEW s, s = sz[p], NEW next, next = p + s, h.base \in Nat, h.base <= lo
  PROVE  BackOutcome(ConsolidateBackward(h, p, s, next), h, p, next, lo, e, sz, U)
<1>1. /\ p \in DOMAIN sz /\ p \in Nat /\ s \in Nat /\ next \in Nat /\ s >= 16
      /\ pinuse(h, next) /\ (cinuse(h, next) <=> next \in U) /\ lo \in Nat
  <2>1. /\ p \in DOMAIN sz /\ p \in Nat /\ s \in Nat /\ next \in Nat /\ s >= 16
        /\ pinuse(h, next) /\ (cinuse(h, next) <=> next \in U)
    BY UsedFacts
  <2>2. Tiling(lo, e, sz)
    BY DEF HeapOf, Layout
  <2>3. QED
    BY <2>1, <2>2, TilingArith
<1>2. CASE pinuse(h, p)
  <2> DEFINE b == Back(h, p, s, FALSE)
  <2>1. ConsolidateBackward(h, p, s, next) = b
    BY <1>2 DEF ConsolidateBackward, Back
  <2>2. b.m = h /\ b.p = p /\ b.psize = s /\ ~b.done
    BY DEF Back
  <2> HIDE DEF b
  <2>3. p < next /\ pinuse(h, next) /\ Hole(h, h, p, s, next, lo, e, sz, U)
    BY <1>2, NothingInFront
  <2>4. Keeps(sz, sz, U \ {p})
    BY DEF Keeps
  <2>5. BackOutcome(b, h, p, next, lo, e, sz, U)
    BY <2>2, <2>3, <2>4 DEF BackOutcome
  <2>6. QED
    BY <2>1, <2>5
<1>3. CASE ~pinuse(h, p)
  <2> DEFINE f == prev_foot(h, p)
             prev == p - f
             z == s + f
             t == JoinChunks(sz, prev)
             V == (U \ {p}) \cup {prev}
  <2>1. /\ p \in DOMAIN h.foot /\ f = h.foot[p] /\ f \in Nat /\ prev \in FreeChunks(sz, U, h.top)
        /\ f = sz[prev] /\ PredUsed(lo, sz, U, prev)
    <3>1. Layout(h.head, h.foot, h.bins, h.dv, h.dvsize, lo, e, h.top, sz, U, e)
      BY DEF HeapOf
    <3>2. p \in DOMAIN h.head /\ ~h.head[p].pinuse
      BY <1>1, <1>3, <3>1, ChunkFacts DEF pinuse, HeadAt
    <3>3. /\ p \in DOMAIN h.foot /\ h.foot[p] \in Nat /\ p - h.foot[p] \in FreeChunks(sz, U, h.top)
          /\ sz[p - h.foot[p]] = h.foot[p]
          /\ PredUsed(lo, sz, U, p - h.foot[p])
      BY <1>1, <3>1, <3>2, PredFree
    <3>4. f = h.foot[p]
      BY <3>3 DEF prev_foot
    <3>5. QED
      BY <3>3, <3>4
  <2>2. prev \in Nat /\ prev >= lo /\ f >= 16 /\ prev + f = p
    <3>1. prev \in DOMAIN sz
      BY <2>1 DEF FreeChunks
    <3>2. prev \in Nat /\ prev >= lo
      BY <3>1, ChunkFacts DEF HeapOf
    <3>3. sz[prev] >= 16
      BY <2>1, FreeFacts
    <3>4. QED
      BY <1>1, <2>1, <3>2, <3>3
  <2>3. ok_address(h, prev)
    BY <1>1, <2>2 DEF ok_address
  <2> HIDE DEF f, prev
  <2> DEFINE z1 == s + f
  <2>4. ConsolidateBackward(h, p, s, next) =
          IF prev # h.dv THEN Back(unlink_chunk(h, prev, f), prev, z, FALSE)
          ELSE IF next \in U THEN Back(set_free_with_pinuse(DvsizeSet(h, z), prev, z, next), prev, z, TRUE)
          ELSE Back(h, prev, z, FALSE)
    BY <1>1, <1>3, <2>3 DEF ConsolidateBackward, Back, DvsizeSet, f, prev
  <2> HIDE DEF z, t, V
  <2>5. PrevJoined(h, prev, z, next, lo, e, sz, U, p, t, V)
    BY <2>1, <2>2, PrevJoins DEF z, t, V
  <2>6. prev < next /\ Keeps(t, sz, U \ {p}) /\ V \ {prev} = U \ {p}
    BY <1>1, <2>2, <2>5 DEF PrevJoined
  <2>7. CASE prev # h.dv
    <3> DEFINE k == unlink_chunk(h, prev, f)
               b == Back(k, prev, z, FALSE)
    <3>1. pinuse(k, next) /\ Hole(k, h, prev, z, next, lo, e, t, V)
      BY <2>1, <2>2, <2>7, BinnedInFront DEF z, t, V
    <3> HIDE DEF k
    <3>2. b.m = k /\ b.p = prev /\ b.psize = z /\ ~b.done
      BY DEF Back
    <3> HIDE DEF b
    <3>3. BackOutcome(b, h, p, next, lo, e, sz, U)
      BY <2>6, <3>1, <3>2 DEF BackOutcome
    <3>4. QED
      BY <2>4, <2>7, <3>3 DEF b, k
  <2>8. CASE prev = h.dv /\ next \in U
    <3> DEFINE k == set_free_with_pinuse(DvsizeSet(h, z), prev, z, next)
               b == Back(k, prev, z, TRUE)
    <3>1. Released(k, h, lo, e, sz, U \ {p})
      BY <2>1, <2>2, <2>8, DvInFront DEF z, t, V
    <3> HIDE DEF k
    <3>2. b.m = k /\ b.done
      BY DEF Back
    <3> HIDE DEF b
    <3>3. BackOutcome(b, h, p, next, lo, e, sz, U)
      BY <3>1, <3>2 DEF BackOutcome
    <3>4. QED
      BY <2>4, <2>8, <3>3 DEF b, k
  <2>9. CASE prev = h.dv /\ next \notin U
    <3> DEFINE b == Back(h, prev, z, FALSE)
    <3>1. Hole(h, h, prev, z, next, lo, e, t, V)
      BY <2>1, <2>2, <2>9, DvInFront DEF z, t, V
    <3>2. b.m = h /\ b.p = prev /\ b.psize = z /\ ~b.done
      BY DEF Back
    <3> HIDE DEF b
    <3>3. BackOutcome(b, h, p, next, lo, e, sz, U)
      BY <1>1, <2>6, <3>1, <3>2 DEF BackOutcome
    <3>4. QED
      BY <2>4, <2>9, <3>3 DEF b
  <2>10. QED
    BY <2>7, <2>8, <2>9
<1>4. QED
  BY <1>2, <1>3

LEMMA KeepsTransitive ==
  ASSUME NEW t, NEW u, NEW sz, NEW W, Keeps(t, u, W), Keeps(u, sz, W)
  PROVE  Keeps(t, sz, W)
<1> QED BY DEF Keeps

LEMMA HoleReleases ==
  ASSUME NEW b, NEW h, NEW p, NEW next, NEW lo, NEW e, NEW sz, NEW U,
         BackOutcome(b, h, p, next, lo, e, sz, U), ~b.done
  PROVE  Released(ConsolidateForward(b.m, b.p, b.psize, next), h, lo, e, sz, U \ {p})
<1> DEFINE n == ConsolidateForward(b.m, b.p, b.psize, next)
           k == b.m
           q == b.p
           s == b.psize
<1>1. PICK t, V : Hole(k, h, q, s, next, lo, e, t, V) /\ V \ {q} = U \ {p} /\ Keeps(t, sz, U \ {p})
  BY DEF BackOutcome
<1> HIDE DEF k, q, s
<1>2. Released(ConsolidateForward(k, q, s, next), h, lo, e, t, V \ {q})
  BY <1>1, ForwardReleases
<1>3. Released(n, h, lo, e, t, U \ {p})
  BY <1>1, <1>2 DEF k, q, s
<1> HIDE DEF n
<1>4. PICK u : Freed(n, h, lo, e, u, U \ {p}) /\ Keeps(u, t, U \ {p})
  BY <1>3 DEF Released
<1>5. Keeps(u, sz, U \ {p})
  BY <1>1, <1>4, KeepsTransitive
<1>6. QED
  BY <1>4, <1>5 DEF Released, n

LEMMA DisposeReleases ==
  ASSUME NEW h, NEW lo, NEW e, NEW sz, NEW U, HeapOf(h, lo, e, sz, U), NEW p \in U, p # 0,
         NEW s, s = sz[p], h.base \in Nat, h.base <= lo
  PROVE  Released(dispose_chunk(h, p, s), h, lo, e, sz, U \ {p})
<1> DEFINE next == p + s
           b == ConsolidateBackward(h, p, s, next)
<1>1. BackOutcome(b, h, p, next, lo, e, sz, U)
  BY BackwardOutcome
<1>2. ok_address(h, next)
  <2>1. p \in Nat /\ s \in Nat /\ p >= lo
    BY UsedFacts
  <2>2. lo \in Nat
    BY TilingArith DEF HeapOf, Layout
  <2>3. QED
    BY <2>1, <2>2 DEF ok_address
<1>3. dispose_chunk(h, p, s) = IF b.done THEN b.m ELSE ConsolidateForward(b.m, b.p, b.psize, next)
  <2> HIDE DEF b
  <2>1. QED
    BY <1>2 DEF dispose_chunk, b
<1> HIDE DEF b, next
<1>4. CASE b.done
  BY <1>1, <1>3, <1>4 DEF BackOutcome
<1>5. CASE ~b.done
  BY <1>1, <1>3, <1>5, HoleReleases
<1>6. QED
  BY <1>4, <1>5

LEMMA FreeReleases ==
  ASSUME NEW h, NEW lo, NEW e, NEW sz, NEW U, HeapOf(h, lo, e, sz, U), NEW p \in U, p # 0,
         NEW mem, mem = chunk2mem(p), h.base \in Nat, h.base <= lo
  PROVE  Released(dlfree(h, mem), h, lo, e, sz, U \ {p})
<1> DEFINE s == sz[p]
           next == p + s
           b == ConsolidateBackward(h, p, s, next)
<1>1. BackOutcome(b, h, p, next, lo, e, sz, U)
  BY BackwardOutcome
<1>2. p \in Nat /\ s \in Nat /\ p >= lo /\ chunksize(h, p) = s /\ cinuse(h, p)
  BY UsedFacts
<1>3. ok_address(h, p)
  <2>1. lo \in Nat
    BY TilingArith DEF HeapOf, Layout
  <2>2. QED
    BY <1>2, <2>1 DEF ok_address
<1>4. mem2chunk(mem) = p /\ mem # 0 /\ next_chunk(h, p) = next
  BY <1>2 DEF mem2chunk, chunk2mem, TWO_SIZE_T_SIZES, next_chunk
<1>5. dlfree(h, mem) = IF b.done THEN b.m
                       ELSE IF ok_next(b.p, next) /\ pinuse(b.m, next)
                       THEN ConsolidateForward(b.m, b.p, b.psize, next)
                       ELSE Corrupted(b.m)
  <2>1. is_inuse(h, p)
    BY <1>2 DEF is_inuse
  <2> HIDE DEF b, s, next
  <2>2. QED
    BY <1>2, <1>3, <1>4, <2>1 DEF dlfree, b
<1> HIDE DEF b, next, s
<1>6. CASE b.done
  BY <1>1, <1>5, <1>6 DEF BackOutcome
<1>7. CASE ~b.done
  <2>1. ok_next(b.p, next) /\ pinuse(b.m, next)
    BY <1>1, <1>7 DEF BackOutcome, ok_next
  <2>2. dlfree(h, mem) = ConsolidateForward(b.m, b.p, b.psize, next)
    BY <1>5, <1>7, <2>1
  <2>3. QED
    BY <1>1, <1>7, <2>2, HoleReleases
<1>8. QED
  BY <1>6, <1>7

-----------------------------------------------------------------------------
(* What is left of the heap, with all that W has. *)
Gives(h, n, sz, W) ==
  /\ Only(n, h, ChunkFields) /\ Params(n)
  /\ \E t : Heap(n, t, W) /\ Keeps(t, sz, W)

LEMMA ReleasedGives ==
  ASSUME NEW h, NEW n, NEW sz, NEW W, Params(h), Segment(h),
         Released(n, h, Lo(h), End(h), sz, W)
  PROVE  Gives(h, n, sz, W)
<1>1. PICK t : Freed(n, h, Lo(h), End(h), t, W) /\ Keeps(t, sz, W)
  BY DEF Released
<1>2. Only(n, h, ChunkFields) /\ HeapOf(n, Lo(h), End(h), t, W)
  BY <1>1 DEF Freed
<1>3. Params(n) /\ Segment(n) /\ Lo(n) = Lo(h) /\ End(n) = End(h)
  BY <1>2, ChunksOnly
<1>4. Heap(n, t, W)
  BY <1>2, <1>3 DEF Heap
<1>5. QED
  BY <1>1, <1>2, <1>3, <1>4 DEF Gives

LEMMA UsedPlace ==
  ASSUME NEW h, NEW sz, NEW U, Params(h), Heap(h, sz, U), NEW p \in U
  PROVE  /\ p # 0 /\ h.base \in Nat /\ h.base <= Lo(h) /\ HeapOf(h, Lo(h), End(h), sz, U)
         /\ Segment(h) /\ p \in Nat /\ p % 8 = 0
<1>1. h.base \in Nat \ {0} /\ HeapOf(h, Lo(h), End(h), sz, U) /\ Segment(h)
  BY DEF Heap, Segment
<1>2. h.base <= Lo(h) /\ Lo(h) \in Nat
  BY HeapFacts
<1>3. p \in Nat /\ p >= Lo(h) /\ p % 8 = 0
  BY <1>1, UsedFacts
<1>4. QED
  BY <1>1, <1>2, <1>3

LEMMA DisposeGives ==
  ASSUME NEW h, NEW sz, NEW U, Params(h), Heap(h, sz, U), NEW p \in U, NEW s, s = sz[p]
  PROVE  Gives(h, dispose_chunk(h, p, s), sz, U \ {p})
<1> QED BY UsedPlace, DisposeReleases, ReleasedGives

LEMMA FreeGives ==
  ASSUME NEW h, NEW sz, NEW U, Params(h), Heap(h, sz, U), NEW p \in U,
         NEW mem, mem = chunk2mem(p)
  PROVE  Gives(h, dlfree(h, mem), sz, U \ {p})
<1> QED BY UsedPlace, FreeReleases, ReleasedGives

UsedTwice(k, n, e, p, a, pin, r, b) ==
  WritesTo(k, n, e, p, a + b) /\ TwoHeads(n, p, a, pin, r, b, TRUE) /\ n.head[r + b].pinuse

(* Two used chunks, the first one first. *)
LEMMA FirstThenSecond ==
  ASSUME NEW k, WellFormed(k), NEW e, NEW p \in Nat, NEW a \in Nat, NEW b \in Nat, a > 0, b > 0,
         NEW r, r = p + a, HasNext(k, r + b, e), NEW pin \in BOOLEAN, pin <=> pinuse(k, p)
  PROVE  UsedTwice(k, set_inuse(set_inuse(k, p, a), r, b), e, p, a, pin, r, b)
<1> DEFINE j == UsedHead(k, p, a, pin)
           n == UsedHead(j, r, b, TRUE)
<1>1. Within(p, a, p, a + b) /\ Within(r, b, p, a + b) /\ r + b = p + (a + b) /\ p + a # p + (a + b)
  BY DEF Within
<1>2. WritesTo(k, j, e, p, a + b) /\ UsedStored(k, j, p, a, pin)
  BY <1>1, UsedIn
<1>3. set_inuse(k, p, a) = j
  <2>1. pinuse(k, p) = pin
    BY HeadAtType
  <2>2. QED
    BY <2>1, UsedHeadIs
<1> HIDE DEF j
<1>4. WellFormed(j) /\ r \in DOMAIN j.head /\ j.head[r].pinuse /\ j.head[r] \in HeadRecords
  BY <1>2 DEF WritesTo, UsedStored, WellFormed
<1>5. pinuse(j, r) = TRUE
  BY <1>4 DEF pinuse, HeadAt, HeadRecords
<1>6. set_inuse(j, r, b) = n
  BY <1>5, UsedHeadIs
<1>7. HasNext(j, r + b, e)
  <2>1. r + b > p + a /\ r + b \in DOMAIN k.head /\ r + b # e
    BY DEF HasNext
  <2>2. r + b \in DOMAIN j.head
    BY <1>2, <2>1 DEF UsedStored
  <2>3. QED
    BY <2>1, <2>2 DEF HasNext
<1>8. WritesTo(j, n, e, p, a + b) /\ UsedStored(j, n, r, b, TRUE)
  BY <1>1, <1>4, <1>7, UsedIn
<1> HIDE DEF n
<1>9. WritesTo(k, n, e, p, a + b)
  <2>1. a + b \in Nat
    OBVIOUS
  <2>2. QED
    BY <1>2, <1>8, <2>1, WritesCompose
<1>10. \A x \in DOMAIN n.head : x \in Nat
  BY <1>8 DEF WritesTo, WellFormed
<1>11. p < r /\ r < r + b /\ r \in Nat /\ r + b \in Nat
  OBVIOUS
<1>12. p \in DOMAIN n.head /\ n.head[p] = [size |-> a, pinuse |-> pin, cinuse |-> TRUE]
  BY <1>2, <1>8, <1>11 DEF UsedStored
<1>13. r \in DOMAIN n.head /\ n.head[r] = [size |-> b, pinuse |-> TRUE, cinuse |-> TRUE]
       /\ n.head[r + b].pinuse
  BY <1>8 DEF UsedStored
<1>14. NoHeads(n.head, p, a)
  <2>1. \A x \in DOMAIN n.head : x # r /\ x # r + b => x \in DOMAIN j.head
    BY <1>8 DEF UsedStored
  <2>2. \A x \in DOMAIN j.head : x # p /\ x # r => x < p \/ x > r
    BY <1>2 DEF UsedStored
  <2>3. QED
    BY <1>10, <1>11, <2>1, <2>2 DEF NoHeads
<1>15. NoHeads(n.head, r, b)
  <2>1. \A x \in DOMAIN n.head : x # r /\ x # r + b => x < r \/ x > r + b
    BY <1>8 DEF UsedStored
  <2>2. QED
    BY <1>10, <1>11, <2>1 DEF NoHeads
<1>16. UsedTwice(k, n, e, p, a, pin, r, b)
  BY <1>9, <1>12, <1>13, <1>14, <1>15 DEF UsedTwice, TwoHeads
<1>17. QED
  BY <1>3, <1>6, <1>16

(* The second one first. *)
LEMMA SecondThenFirst ==
  ASSUME NEW k, WellFormed(k), NEW e, NEW p \in Nat, NEW a \in Nat, NEW b \in Nat, a > 0, b > 0,
         NEW r, r = p + a, r # e, HasNext(k, r + b, e), NEW pin \in BOOLEAN, pin <=> pinuse(k, p),
         p \in DOMAIN k.head
  PROVE  UsedTwice(k, set_inuse(set_inuse(k, r, b), p, a), e, p, a, pin, r, b)
<1> DEFINE pin2 == pinuse(k, r)
           j == UsedHead(k, r, b, pin2)
           n == UsedHead(j, p, a, pin)
<1>1. /\ Within(p, a, p, a) /\ Within(p, a, p, a + b) /\ Within(r, b, p, a + b)
      /\ r + b = p + (a + b) /\ p + a # p + (a + b) /\ Within(r, b, r, b)
  BY DEF Within
<1>2. pin2 \in BOOLEAN /\ pin = pinuse(k, p)
  BY HeadAtType
<1> HIDE DEF pin2
<1>3. WritesTo(k, j, e, p, a + b) /\ UsedStored(k, j, r, b, pin2)
  BY <1>1, <1>2, UsedIn
<1>4. set_inuse(k, r, b) = j
  BY UsedHeadIs DEF pin2
<1> HIDE DEF j
<1>5. p < r /\ r < r + b /\ r \in Nat /\ r + b \in Nat
  OBVIOUS
<1>6. /\ WellFormed(j) /\ r \in DOMAIN j.head /\ j.head[r] = [size |-> b, pinuse |-> pin2, cinuse |-> TRUE]
      /\ r + b \in DOMAIN j.head /\ j.head[r + b].pinuse
      /\ p \in DOMAIN j.head /\ j.head[p] = k.head[p]
  BY <1>3, <1>5 DEF WritesTo, UsedStored
<1>7. pinuse(j, p) = pin
  BY <1>2, <1>6 DEF pinuse, HeadAt
<1>8. set_inuse(j, p, a) = n
  BY <1>7, UsedHeadIs
<1>9. WritesTo(j, n, e, p, a + b) /\ UsedStored(j, n, p, a, pin)
  BY <1>1, <1>6, UsedIn
<1>10. WritesTo(j, n, e, p, a)
  <2>1. HasNext(j, p + a, e)
    BY <1>6 DEF HasNext
  <2>2. QED
    BY <1>1, <1>6, <2>1, UsedIn
<1> HIDE DEF n
<1>11. WritesTo(k, n, e, p, a + b)
  <2>1. a + b \in Nat
    OBVIOUS
  <2>2. QED
    BY <1>3, <1>9, <2>1, WritesCompose
<1>12. \A x \in DOMAIN n.head : x \in Nat
  BY <1>9 DEF WritesTo, WellFormed
<1>13. p \in DOMAIN n.head /\ n.head[p] = [size |-> a, pinuse |-> pin, cinuse |-> TRUE]
  BY <1>9 DEF UsedStored
<1>14. r \in DOMAIN n.head /\ n.head[r] = [size |-> b, pinuse |-> TRUE, cinuse |-> TRUE]
  <2>1. r \in DOMAIN n.head /\ n.head[r].pinuse
    BY <1>9 DEF UsedStored
  <2>2. n.head[r] \in HeadRecords /\ n.head[r].size = b /\ n.head[r].cinuse
    <3>1. p + a \in DOMAIN j.head
      BY <1>6
    <3>2. /\ n.head[p + a] \in HeadRecords /\ n.head[p + a].size = j.head[p + a].size
          /\ n.head[p + a].cinuse = j.head[p + a].cinuse
      BY <1>10, <3>1 DEF WritesTo, Writes
    <3>3. j.head[r].size = b /\ j.head[r].cinuse
      BY <1>6
    <3>4. QED
      BY <3>2, <3>3
  <2>3. QED
    BY <2>1, <2>2 DEF HeadRecords
<1>15. n.head[r + b].pinuse
  BY <1>5, <1>6, <1>9 DEF UsedStored
<1>16. NoHeads(n.head, p, a)
  <2>1. \A x \in DOMAIN n.head : x # p /\ x # r => x < p \/ x > r
    BY <1>9 DEF UsedStored
  <2>2. QED
    BY <1>5, <1>12, <2>1 DEF NoHeads
<1>17. NoHeads(n.head, r, b)
  <2>1. \A x \in DOMAIN n.head : x # p /\ x # r => x \in DOMAIN j.head
    BY <1>9 DEF UsedStored
  <2>2. \A x \in DOMAIN j.head : x # r /\ x # r + b => x < r \/ x > r + b
    BY <1>3 DEF UsedStored
  <2>3. QED
    BY <1>5, <1>12, <2>1, <2>2 DEF NoHeads
<1>18. UsedTwice(k, n, e, p, a, pin, r, b)
  BY <1>11, <1>13, <1>14, <1>15, <1>16, <1>17 DEF UsedTwice, TwoHeads
<1>19. QED
  BY <1>4, <1>8, <1>18

-----------------------------------------------------------------------------
(* try_realloc_chunk.                                                      *)

(* A chunk in use that is about to be written.                             *)
Spread(k, h, p, s, lo, e, t, U) ==
  /\ WellFormed(k) /\ Only(k, h, ChunkFields)
  /\ Layout(k.head, k.foot, k.bins, k.dv, k.dvsize, lo, e, k.top, t, U, p)
  /\ p \in DOMAIN t /\ p # k.top /\ p # 0 /\ s = t[p] /\ k.topsize = t[k.top]
  /\ pinuse(k, p) <=> PredUsed(lo, t, U, p)

(* p has nb bytes at least, and the others have what they had. *)
ResizedTo(n, h, lo, e, sz, U, p, nb) ==
  \E t : Freed(n, h, lo, e, t, U) /\ t[p] >= nb /\ Keeps(t, sz, U \ {p})

LEMMA SpreadFacts ==
  ASSUME NEW k, NEW h, NEW p, NEW s, NEW lo, NEW e, NEW t, NEW U, Spread(k, h, p, s, lo, e, t, U)
  PROVE  /\ p \in Nat /\ s \in Nat /\ s > 0 /\ s % 8 = 0 /\ p >= lo /\ lo \in Nat
         /\ HasNext(k, p + s, e) /\ p \in U
<1>1. /\ Layout(k.head, k.foot, k.bins, k.dv, k.dvsize, lo, e, k.top, t, U, p)
      /\ p \in DOMAIN t /\ p # k.top /\ s = t[p]
  BY DEF Spread
<1>2. /\ p \in Nat /\ s \in Nat /\ s > 0 /\ s % 8 = 0 /\ p + s \in DOMAIN k.head /\ p + s # e
  BY <1>1, HoleNext
<1>3. p \in U
  BY <1>1, LayoutHole
<1>4. p >= lo /\ lo \in Nat
  BY <1>1, TilingArith DEF Layout
<1>5. QED
  BY <1>2, <1>3, <1>4 DEF HasNext

(* It becomes two. *)
CutSpreads(n, h, lo, e, t, U, p, a, r, b, c) ==
  /\ HeapOf(n, lo, e, c, U \cup {r}) /\ Only(n, h, ChunkFields)
  /\ c[p] = a /\ c[r] = b /\ Keeps(c, t, U \ {p}) /\ r \notin U /\ r # 0 /\ p # r

LEMMA SpreadCuts ==
  ASSUME NEW k, NEW h, NEW p, NEW s, NEW lo, NEW e, NEW t, NEW U, Spread(k, h, p, s, lo, e, t, U),
         NEW a \in Nat, NEW b \in Nat, a >= 16, b >= 16, a % 8 = 0, a + b = s, NEW r, r = p + a,
         NEW pin \in BOOLEAN, pin <=> pinuse(k, p),
         NEW n, UsedTwice(k, n, e, p, a, pin, r, b)
  PROVE  CutSpreads(n, h, lo, e, t, U, p, a, r, b, CutChunk(t, p, a))
<1> DEFINE c == CutChunk(t, p, a)
<1>1. /\ WellFormed(k) /\ Only(k, h, ChunkFields)
      /\ Layout(k.head, k.foot, k.bins, k.dv, k.dvsize, lo, e, k.top, t, U, p)
      /\ p \in DOMAIN t /\ p # k.top /\ p # 0 /\ s = t[p] /\ k.topsize = t[k.top]
      /\ pinuse(k, p) <=> PredUsed(lo, t, U, p)
  BY DEF Spread
<1>2. pin <=> PredUsed(lo, t, U, p)
  BY <1>1
<1>3. p \in Nat /\ s \in Nat
  BY SpreadFacts
<1>4. /\ WritesTo(k, n, e, p, a + b)
      /\ p \in DOMAIN n.head /\ n.head[p] = [size |-> a, pinuse |-> pin, cinuse |-> TRUE]
      /\ r \in DOMAIN n.head /\ n.head[r] = [size |-> b, pinuse |-> TRUE, cinuse |-> TRUE]
      /\ NoHeads(n.head, p, a) /\ NoHeads(n.head, r, b) /\ n.head[r + b].pinuse
  BY DEF UsedTwice, TwoHeads
<1>5. a + b = t[p]
  BY <1>1
<1>6. Layout(n.head, n.foot, k.bins, k.dv, k.dvsize, lo, e, k.top, c, U \cup {r}, e)
  BY <1>1, <1>2, <1>4, <1>5, UseTwice
<1>7. IsCut(c, t, p, a, b, r, e)
  <2>1. Tiling(lo, e, t) /\ a > 0 /\ b > 0
    BY <1>1 DEF Layout
  <2>2. QED
    BY <1>1, <1>5, <2>1, CutInTwo
<1> HIDE DEF c
<1>8. U \subseteq DOMAIN t /\ k.top \in DOMAIN t
  BY <1>1, LayoutHole
<1>9. /\ c[p] = a /\ c[r] = b /\ r \notin U /\ Keeps(c, t, U \ {p}) /\ p # r /\ c[k.top] = t[k.top]
  BY <1>1, <1>7, <1>8 DEF IsCut, Keeps
<1>10. r # 0
  BY <1>3
<1>11. WellFormed(n) /\ Only(n, k, {"head", "foot"}) /\ IsState(k)
  BY <1>1, <1>4 DEF WritesTo, WellFormed
<1>12. /\ n.bins = k.bins /\ n.dv = k.dv /\ n.dvsize = k.dvsize /\ n.top = k.top
       /\ n.topsize = k.topsize /\ Only(n, k, ChunkFields)
  BY <1>11, FieldsOf
<1>13. Only(n, h, ChunkFields)
  BY <1>1, <1>12, OnlyTransitive
<1>14. HeapOf(n, lo, e, c, U \cup {r})
  BY <1>1, <1>6, <1>9, <1>11, <1>12 DEF HeapOf
<1>15. QED
  BY <1>9, <1>10, <1>13, <1>14 DEF CutSpreads, c

LEMMA BaseKept ==
  ASSUME NEW n, NEW h, Only(n, h, ChunkFields)
  PROVE  n.base = h.base
<1> QED BY DEF Only, FieldNames, ChunkFields

LEMMA GiveBackTailResizes ==
  ASSUME NEW k, NEW h, NEW p, NEW s, NEW lo, NEW e, NEW t, NEW U, Spread(k, h, p, s, lo, e, t, U),
         NEW nb \in Nat, NEW rest \in Nat, nb >= 16, rest >= 16, nb % 8 = 0, nb + rest = s,
         NEW sz, Keeps(t, sz, U \ {p}), h.base \in Nat, h.base <= lo
  PROVE  ResizedTo(GiveBackTail(k, p, nb, rest), h, lo, e, sz, U, p, nb)
<1> DEFINE r == p + nb
           j == set_inuse(set_inuse(k, p, nb), r, rest)
           c == CutChunk(t, p, nb)
           n == dispose_chunk(j, r, rest)
           pin == pinuse(k, p)
<1>1. p \in Nat /\ s \in Nat /\ HasNext(k, p + s, e) /\ WellFormed(k)
  BY SpreadFacts DEF Spread
<1>2. pin \in BOOLEAN
  BY <1>1, HeadAtType
<1>3. HasNext(k, r + rest, e)
  <2>1. r + rest = p + s
    BY <1>1
  <2> HIDE DEF r
  <2>2. QED
    BY <1>1, <2>1
<1>4. UsedTwice(k, j, e, p, nb, pin, r, rest)
  <2>1. nb > 0 /\ rest > 0
    OBVIOUS
  <2> HIDE DEF pin
  <2>2. QED
    BY <1>1, <1>2, <1>3, <2>1, FirstThenSecond DEF pin
<1> HIDE DEF j, pin
<1>5. CutSpreads(j, h, lo, e, t, U, p, nb, r, rest, c)
  BY <1>2, <1>4, SpreadCuts DEF pin
<1> HIDE DEF c, r
<1>6. /\ HeapOf(j, lo, e, c, U \cup {r}) /\ Only(j, h, ChunkFields)
      /\ c[p] = nb /\ c[r] = rest /\ Keeps(c, t, U \ {p}) /\ r \notin U /\ r # 0 /\ p # r
  BY <1>5 DEF CutSpreads
<1>7. Released(n, j, lo, e, c, U)
  <2>1. j.base \in Nat /\ j.base <= lo
    BY <1>6, BaseKept
  <2>2. Released(n, j, lo, e, c, (U \cup {r}) \ {r})
    BY <1>6, <2>1, DisposeReleases
  <2>3. (U \cup {r}) \ {r} = U
    BY <1>6
  <2>4. QED
    BY <2>2, <2>3
<1> HIDE DEF n
<1>8. PICK u : Freed(n, j, lo, e, u, U) /\ Keeps(u, c, U)
  BY <1>7 DEF Released
<1>9. Freed(n, h, lo, e, u, U)
  BY <1>6, <1>8, OnlyTransitive DEF Freed
<1>10. u[p] >= nb /\ Keeps(u, sz, U \ {p})
  <2>1. p \in U
    BY SpreadFacts
  <2>2. u[p] = nb
    BY <1>6, <1>8, <2>1 DEF Keeps
  <2>3. Keeps(u, sz, U \ {p})
    BY <1>6, <1>8 DEF Keeps
  <2>4. QED
    BY <2>2, <2>3
<1>11. GiveBackTail(k, p, nb, rest) = n
  BY DEF GiveBackTail, n, j, r
<1>12. QED
  BY <1>9, <1>10, <1>11 DEF ResizedTo

LEMMA UseWholeResizes ==
  ASSUME NEW k, NEW h, NEW p, NEW s, NEW lo, NEW e, NEW t, NEW U, Spread(k, h, p, s, lo, e, t, U),
         s >= 16, NEW nb, nb <= s, NEW sz, Keeps(t, sz, U \ {p})
  PROVE  ResizedTo(set_inuse(k, p, s), h, lo, e, sz, U, p, nb)
<1> DEFINE pin == pinuse(k, p)
           n == UsedHead(k, p, s, pin)
<1>1. /\ WellFormed(k) /\ Only(k, h, ChunkFields)
      /\ Layout(k.head, k.foot, k.bins, k.dv, k.dvsize, lo, e, k.top, t, U, p)
      /\ p \in DOMAIN t /\ p # k.top /\ s = t[p] /\ k.topsize = t[k.top]
      /\ pin <=> PredUsed(lo, t, U, p)
  BY DEF Spread
<1>2. pin \in BOOLEAN
  BY <1>1, HeadAtType
<1>3. set_inuse(k, p, s) = n
  BY UsedHeadIs
<1> HIDE DEF pin
<1>4. /\ WritesTo(k, n, e, p, s)
      /\ Layout(n.head, n.foot, k.bins, k.dv, k.dvsize, lo, e, k.top, t, U, e)
  BY <1>1, <1>2, UseHole
<1> HIDE DEF n
<1>5. WellFormed(n) /\ Only(n, k, {"head", "foot"}) /\ IsState(k)
  BY <1>1, <1>4 DEF WritesTo, WellFormed
<1>6. /\ n.bins = k.bins /\ n.dv = k.dv /\ n.dvsize = k.dvsize /\ n.top = k.top
      /\ n.topsize = k.topsize /\ Only(n, k, ChunkFields)
  BY <1>5, FieldsOf
<1>7. Only(n, h, ChunkFields)
  BY <1>1, <1>6, OnlyTransitive
<1>8. HeapOf(n, lo, e, t, U)
  BY <1>1, <1>4, <1>5, <1>6 DEF HeapOf
<1>9. t[p] >= nb
  <2>1. s \in Nat
    BY SpreadFacts
  <2>2. QED
    BY <1>1
<1>10. QED
  BY <1>3, <1>7, <1>8, <1>9 DEF ResizedTo, Freed

LEMMA TrimmedResizes ==
  ASSUME NEW k, NEW h, NEW p, NEW s, NEW lo, NEW e, NEW t, NEW U, Spread(k, h, p, s, lo, e, t, U),
         NEW nb \in Nat, nb >= 16, nb % 8 = 0, nb <= s,
         NEW sz, Keeps(t, sz, U \ {p}), h.base \in Nat, h.base <= lo
  PROVE  ResizedTo(Trimmed(k, p, s, nb), h, lo, e, sz, U, p, nb)
<1>1. s \in Nat
  BY SpreadFacts
<1>2. CASE s - nb >= 16
  <2>1. Trimmed(k, p, s, nb) = GiveBackTail(k, p, nb, s - nb)
    BY <1>2, MinChunkSize DEF Trimmed
  <2> DEFINE rest == s - nb
  <2>2. rest \in Nat /\ rest >= 16 /\ nb + rest = s
    BY <1>1, <1>2
  <2> HIDE DEF rest
  <2>3. ResizedTo(GiveBackTail(k, p, nb, rest), h, lo, e, sz, U, p, nb)
    BY <2>2, GiveBackTailResizes
  <2>4. QED
    BY <2>1, <2>3 DEF rest
<1>3. CASE ~(s - nb >= 16)
  <2>1. Trimmed(k, p, s, nb) = set_inuse(k, p, s)
    BY <1>3, MinChunkSize DEF Trimmed
  <2>2. s >= 16
    BY <1>1
  <2>3. QED
    BY <2>1, <2>2, UseWholeResizes
<1>4. QED
  BY <1>2, <1>3

LEMMA SpreadOpens ==
  ASSUME NEW h, NEW lo, NEW e, NEW sz, NEW U, HeapOf(h, lo, e, sz, U), NEW p \in U, p # 0,
         NEW s, s = sz[p]
  PROVE  Spread(h, h, p, s, lo, e, sz, U)
<1>1. /\ p \in DOMAIN sz /\ p # h.top /\ (pinuse(h, p) <=> PredUsed(lo, sz, U, p))
  BY UsedFacts
<1>2. Layout(h.head, h.foot, h.bins, h.dv, h.dvsize, lo, e, h.top, sz, U, p)
  BY LayoutOpenUsed DEF HeapOf
<1>3. WellFormed(h) /\ Only(h, h, ChunkFields) /\ h.topsize = sz[h.top]
  BY DEF HeapOf, WellFormed, Only
<1>4. QED
  BY <1>1, <1>2, <1>3 DEF Spread

(* The chunk behind, which is not in use, joins.                           *)
JoinsUsed(t, sz, U, lo, p, z, n, top) ==
  /\ p \in DOMAIN t /\ z = t[p] /\ z \in Nat /\ Keeps(t, sz, U \ {p})
  /\ PredUsed(lo, t, U, p) <=> PredUsed(lo, sz, U, p)
  /\ top # n => t[top] = sz[top]

LEMMA UsedJoins ==
  ASSUME NEW lo, NEW e, NEW sz, Tiling(lo, e, sz), NEW p \in DOMAIN sz, NEW U, U \subseteq DOMAIN sz,
         NEW n \in DOMAIN sz, p + sz[p] = n, NEW t, t = JoinChunks(sz, p), n \notin U,
         NEW z, z = sz[p] + sz[n], NEW top \in DOMAIN sz, top # p
  PROVE  JoinsUsed(t, sz, U, lo, p, z, n, top)
<1>1. /\ p \in DOMAIN t /\ t[p] = sz[p] + sz[n]
      /\ \A c \in DOMAIN sz : c # p /\ c # n => t[c] = sz[c]
  <2>1. JoinedTo(JoinChunks(sz, p), sz, p, n)
    BY JoinedSizes DEF JoinedTo
  <2>2. QED
    BY <2>1 DEF JoinedTo
<1>2. sz[p] \in Nat /\ sz[n] \in Nat /\ p \in Nat /\ sz[p] > 0
  BY TilingArith
<1>7. Keeps(t, sz, U \ {p})
  BY <1>1 DEF Keeps
<1>8. ASSUME PredUsed(lo, sz, U, p) PROVE PredUsed(lo, t, U, p)
  <2>1. CASE p = lo
    BY <2>1 DEF PredUsed
  <2>2. CASE p # lo
    <3>1. PICK d \in U : d + sz[d] = p
      BY <1>8, <2>2 DEF PredUsed
    <3>2. d # p
      BY <1>2, <3>1
    <3>3. t[d] = sz[d]
      BY <1>1, <3>2
    <3>4. QED
      BY <3>1, <3>3 DEF PredUsed
  <2>3. QED
    BY <2>1, <2>2
<1>3. ASSUME PredUsed(lo, t, U, p) PROVE PredUsed(lo, sz, U, p)
  <2>1. CASE p = lo
    BY <2>1 DEF PredUsed
  <2>2. CASE p # lo
    <3>1. PICK d \in U : d + t[d] = p
      BY <1>3, <2>2 DEF PredUsed
    <3>2. d # p
      BY <1>1, <1>2, <3>1
    <3>3. t[d] = sz[d]
      BY <1>1, <3>2
    <3>4. QED
      BY <3>1, <3>3 DEF PredUsed
  <2>3. QED
    BY <2>1, <2>2
<1>4. top # n => t[top] = sz[top]
  BY <1>1
<1>5. z = t[p] /\ z \in Nat
  BY <1>1, <1>2
<1>6. QED
  BY <1>1, <1>3, <1>4, <1>5, <1>7, <1>8 DEF JoinsUsed

LEMMA UsedJoinsIn ==
  ASSUME NEW h, NEW lo, NEW e, NEW sz, NEW U, HeapOf(h, lo, e, sz, U), NEW p \in U,
         NEW next, next = p + sz[p], next \notin U, NEW z, z = sz[p] + sz[next],
         NEW t, t = JoinChunks(sz, p)
  PROVE  JoinsUsed(t, sz, U, lo, p, z, next, h.top)
<1> DEFINE top == h.top
<1>1. p \in DOMAIN sz /\ next \in DOMAIN sz /\ p # top
  BY UsedFacts
<1>2. Tiling(lo, e, sz) /\ top \in DOMAIN sz /\ U \subseteq DOMAIN sz
  BY LayoutHole DEF HeapOf, Layout
<1>3. p + sz[p] = next
  OBVIOUS
<1> HIDE DEF top
<1>4. JoinsUsed(t, sz, U, lo, p, z, next, top)
  BY <1>1, <1>2, <1>3, UsedJoins
<1>5. QED
  BY <1>4 DEF top

LEMMA SpreadGrows ==
  ASSUME NEW h, NEW lo, NEW e, NEW sz, NEW U, HeapOf(h, lo, e, sz, U), NEW p \in U, p # 0,
         NEW next, next = p + sz[p], next \in FreeChunks(sz, U, h.top), next # h.dv,
         NEW x, x = sz[next], NEW z, z = sz[p] + x, NEW k, k = unlink_chunk(h, next, x),
         NEW t, t = JoinChunks(sz, p)
  PROVE  Spread(k, h, p, z, lo, e, t, U) /\ Keeps(t, sz, U \ {p})
<1> DEFINE b == Take(h.bins, next, x)
           s == sz[p]
<1>1. Spread(h, h, p, s, lo, e, sz, U)
  BY SpreadOpens
<1>2. /\ WellFormed(h) /\ p \in DOMAIN sz /\ p # h.top /\ h.topsize = sz[h.top]
      /\ Layout(h.head, h.foot, h.bins, h.dv, h.dvsize, lo, e, h.top, sz, U, p)
      /\ pinuse(h, p) <=> PredUsed(lo, sz, U, p)
  BY <1>1 DEF Spread
<1>3. next \in DOMAIN sz /\ next \notin U /\ next # h.top
  BY DEF FreeChunks
<1>4. JoinsUsed(t, sz, U, lo, p, z, next, h.top)
  BY <1>3, UsedJoinsIn
<1>5. p + sz[p] = next
  OBVIOUS
<1>6. /\ Binned(h.bins, next, x)
      /\ Layout(h.head, h.foot, b, h.dv, h.dvsize, lo, e, h.top, t, U, p)
  BY <1>2, <1>3, <1>5, LayoutMergeBinned
<1>7. k = BinsSet(h, b)
  BY <1>6 DEF unlink_chunk, Binned, BinsSet
<1>8. IsState(h)
  BY <1>2 DEF WellFormed
<1> HIDE DEF b
<1>9. Only(k, h, {"bins"}) /\ k.bins = b
  BY <1>7, <1>8, WithBins
<1>10. /\ WellFormed(k) /\ Only(k, h, ChunkFields) /\ k.head = h.head /\ k.foot = h.foot
      /\ k.dv = h.dv /\ k.dvsize = h.dvsize /\ k.top = h.top /\ k.topsize = h.topsize
      /\ k.junk = h.junk
  BY <1>2, <1>8, <1>9, FieldsOf, WellFormedIs DEF Only
<1>11. pinuse(k, p) = pinuse(h, p)
  BY <1>10 DEF pinuse, HeadAt
<1>12. Layout(k.head, k.foot, k.bins, k.dv, k.dvsize, lo, e, k.top, t, U, p)
  BY <1>6, <1>9, <1>10
<1>13. /\ p \in DOMAIN t /\ z = t[p] /\ Keeps(t, sz, U \ {p}) /\ t[h.top] = sz[h.top]
       /\ PredUsed(lo, t, U, p) <=> PredUsed(lo, sz, U, p)
  BY <1>3, <1>4 DEF JoinsUsed
<1>14. pinuse(k, p) <=> PredUsed(lo, t, U, p)
  BY <1>2, <1>11, <1>13
<1>15. QED
  BY <1>2, <1>10, <1>12, <1>13, <1>14 DEF Spread

-----------------------------------------------------------------------------
(* A used chunk, and then another that is free. *)
LEMMA UsedThenRest ==
  ASSUME NEW k, NEW j, NEW n, NEW e, NEW p \in Nat, NEW a \in Nat, NEW b \in Nat, a > 0, b > 0,
         NEW r, r = p + a, NEW pin, WritesTo(k, j, e, p, a + b), UsedStored(k, j, p, a, pin),
         WritesTo(j, n, e, p, a + b), HeadStored(j, n, r, b, TRUE, FALSE)
  PROVE  WritesTo(k, n, e, p, a + b) /\ TwoHeads(n, p, a, pin, r, b, FALSE)
<1>1. WritesTo(k, n, e, p, a + b)
  <2>1. a + b \in Nat
    OBVIOUS
  <2>2. QED
    BY <2>1, WritesCompose
<1>2. \A x \in DOMAIN n.head : x \in Nat
  BY DEF WritesTo, WellFormed
<1>3. p < r /\ r < r + b /\ r \in Nat /\ r + b \in Nat
  OBVIOUS
<1>4. /\ p \in DOMAIN j.head /\ j.head[p] = [size |-> a, pinuse |-> pin, cinuse |-> TRUE]
      /\ \A x \in DOMAIN j.head : x # p /\ x # r => x < p \/ x > r
  BY DEF UsedStored
<1>5. /\ r \in DOMAIN n.head /\ n.head[r] = [size |-> b, pinuse |-> TRUE, cinuse |-> FALSE]
      /\ \A x \in DOMAIN j.head : x < r => x \in DOMAIN n.head /\ n.head[x] = j.head[x]
      /\ \A x \in DOMAIN n.head : x # r => x \in DOMAIN j.head /\ (x < r \/ x >= r + b)
  BY DEF HeadStored
<1>6. p \in DOMAIN n.head /\ n.head[p] = [size |-> a, pinuse |-> pin, cinuse |-> TRUE]
  BY <1>3, <1>4, <1>5
<1>7. NoHeads(n.head, p, a) /\ NoHeads(n.head, r, b)
  BY <1>2, <1>3, <1>4, <1>5 DEF NoHeads
<1>8. QED
  BY <1>1, <1>5, <1>6, <1>7 DEF TwoHeads

LEMMA ExtendIntoTopResizes ==
  ASSUME NEW h, NEW lo, NEW e, NEW sz, NEW U, HeapOf(h, lo, e, sz, U), NEW p \in U, p # 0,
         NEW s, s = sz[p], p + s = h.top, NEW nb \in Nat, nb >= 16, nb % 8 = 0, s + h.topsize > nb
  PROVE  ResizedTo(ExtendIntoTop(h, p, s, nb), h, lo, e, sz, U, p, nb)
<1> DEFINE next == h.top
           z == s + h.topsize
           b == s + h.topsize - nb
           r == p + nb
           t == JoinChunks(sz, p)
           c == CutChunk(t, p, nb)
           pin == pinuse(h, p)
           i == UsedHead(h, p, nb, pin)
           j == StoreHead(i, r, b, TRUE, FALSE)
           n == TopSet(j, r, b)
<1>1. Spread(h, h, p, s, lo, e, sz, U)
  BY SpreadOpens
<1>2. /\ WellFormed(h) /\ p \in DOMAIN sz /\ p # h.top /\ h.topsize = sz[h.top]
      /\ Layout(h.head, h.foot, h.bins, h.dv, h.dvsize, lo, e, h.top, sz, U, p)
      /\ pin <=> PredUsed(lo, sz, U, p)
  BY <1>1 DEF Spread
<1>3. p \in Nat /\ s \in Nat /\ p \in U
  BY <1>1, SpreadFacts
<1>4. next \in DOMAIN sz /\ next \notin U
  BY <1>2, LayoutHole
<1>5. JoinsUsed(t, sz, U, lo, p, z, next, h.top)
  BY <1>2, <1>4, UsedJoinsIn
<1>6. Layout(h.head, h.foot, h.bins, h.dv, h.dvsize, lo, e, p, t, U, p)
  <2>1. p + sz[p] = next
    OBVIOUS
  <2>2. QED
    BY <1>2, <1>4, <2>1, LayoutMergeTop
<1>7. z \in Nat /\ b \in Nat /\ b > 0 /\ nb + b = z /\ nb > 0
  <2>1. z \in Nat /\ s \in Nat /\ h.topsize \in Nat
    <3>1. h.topsize \in Nat
      BY DvSize
    <3>2. QED
      BY <1>3, <3>1
  <2>2. QED
    BY <2>1
<1>8. p \in DOMAIN t /\ z = t[p] /\ Keeps(t, sz, U \ {p}) /\ (pin <=> PredUsed(lo, t, U, p))
  BY <1>2, <1>5 DEF JoinsUsed
<1>9. pin \in BOOLEAN
  BY <1>2, HeadAtType
<1>10. ExtendIntoTop(h, p, s, nb) = n
  <2>1. set_inuse(h, p, nb) = i
    BY UsedHeadIs
  <2> HIDE DEF i
  <2>2. QED
    BY <2>1 DEF ExtendIntoTop, TopSet
<1> HIDE DEF z, b, t, pin
<1>11. WritesTo(h, i, e, p, nb + b) /\ UsedStored(h, i, p, nb, pin)
  <2>1. Within(p, nb, p, nb + b) /\ p + nb # p + (nb + b)
    BY <1>3, <1>7 DEF Within
  <2>2. QED
    BY <1>2, <1>9, <2>1, UsedIn
<1> HIDE DEF i
<1>12. WritesTo(i, j, e, p, nb + b) /\ HeadStored(i, j, r, b, TRUE, FALSE)
  <2>1. Within(r, b, p, nb + b) /\ WellFormed(i)
    BY <1>3, <1>7, <1>11 DEF Within, WritesTo
  <2> HIDE DEF r
  <2>2. QED
    BY <2>1, StoreHeadIn
<1> HIDE DEF j
<1>13. WritesTo(h, j, e, p, nb + b) /\ TwoHeads(j, p, nb, pin, r, b, FALSE)
  BY <1>3, <1>7, <1>11, <1>12, UsedThenRest
<1>14. /\ p \in DOMAIN j.head /\ j.head[p] = [size |-> nb, pinuse |-> pin, cinuse |-> TRUE]
       /\ r \in DOMAIN j.head /\ j.head[r] = [size |-> b, pinuse |-> TRUE, cinuse |-> FALSE]
       /\ NoHeads(j.head, p, nb) /\ NoHeads(j.head, r, b)
  BY <1>13 DEF TwoHeads
<1>15. Layout(j.head, j.foot, h.bins, h.dv, h.dvsize, lo, e, r, c, U, e)
  <2>1. nb + b = t[p]
    BY <1>7, <1>8
  <2>2. r = p + nb
    OBVIOUS
  <2> HIDE DEF r
  <2>3. QED
    BY <1>6, <1>7, <1>8, <1>9, <1>13, <1>14, <2>1, <2>2, TopRest
<1>16. IsCut(c, t, p, nb, b, r, e)
  <2>1. Tiling(lo, e, t) /\ nb + b = t[p]
    BY <1>6, <1>7, <1>8 DEF Layout
  <2>2. QED
    BY <1>7, <1>8, <2>1, CutInTwo
<1> HIDE DEF c
<1>17. c[p] = nb /\ c[r] = b /\ Keeps(c, sz, U \ {p})
  <2>1. U \subseteq DOMAIN t
    BY <1>6, LayoutHole
  <2>2. QED
    BY <1>8, <1>16, <2>1 DEF IsCut, Keeps
<1>18. WellFormed(j) /\ Only(j, h, {"head", "foot"}) /\ IsState(h) /\ IsState(j)
  BY <1>2, <1>13 DEF WritesTo, WellFormed
<1>19. Only(n, j, {"top", "topsize"}) /\ n.top = r /\ n.topsize = b
  BY <1>18, WithTop
<1> HIDE DEF n, r
<1>20. /\ n.head = j.head /\ n.foot = j.foot /\ n.bins = h.bins /\ n.dv = h.dv /\ n.dvsize = h.dvsize
       /\ n.junk = j.junk /\ Only(n, j, ChunkFields) /\ Only(j, h, ChunkFields)
  BY <1>18, <1>19, FieldsOf
<1>21. Only(n, h, ChunkFields) /\ WellFormed(n)
  BY <1>18, <1>20, OnlyTransitive, WellFormedIs DEF Only
<1>22. HeapOf(n, lo, e, c, U)
  BY <1>15, <1>17, <1>19, <1>20, <1>21 DEF HeapOf
<1>23. c[p] >= nb
  BY <1>17
<1>24. QED
  BY <1>10, <1>17, <1>21, <1>22, <1>23 DEF ResizedTo, Freed

(* A used chunk, and then another that is free, and known to be to the next. *)
FreeToldTwo(k, n, e, p, a, pin, r, b) ==
  /\ WritesTo(k, n, e, p, a + b) /\ TwoHeads(n, p, a, pin, r, b, FALSE)
  /\ r + b \in DOMAIN n.foot /\ n.foot[r + b] = b /\ ~n.head[r + b].pinuse

UsedThenFree(k, p, a, r, b, pin) ==
  clear_pinuse(set_size_and_pinuse_of_free_chunk(UsedHead(k, p, a, pin), r, b), r + b)

LEMMA UsedThenFreeIs ==
  ASSUME NEW k, WellFormed(k), NEW e, NEW p \in Nat, NEW a \in Nat, NEW b \in Nat, a > 0, b > 0,
         NEW r, r = p + a, NEW pin \in BOOLEAN, HasNext(k, r + b, e)
  PROVE  FreeToldTwo(k, UsedThenFree(k, p, a, r, b, pin), e, p, a, pin, r, b)
<1> DEFINE q == r + b
           i == UsedHead(k, p, a, pin)
           j == set_size_and_pinuse_of_free_chunk(i, r, b)
           n == clear_pinuse(j, q)
<1>1. /\ Within(p, a, p, a + b) /\ Within(r, b, p, a + b) /\ p + a # p + (a + b)
      /\ q = p + (a + b) /\ q \in Nat /\ p < r /\ r < q /\ r \in Nat
  BY DEF Within
<1>2. WritesTo(k, i, e, p, a + b) /\ UsedStored(k, i, p, a, pin)
  BY <1>1, UsedIn
<1> HIDE DEF i
<1>3. WritesTo(i, j, e, p, a + b) /\ FreeStored(i, j, r, b)
  <2>1. WellFormed(i)
    BY <1>2 DEF WritesTo
  <2>2. QED
    BY <1>1, <2>1, FreeIn
<1> HIDE DEF j
<1>4. HeadStored(i, j, r, b, TRUE, FALSE) /\ r + b \in DOMAIN j.foot /\ j.foot[r + b] = b
  BY <1>3 DEF FreeStored
<1>5. WritesTo(k, j, e, p, a + b) /\ TwoHeads(j, p, a, pin, r, b, FALSE)
  BY <1>2, <1>3, <1>4, UsedThenRest
<1>6. q \in DOMAIN j.head /\ q # e
  <2>1. q \in DOMAIN k.head /\ q # e
    BY DEF HasNext
  <2>2. q \in DOMAIN i.head
    BY <1>1, <1>2, <2>1 DEF UsedStored
  <2>3. QED
    BY <1>1, <1>4, <2>1, <2>2 DEF HeadStored
<1>7. WritesTo(j, n, e, p, a + b) /\ PinuseStored(j, n, q, FALSE) /\ Only(n, j, {"head"})
  <2> DEFINE s == a + b
  <2>1. s \in Nat /\ p <= q /\ q <= p + s /\ WellFormed(j)
    BY <1>1, <1>5 DEF WritesTo
  <2> HIDE DEF q, s
  <2>2. \A v \in BOOLEAN : /\ WritesTo(j, StorePinuse(j, q, v), e, p, s)
                           /\ Only(StorePinuse(j, q, v), j, {"head"})
                           /\ PinuseStored(j, StorePinuse(j, q, v), q, v)
    BY <1>1, <1>6, <2>1, StorePinuseIn
  <2>3. QED
    BY <2>2 DEF clear_pinuse, s
<1> HIDE DEF n, q
<1>8. WritesTo(k, n, e, p, a + b)
  <2>1. a + b \in Nat
    OBVIOUS
  <2>2. QED
    BY <1>5, <1>7, <2>1, WritesCompose
<1>9. n.foot = j.foot
  BY <1>7 DEF Only, FieldNames
<1>10. /\ \A x : x \in DOMAIN n.head <=> x \in DOMAIN j.head
       /\ \A x \in DOMAIN n.head : x # q => n.head[x] = j.head[x]
       /\ ~n.head[q].pinuse
  BY <1>6, <1>7 DEF PinuseStored
<1>11. TwoHeads(n, p, a, pin, r, b, FALSE)
  BY <1>1, <1>5, <1>10 DEF TwoHeads, NoHeads
<1>12. q = r + b
  BY DEF q
<1>13. QED
  BY <1>4, <1>8, <1>9, <1>10, <1>11, <1>12 DEF FreeToldTwo, UsedThenFree, n, j, i

(* The dv behind becomes smaller, or is used up. *)
LEMMA DvJoins ==
  ASSUME NEW h, NEW lo, NEW e, NEW sz, NEW U, HeapOf(h, lo, e, sz, U), NEW p \in U, p # 0,
         NEW s, s = sz[p], NEW next, next = p + s, next = h.dv, next \in FreeChunks(sz, U, h.top),
         NEW z, z = s + h.dvsize, NEW t, t = JoinChunks(sz, p), NEW pin, pin = pinuse(h, p)
  PROVE  /\ WellFormed(h) /\ p \in DOMAIN t /\ p # h.top /\ p \in Nat /\ p \in U /\ h.topsize = t[h.top]
         /\ Layout(h.head, h.foot, h.bins, 0, 0, lo, e, h.top, t, U, p)
         /\ pin \in BOOLEAN /\ (pin <=> PredUsed(lo, t, U, p))
         /\ z = t[p] /\ z \in Nat /\ z >= 16 /\ Keeps(t, sz, U \ {p})
         /\ p + z \in U /\ HasNext(h, p + z, e)
<1>1. Spread(h, h, p, s, lo, e, sz, U)
  BY SpreadOpens
<1>2. /\ WellFormed(h) /\ p \in DOMAIN sz /\ p # h.top /\ h.topsize = sz[h.top]
      /\ Layout(h.head, h.foot, h.bins, h.dv, h.dvsize, lo, e, h.top, sz, U, p)
      /\ pin <=> PredUsed(lo, sz, U, p)
  BY <1>1 DEF Spread
<1>3. p \in Nat /\ s \in Nat /\ p \in U /\ s >= 16
  BY UsedFacts
<1>4. next \in DOMAIN sz /\ next \notin U /\ next # h.top
  BY DEF FreeChunks
<1>5. h.dvsize = sz[next] /\ h.dvsize \in Nat
  <2>1. h.dv # 0
    BY <1>2 DEF Layout, BinsOK
  <2>2. h.dvsize # 0
    BY <2>1, DvSize
  <2>3. QED
    BY <2>2, DvSize
<1>6. JoinsUsed(t, sz, U, lo, p, z, next, h.top)
  <2>1. z = sz[p] + sz[next] /\ next = p + sz[p]
    BY <1>5
  <2>2. QED
    BY <1>4, <2>1, UsedJoinsIn
<1>7. Layout(h.head, h.foot, h.bins, 0, 0, lo, e, h.top, t, U, p)
  <2>1. p + sz[p] = next
    OBVIOUS
  <2>2. QED
    BY <1>2, <1>4, <2>1, LayoutMergeDv
<1>8. /\ p \in DOMAIN t /\ z = t[p] /\ z \in Nat /\ Keeps(t, sz, U \ {p}) /\ t[h.top] = sz[h.top]
      /\ pin <=> PredUsed(lo, t, U, p)
  BY <1>2, <1>4, <1>6 DEF JoinsUsed
<1>9. pin \in BOOLEAN
  BY <1>2, HeadAtType
<1>10. p + z \in U
  <2>1. next + sz[next] \in U
    BY ChunkFacts, <1>4 DEF HeapOf
  <2>2. p + z = next + sz[next]
    BY <1>3, <1>5
  <2>3. QED
    BY <2>1, <2>2
<1>11. HasNext(h, p + z, e)
  <2>1. p + t[p] \in DOMAIN h.head /\ p + t[p] # e
    BY <1>2, <1>7, <1>8, HoleNext
  <2>2. QED
    BY <1>8, <2>1 DEF HasNext
<1>12. z >= 16
  BY <1>3, <1>5
<1>13. QED
  BY <1>2, <1>3, <1>7, <1>8, <1>9, <1>10, <1>11, <1>12

LEMMA DvUsedUp ==
  ASSUME NEW h, NEW lo, NEW e, NEW sz, NEW U, HeapOf(h, lo, e, sz, U), NEW p \in U, p # 0,
         NEW s, s = sz[p], NEW next, next = p + s, next = h.dv, next \in FreeChunks(sz, U, h.top),
         NEW z, z = s + h.dvsize, NEW nb, nb <= z
  PROVE  ResizedTo(DvSet(set_inuse(h, p, z), 0, 0), h, lo, e, sz, U, p, nb)
<1> DEFINE t == JoinChunks(sz, p)
           pin == pinuse(h, p)
           j == UsedHead(h, p, z, pin)
           n == DvSet(j, 0, 0)
<1>1. /\ WellFormed(h) /\ p \in DOMAIN t /\ p # h.top /\ h.topsize = t[h.top]
      /\ Layout(h.head, h.foot, h.bins, 0, 0, lo, e, h.top, t, U, p)
      /\ pin \in BOOLEAN /\ (pin <=> PredUsed(lo, t, U, p))
      /\ z = t[p] /\ z \in Nat /\ z >= 16 /\ Keeps(t, sz, U \ {p})
  BY DvJoins
<1>2. set_inuse(h, p, z) = j
  BY UsedHeadIs
<1> HIDE DEF t, pin
<1>3. /\ WritesTo(h, j, e, p, z)
      /\ Layout(j.head, j.foot, h.bins, 0, 0, lo, e, h.top, t, U, e)
  BY <1>1, UseHole
<1> HIDE DEF j
<1>4. WellFormed(j) /\ Only(j, h, {"head", "foot"}) /\ IsState(h) /\ IsState(j)
  BY <1>1, <1>3 DEF WritesTo, WellFormed
<1>5. /\ j.bins = h.bins /\ j.top = h.top /\ j.topsize = h.topsize /\ Only(j, h, ChunkFields)
  BY <1>4, FieldsOf
<1>6. Only(n, j, {"dv", "dvsize"}) /\ n.dv = 0 /\ n.dvsize = 0
  BY <1>4, WithDv
<1> HIDE DEF n
<1>7. /\ n.head = j.head /\ n.foot = j.foot /\ n.bins = h.bins /\ n.top = h.top
      /\ n.topsize = h.topsize /\ n.junk = j.junk /\ Only(n, j, ChunkFields)
  BY <1>4, <1>5, <1>6, FieldsOf
<1>8. Only(n, h, ChunkFields) /\ WellFormed(n)
  BY <1>4, <1>5, <1>7, OnlyTransitive, WellFormedIs DEF Only
<1>9. HeapOf(n, lo, e, t, U)
  BY <1>1, <1>3, <1>6, <1>7, <1>8 DEF HeapOf
<1>10. t[p] >= nb
  BY <1>1
<1>11. ResizedTo(n, h, lo, e, sz, U, p, nb)
  BY <1>1, <1>8, <1>9, <1>10 DEF ResizedTo, Freed
<1>12. QED
  BY <1>2, <1>11 DEF n

LEMMA DvShrinks ==
  ASSUME NEW h, NEW lo, NEW e, NEW sz, NEW U, HeapOf(h, lo, e, sz, U), NEW p \in U, p # 0,
         NEW s, s = sz[p], NEW next, next = p + s, next = h.dv, next \in FreeChunks(sz, U, h.top),
         NEW z, z = s + h.dvsize,
         NEW nb \in Nat, NEW b \in Nat, nb >= 16, nb % 8 = 0, b >= 16, nb + b = z,
         NEW r, r = p + nb, NEW pin, pin = pinuse(h, p)
  PROVE  ResizedTo(DvSet(UsedThenFree(h, p, nb, r, b, pin), r, b), h, lo, e, sz, U, p, nb)
<1> DEFINE t == JoinChunks(sz, p)
           c == CutChunk(t, p, nb)
           j == UsedThenFree(h, p, nb, r, b, pin)
           n == DvSet(j, r, b)
           F == FreeChunks(t, U, h.top)
<1>1. /\ WellFormed(h) /\ p \in DOMAIN t /\ p # h.top /\ p \in Nat /\ p \in U /\ h.topsize = t[h.top]
      /\ Layout(h.head, h.foot, h.bins, 0, 0, lo, e, h.top, t, U, p)
      /\ pin \in BOOLEAN /\ (pin <=> PredUsed(lo, t, U, p))
      /\ z = t[p] /\ z \in Nat /\ z >= 16 /\ Keeps(t, sz, U \ {p})
      /\ p + z \in U /\ HasNext(h, p + z, e)
  BY DvJoins
<1> HIDE DEF t
<1>2. nb + b = t[p] /\ r + b \in U /\ HasNext(h, r + b, e) /\ nb > 0 /\ b > 0
  <2>1. nb + b = z
    OBVIOUS
  <2>2. z = t[p] /\ p + z \in U /\ HasNext(h, p + z, e) /\ p \in Nat
    BY <1>1
  <2>3. r + b = p + z
    BY <2>1, <2>2
  <2>4. nb + b = t[p]
    BY <2>1, <2>2
  <2>5. nb > 0 /\ b > 0
    OBVIOUS
  <2>6. QED
    BY <2>2, <2>3, <2>4, <2>5
<1>3. FreeToldTwo(h, j, e, p, nb, pin, r, b)
  BY <1>1, <1>2, UsedThenFreeIs
<1> HIDE DEF j
<1>4. /\ WritesTo(h, j, e, p, nb + b)
      /\ p \in DOMAIN j.head /\ j.head[p] = [size |-> nb, pinuse |-> pin, cinuse |-> TRUE]
      /\ r \in DOMAIN j.head /\ j.head[r] = [size |-> b, pinuse |-> TRUE, cinuse |-> FALSE]
      /\ NoHeads(j.head, p, nb) /\ NoHeads(j.head, r, b)
      /\ r + b \in DOMAIN j.foot /\ j.foot[r + b] = b /\ ~j.head[r + b].pinuse
  BY <1>3 DEF FreeToldTwo, TwoHeads
<1>5. IsCut(c, t, p, nb, b, r, e)
  <2>1. Tiling(lo, e, t)
    BY <1>1 DEF Layout
  <2>2. QED
    BY <1>1, <1>2, <2>1, CutInTwo
<1> HIDE DEF c
<1>6. U \subseteq DOMAIN t /\ h.top \in DOMAIN t
  BY <1>1, LayoutHole
<1>7. c[p] = nb /\ c[r] = b /\ Keeps(c, sz, U \ {p}) /\ c[h.top] = t[h.top]
  BY <1>1, <1>5, <1>6 DEF IsCut, Keeps
<1>8. BinsOK(h.bins, r, b, c, F \cup {r})
  <2>1. BinsOK(h.bins, 0, 0, t, F)
    BY <1>1 DEF Layout
  <2>2. \A x \in F : c[x] = t[x]
    BY <1>1, <1>5 DEF FreeChunks, IsCut
  <2>3. r \notin F /\ r # 0
    BY <1>1, <1>5 DEF FreeChunks, IsCut
  <2> HIDE DEF F
  <2>4. BinsOK(h.bins, 0, 0, c, F)
    BY <2>1, <2>2, BinsFrame
  <2>5. QED
    BY <1>7, <2>3, <2>4, SetDv
<1>9. Layout(j.head, j.foot, h.bins, r, b, lo, e, h.top, c, U, e)
  BY <1>1, <1>2, <1>4, <1>8, FreeRest DEF c
<1>10. WellFormed(j) /\ Only(j, h, {"head", "foot"}) /\ IsState(h) /\ IsState(j)
  BY <1>1, <1>4 DEF WritesTo, WellFormed
<1>11. /\ j.bins = h.bins /\ j.top = h.top /\ j.topsize = h.topsize /\ Only(j, h, ChunkFields)
  BY <1>10, FieldsOf
<1>12. Only(n, j, {"dv", "dvsize"}) /\ n.dv = r /\ n.dvsize = b
  BY <1>10, WithDv
<1> HIDE DEF n
<1>13. /\ n.head = j.head /\ n.foot = j.foot /\ n.bins = h.bins /\ n.top = h.top
      /\ n.topsize = h.topsize /\ n.junk = j.junk /\ Only(n, j, ChunkFields)
  BY <1>10, <1>11, <1>12, FieldsOf
<1>14. Only(n, h, ChunkFields) /\ WellFormed(n)
  BY <1>10, <1>11, <1>13, OnlyTransitive, WellFormedIs DEF Only
<1>15. HeapOf(n, lo, e, c, U)
  BY <1>1, <1>7, <1>9, <1>12, <1>13, <1>14 DEF HeapOf
<1>16. ResizedTo(n, h, lo, e, sz, U, p, nb)
  BY <1>7, <1>14, <1>15 DEF ResizedTo, Freed
<1>17. QED
  BY <1>16 DEF n, j

LEMMA ExtendIntoDvResizes ==
  ASSUME NEW h, NEW lo, NEW e, NEW sz, NEW U, HeapOf(h, lo, e, sz, U), NEW p \in U, p # 0,
         NEW s, s = sz[p], NEW next, next = p + s, next = h.dv, next \in FreeChunks(sz, U, h.top),
         NEW nb \in Nat, nb >= 16, nb % 8 = 0, s + h.dvsize >= nb
  PROVE  ResizedTo(ExtendIntoDv(h, p, s, nb), h, lo, e, sz, U, p, nb)
<1> DEFINE dsize == s + h.dvsize - nb
           pin == pinuse(h, p)
           r == p + nb
           z == s + h.dvsize
<1>1. s \in Nat /\ h.dvsize \in Nat
  BY UsedFacts, DvSize
<1>2. z \in Nat /\ (dsize >= 16 => dsize \in Nat /\ nb + dsize = z) /\ nb <= z
  BY <1>1
<1>3. CASE dsize >= MIN_CHUNK_SIZE
  <2>1. dsize >= 16
    BY <1>3, MinChunkSize
  <2>2. ExtendIntoDv(h, p, s, nb) = DvSet(UsedThenFree(h, p, nb, r, dsize, pin), r, dsize)
    BY <1>3, UsedHeadIs DEF ExtendIntoDv, UsedThenFree, DvSet
  <2> HIDE DEF dsize, pin, r
  <2>3. ResizedTo(DvSet(UsedThenFree(h, p, nb, r, dsize, pin), r, dsize), h, lo, e, sz, U, p, nb)
    <3>1. pin = pinuse(h, p) /\ r = p + nb
      BY DEF pin, r
    <3>2. dsize \in Nat /\ nb + dsize = z
      BY <1>2, <2>1
    <3>3. z = s + h.dvsize
      OBVIOUS
    <3> HIDE DEF z
    <3>4. QED
      BY <2>1, <3>1, <3>2, <3>3, DvShrinks
  <2>4. QED
    BY <2>2, <2>3
<1>4. CASE ~(dsize >= MIN_CHUNK_SIZE)
  <2>1. ExtendIntoDv(h, p, s, nb) = DvSet(set_inuse(h, p, z), 0, 0)
    BY <1>4 DEF ExtendIntoDv, DvSet
  <2>2. z = s + h.dvsize /\ nb <= z
    BY <1>2
  <2> HIDE DEF z
  <2>3. ResizedTo(DvSet(set_inuse(h, p, z), 0, 0), h, lo, e, sz, U, p, nb)
    BY <2>2, DvUsedUp
  <2>4. QED
    BY <2>1, <2>3
<1>5. QED
  BY <1>3, <1>4

-----------------------------------------------------------------------------
(* realloc in place: the block has become as large as was asked, or        *)
(* nothing has changed.                                                    *)
Tried(r, h, lo, e, sz, U, p, nb) ==
  \/ r.mem = p /\ ResizedTo(r.m, h, lo, e, sz, U, p, nb)
  \/ r.mem = 0 /\ r.m = h

LEMMA ResizedByNothing ==
  ASSUME NEW h, NEW lo, NEW e, NEW sz, NEW U, HeapOf(h, lo, e, sz, U), NEW p \in U,
         NEW nb, sz[p] >= nb
  PROVE  ResizedTo(h, h, lo, e, sz, U, p, nb)
<1>1. Only(h, h, ChunkFields)
  BY DEF HeapOf, WellFormed, Only
<1>2. QED
  BY <1>1 DEF ResizedTo, Freed, Keeps

LEMMA TriedIs ==
  ASSUME NEW h, NEW lo, NEW e, NEW sz, NEW U, NEW p, NEW nb, NEW fits, NEW n,
         fits => ResizedTo(n, h, lo, e, sz, U, p, nb)
  PROVE  Tried(IF fits THEN Result(n, p) ELSE Result(h, 0), h, lo, e, sz, U, p, nb)
BY DEF Tried, Result

LEMMA TryReallocTries ==
  ASSUME NEW h, NEW lo, NEW e, NEW sz, NEW U, HeapOf(h, lo, e, sz, U), NEW p \in U, p # 0,
         NEW nb \in Nat, nb >= 16, nb % 8 = 0, h.base \in Nat, h.base <= lo, lo \in Nat
  PROVE  Tried(try_realloc_chunk(h, p, nb), h, lo, e, sz, U, p, nb)
<1> DEFINE s == sz[p]
           next == p + s
           x == sz[next]
           rest == s - nb
<1>1. /\ p \in DOMAIN sz /\ p \in Nat /\ p >= lo /\ p # h.top
      /\ s \in Nat /\ s >= 16 /\ s % 8 = 0 /\ next \in Nat /\ next \in DOMAIN sz /\ next # p
      /\ x \in Nat
      /\ chunksize(h, p) = s /\ cinuse(h, p)
      /\ chunksize(h, next) = x /\ pinuse(h, next) /\ (cinuse(h, next) <=> next \in U)
  BY UsedFacts
<1>2. ok_address(h, p) /\ is_inuse(h, p) /\ ok_next(p, next) /\ next # 0
  BY <1>1 DEF ok_address, is_inuse, ok_next
<1>3. /\ WellFormed(h) /\ h.topsize = sz[h.top]
      /\ Layout(h.head, h.foot, h.bins, h.dv, h.dvsize, lo, e, h.top, sz, U, e)
  BY DEF HeapOf
<1>4. next = h.dv => next # h.top /\ next \in FreeChunks(sz, U, h.top)
  BY <1>2, <1>3 DEF Layout, BinsOK, FreeChunks
<1>5. next \notin U /\ next # h.top => next \in FreeChunks(sz, U, h.top)
  BY <1>1 DEF FreeChunks
<1>6. h.dvsize \in Nat /\ h.topsize \in Nat
  BY DvSize
<1>7. CASE s >= nb
  <2> DEFINE n == IF rest >= MIN_CHUNK_SIZE THEN GiveBackTail(h, p, nb, rest) ELSE h
  <2>1. try_realloc_chunk(h, p, nb) = IF TRUE THEN Result(n, p) ELSE Result(h, 0)
    BY <1>1, <1>2, <1>7 DEF try_realloc_chunk
  <2>2. ResizedTo(n, h, lo, e, sz, U, p, nb)
    <3>1. CASE rest >= MIN_CHUNK_SIZE
      <4>1. rest >= 16 /\ rest \in Nat /\ nb + rest = s
        BY <1>1, <1>7, <3>1, MinChunkSize
      <4>2. Spread(h, h, p, s, lo, e, sz, U) /\ Keeps(sz, sz, U \ {p})
        BY SpreadOpens DEF Keeps
      <4> HIDE DEF rest, s
      <4>3. ResizedTo(GiveBackTail(h, p, nb, rest), h, lo, e, sz, U, p, nb)
        BY <4>1, <4>2, GiveBackTailResizes
      <4>4. QED
        BY <3>1, <4>3
    <3>2. CASE ~(rest >= MIN_CHUNK_SIZE)
      BY <1>7, <3>2, ResizedByNothing
    <3>3. QED
      BY <3>1, <3>2
  <2> HIDE DEF n
  <2>3. Tried(Result(n, p), h, lo, e, sz, U, p, nb)
    BY <2>2 DEF Tried, Result
  <2>4. QED
    BY <2>1, <2>3
<1>8. CASE ~(s >= nb) /\ next = h.top
  <2> DEFINE fits == s + h.topsize > nb
             n == ExtendIntoTop(h, p, s, nb)
  <2>1. try_realloc_chunk(h, p, nb) = IF fits THEN Result(n, p) ELSE Result(h, 0)
    BY <1>1, <1>2, <1>8 DEF try_realloc_chunk
  <2>2. fits => ResizedTo(n, h, lo, e, sz, U, p, nb)
    <3>1. p + s = h.top
      BY <1>8
    <3> HIDE DEF s
    <3>2. s = sz[p]
      BY DEF s
    <3>3. QED
      BY <3>1, <3>2, ExtendIntoTopResizes
  <2> HIDE DEF n, fits
  <2>3. QED
    BY <2>1, <2>2, TriedIs
<1>9. CASE ~(s >= nb) /\ next # h.top /\ next = h.dv
  <2> DEFINE fits == s + h.dvsize >= nb
             n == ExtendIntoDv(h, p, s, nb)
  <2>1. try_realloc_chunk(h, p, nb) = IF fits THEN Result(n, p) ELSE Result(h, 0)
    BY <1>1, <1>2, <1>9 DEF try_realloc_chunk
  <2>2. fits => ResizedTo(n, h, lo, e, sz, U, p, nb)
    <3>1. next = h.dv /\ next \in FreeChunks(sz, U, h.top) /\ next = p + s /\ s = sz[p]
      BY <1>4, <1>9
    <3> HIDE DEF s, next
    <3>2. QED
      BY <3>1, ExtendIntoDvResizes
  <2> HIDE DEF n, fits
  <2>3. QED
    BY <2>1, <2>2, TriedIs
<1>10. CASE ~(s >= nb) /\ next # h.top /\ next # h.dv /\ ~cinuse(h, next)
  <2> DEFINE fits == s + x >= nb
             k == unlink_chunk(h, next, x)
             z == s + x
             n == Trimmed(k, p, z, nb)
             t == JoinChunks(sz, p)
  <2>1. try_realloc_chunk(h, p, nb) = IF fits THEN Result(n, p) ELSE Result(h, 0)
    BY <1>1, <1>2, <1>10 DEF try_realloc_chunk, UnlinkNeighbour
  <2>2. ASSUME fits PROVE ResizedTo(n, h, lo, e, sz, U, p, nb)
    <3>1. next \in FreeChunks(sz, U, h.top) /\ next # h.dv /\ next = p + sz[p] /\ x = sz[next]
      BY <1>1, <1>5, <1>10
    <3>2. z = sz[p] + x /\ nb <= z
      BY <1>1, <2>2
    <3> HIDE DEF s, next, x, z
    <3>3. Spread(k, h, p, z, lo, e, t, U) /\ Keeps(t, sz, U \ {p})
      BY <3>1, <3>2, SpreadGrows
    <3> HIDE DEF k, t
    <3>4. QED
      BY <3>2, <3>3, TrimmedResizes
  <2> HIDE DEF n, fits
  <2>3. QED
    BY <2>1, <2>2, TriedIs
<1>11. CASE ~(s >= nb) /\ next # h.top /\ next # h.dv /\ cinuse(h, next)
  BY <1>1, <1>2, <1>11 DEF try_realloc_chunk, Tried, Result
<1>12. QED
  BY <1>7, <1>8, <1>9, <1>10, <1>11
=============================================================================
