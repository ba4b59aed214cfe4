----------------------------- MODULE BinsProofs -----------------------------
(***************************************************************************)
(* What the bins of dlmalloc hold, for every heap of chunks and every      *)
(* order of calls: lists of the chunks of each size. Small lists are rings *)
(* through their bin; a large list is a ring without one, whose first      *)
(* chunk stands in the bitwise trie of its bin, where the bits of its size *)
(* lead. Good(L, dp) says that the bins hold the lists L and that dp is    *)
(* how deep the nodes of the tries stand. Every call adds a chunk to a     *)
(* list or removes one, the searches find the best fit, and the bins are   *)
(* as do_check_smallbin and do_check_treebin want them.                    *)
(***************************************************************************)
EXTENDS Bins, FiniteSetTheorems, SequenceTheorems, TLAPS

-----------------------------------------------------------------------------
(* Natural numbers. *)

(* The intervals 0 .. k are finite, and finite sets are well-founded.      *)
LEMMA LeastElement ==
  ASSUME NEW T, T \subseteq Nat, T # {}
  PROVE  \E n \in T : \A k \in T : n <= k
<1> DEFINE U == {0 .. k : k \in T}
<1>1. U \subseteq FiniteSubsetsOf(Nat)
  <2>1. \A k \in Nat : IsFiniteSet(0 .. k)
    BY FS_Interval
  <2>2. QED
    BY <2>1 DEF FiniteSubsetsOf
<1>2. U # {}
  OBVIOUS
<1>3. PICK u \in U : \A v \in U : ~(<<v, u>> \in StrictSubsetOrdering(Nat))
  <2> HIDE DEF U
  <2> QED
    BY <1>1, <1>2, FS_StrictSubsetOrderingWellFounded, WFMin
<1>4. PICK n \in T : u = 0 .. n
  BY <1>3
<1>5. ASSUME NEW k \in T, k < n
      PROVE  FALSE
  <2>1. 0 .. k \in U
    OBVIOUS
  <2>2. 0 .. k \subseteq 0 .. n /\ 0 .. k # 0 .. n
    <3>1. n \in 0 .. n /\ n \notin 0 .. k
      BY <1>5
    <3>2. QED
      BY <1>5, <3>1
  <2>3. <<0 .. k, u>> \in StrictSubsetOrdering(Nat)
    <3>1. 0 .. k \in SUBSET Nat /\ 0 .. n \in SUBSET Nat
      OBVIOUS
    <3>2. QED
      BY <2>2, <3>1, <1>4, Zenon DEF StrictSubsetOrdering
  <2>4. QED
    BY <1>3, <2>1, <2>3, Zenon
<1>6. \A k \in T : n <= k
  BY <1>5
<1>7. QED
  BY <1>6

(* Induction, stated of a set of numbers: {n \in Nat : P(n)}.              *)
LEMMA Induction ==
  ASSUME NEW T, 0 \in T, \A n \in Nat : n \in T => n + 1 \in T
  PROVE  Nat \subseteq T
<1>1. SUFFICES ASSUME Nat \ T # {}
               PROVE  FALSE
  OBVIOUS
<1>2. PICK n \in Nat \ T : \A k \in Nat \ T : n <= k
  BY <1>1, LeastElement
<1>3. n # 0 /\ n - 1 \in Nat
  BY <1>2
<1>4. n - 1 \in T
  BY <1>2, <1>3
<1>5. QED
  BY <1>2, <1>3, <1>4

(* w takes N steps from v, as the loops of the code do. *)
Walks(w, N, V, v, step) ==
  /\ w \in [0 .. N -> V] /\ w[0] = v
  /\ \A n \in 1 .. N : w[n] = step[n][w[n - 1]]

(* Such a walk exists, from every v and for every sequence of steps. *)
LEMMA Iteration ==
  ASSUME NEW N \in Nat, NEW V, NEW v \in V, NEW step \in [1 .. N -> [V -> V]]
  PROVE  \E w : Walks(w, N, V, v, step)
<1> DEFINE Goes(w, n) == w[0] = v /\ \A k \in 1 .. n : w[k] = step[k][w[k - 1]]
           T == {n \in Nat : n <= N => \E w \in [0 .. n -> V] : Goes(w, n)}
<1>1. 0 \in T
  <2>1. [k \in 0 .. 0 |-> v] \in [0 .. 0 -> V] /\ Goes([k \in 0 .. 0 |-> v], 0)
    OBVIOUS
  <2>2. QED
    BY <2>1
<1>2. ASSUME NEW n \in Nat, n \in T
      PROVE  n + 1 \in T
  <2> SUFFICES ASSUME n + 1 <= N
               PROVE  \E w \in [0 .. n + 1 -> V] : Goes(w, n + 1)
    OBVIOUS
  <2>1. PICK w \in [0 .. n -> V] : Goes(w, n)
    BY <1>2
  <2> DEFINE u == [k \in 0 .. n + 1 |-> IF k = n + 1 THEN step[n + 1][w[n]] ELSE w[k]]
  <2>2. n + 1 \in 1 .. N /\ w[n] \in V
    OBVIOUS
  <2>3. step[n + 1][w[n]] \in V
    BY <2>2
  <2>4. u \in [0 .. n + 1 -> V]
    BY <2>3
  <2>5. ASSUME NEW k \in 1 .. n + 1
        PROVE  u[k] = step[k][u[k - 1]]
    <3>1. k - 1 \in 0 .. n /\ u[k - 1] = w[k - 1] /\ k \in 0 .. n + 1
      OBVIOUS
    <3>2. CASE k = n + 1
      <4>1. u[k] = step[n + 1][w[n]] /\ k - 1 = n
        BY <3>1, <3>2
      <4>2. QED
        BY <3>1, <3>2, <4>1
    <3>3. CASE k \in 1 .. n
      <4>1. u[k] = w[k]
        BY <3>1, <3>3
      <4>2. QED
        BY <2>1, <3>1, <3>3, <4>1
    <3>4. QED
      BY <3>2, <3>3
  <2>6. u[0] = v
    BY <2>1
  <2>7. QED
    BY <2>4, <2>5, <2>6
<1>3. N \in T
  <2> HIDE DEF T
  <2>1. QED
    BY <1>1, <1>2, Induction
<1>4. QED
  BY <1>3 DEF Walks

(* One more whole part is p more. *)
LEMMA ScaleUp ==
  ASSUME NEW a \in Int, NEW b \in Int, NEW p \in Nat \ {0}, a < b
  PROVE  a * p + p <= b * p
  OBVIOUS

(* Quotient and remainder are the only way to split a number.              *)
LEMMA QuotientIsUnique ==
  ASSUME NEW d \in Nat \ {0}, NEW q \in Int, NEW r \in 0 .. d - 1,
         NEW n \in Int, n = q * d + r
  PROVE  n \div d = q
<1>1. PICK p \in Int : p = n \div d
  OBVIOUS
<1>2. PICK s \in 0 .. d - 1 : s = n % d
  OBVIOUS
<1>3. n = p * d + s
  BY <1>1, <1>2
<1>4. ~(p < q)
  <2>1. p < q => p * d + d <= q * d
    BY ScaleUp
  <2>2. QED
    BY <1>3, <2>1
<1>5. ~(q < p)
  <2>1. q < p => q * d + d <= p * d
    BY ScaleUp
  <2>2. QED
    BY <1>3, <2>1
<1>6. p = q
  BY <1>4, <1>5
<1>7. QED
  BY <1>1, <1>6

(* Quotient and remainder put the number together again. *)
LEMMA QuotientRemainder ==
  ASSUME NEW n \in Nat, NEW d \in Nat \ {0}
  PROVE  /\ n = (n \div d) * d + (n % d)
         /\ n % d \in 0 .. d - 1
         /\ n \div d \in Nat
  <1>1. n = (n \div d) * d + (n % d)
    OBVIOUS
  <1>2. n % d \in 0 .. d - 1
    OBVIOUS
  <1>3. n \div d \in Nat
    OBVIOUS
  <1> QED
    BY <1>1, <1>2, <1>3

(* Dividing by twice as much halves the quotient. *)
LEMMA HalfQuotient ==
  ASSUME NEW n \in Nat, NEW p \in Nat \ {0}, NEW r \in Nat \ {0}, r = 2 * p
  PROVE  n \div p = 2 * (n \div r) + ((n \div p) % 2)
<1>1. PICK q \in Nat : q = n \div p
  BY QuotientRemainder
<1>2. PICK s \in 0 .. p - 1 : s = n % p
  BY QuotientRemainder
<1>3. n = q * p + s
  BY <1>1, <1>2, QuotientRemainder
<1>4. PICK h \in Nat : h = q \div 2
  BY QuotientRemainder
<1>5. PICK b \in 0 .. 1 : b = q % 2
  OBVIOUS
<1>6. q = 2 * h + b
  BY <1>4, <1>5
<1>7. n = h * (2 * p) + (b * p + s)
  <2>1. (2 * h + b) * p = h * (2 * p) + b * p
    OBVIOUS
  <2>2. h * (2 * p) \in Nat /\ b * p \in Nat
    OBVIOUS
  <2>3. QED
    BY <1>3, <1>6, <2>1, <2>2
<1>8. b * p + s \in 0 .. r - 1
  <2>1. b = 0 \/ b = 1
    OBVIOUS
  <2>2. QED
    BY <2>1
<1>9. n \div r = h
  BY <1>7, <1>8, QuotientIsUnique
<1>10. QED
  <2>1. (n \div p) % 2 = b
    BY <1>1, <1>5, Zenon
  <2>2. 2 * (n \div r) + ((n \div p) % 2) = 2 * h + b
    BY <1>9, <2>1, Zenon
  <2>3. QED
    BY <1>1, <1>6, <2>2, Zenon

-----------------------------------------------------------------------------
(* Bits of sizes. *)

(* The exponents that occur. *)
Exponents == (0 .. 23) \cup (0 .. SIZE_T_BITSIZE - 1)

(* Powers of two double, as far as sizes have bits. *)
LEMMA Powers ==
  /\ \A k \in Exponents : 2 ^ k \in Nat \ {0} /\ 2 ^ (k + 1) \in Nat \ {0} /\ 2 ^ (k + 1) = 2 * 2 ^ k
  /\ \A k \in 0 .. 15 : 2 ^ (k + 8) = 256 * 2 ^ k
<1>1. ASSUME NEW k \in 0 .. 23
      PROVE  /\ 2 ^ k \in Nat \ {0} /\ 2 ^ (k + 1) = 2 * 2 ^ k
             /\ k <= 15 => 2 ^ (k + 8) = 256 * 2 ^ k
  <2>1. k = 0 => 2 ^ k = 1 /\ 2 ^ (k + 1) = 2 /\ 2 ^ (k + 8) = 256
    OBVIOUS
  <2>2. k = 1 => 2 ^ k = 2 /\ 2 ^ (k + 1) = 4 /\ 2 ^ (k + 8) = 512
    OBVIOUS
  <2>3. k = 2 => 2 ^ k = 4 /\ 2 ^ (k + 1) = 8 /\ 2 ^ (k + 8) = 1024
    OBVIOUS
  <2>4. k = 3 => 2 ^ k = 8 /\ 2 ^ (k + 1) = 16 /\ 2 ^ (k + 8) = 2048
    OBVIOUS
  <2>5. k = 4 => 2 ^ k = 16 /\ 2 ^ (k + 1) = 32 /\ 2 ^ (k + 8) = 4096
    OBVIOUS
  <2>6. k = 5 => 2 ^ k = 32 /\ 2 ^ (k + 1) = 64 /\ 2 ^ (k + 8) = 8192
    OBVIOUS
  <2>7. k = 6 => 2 ^ k = 64 /\ 2 ^ (k + 1) = 128 /\ 2 ^ (k + 8) = 16384
    OBVIOUS
  <2>8. k = 7 => 2 ^ k = 128 /\ 2 ^ (k + 1) = 256 /\ 2 ^ (k + 8) = 32768
    OBVIOUS
  <2>9. k = 8 => 2 ^ k = 256 /\ 2 ^ (k + 1) = 512 /\ 2 ^ (k + 8) = 65536
    OBVIOUS
  <2>10. k = 9 => 2 ^ k = 512 /\ 2 ^ (k + 1) = 1024 /\ 2 ^ (k + 8) = 131072
    OBVIOUS
  <2>11. k = 10 => 2 ^ k = 1024 /\ 2 ^ (k + 1) = 2048 /\ 2 ^ (k + 8) = 262144
    OBVIOUS
  <2>12. k = 11 => 2 ^ k = 2048 /\ 2 ^ (k + 1) = 4096 /\ 2 ^ (k + 8) = 524288
    OBVIOUS
  <2>13. k = 12 => 2 ^ k = 4096 /\ 2 ^ (k + 1) = 8192 /\ 2 ^ (k + 8) = 1048576
    OBVIOUS
  <2>14. k = 13 => 2 ^ k = 8192 /\ 2 ^ (k + 1) = 16384 /\ 2 ^ (k + 8) = 2097152
    OBVIOUS
  <2>15. k = 14 => 2 ^ k = 16384 /\ 2 ^ (k + 1) = 32768 /\ 2 ^ (k + 8) = 4194304
    OBVIOUS
  <2>16. k = 15 => 2 ^ k = 32768 /\ 2 ^ (k + 1) = 65536 /\ 2 ^ (k + 8) = 8388608
    OBVIOUS
  <2>17. k = 16 => 2 ^ k = 65536 /\ 2 ^ (k + 1) = 131072
    OBVIOUS
  <2>18. k = 17 => 2 ^ k = 131072 /\ 2 ^ (k + 1) = 262144
    OBVIOUS
  <2>19. k = 18 => 2 ^ k = 262144 /\ 2 ^ (k + 1) = 524288
    OBVIOUS
  <2>20. k = 19 => 2 ^ k = 524288 /\ 2 ^ (k + 1) = 1048576
    OBVIOUS
  <2>21. k = 20 => 2 ^ k = 1048576 /\ 2 ^ (k + 1) = 2097152
    OBVIOUS
  <2>22. k = 21 => 2 ^ k = 2097152 /\ 2 ^ (k + 1) = 4194304
    OBVIOUS
  <2>23. k = 22 => 2 ^ k = 4194304 /\ 2 ^ (k + 1) = 8388608
    OBVIOUS
  <2>24. k = 23 => 2 ^ k = 8388608 /\ 2 ^ (k + 1) = 16777216
    OBVIOUS
  <2>25. QED
    BY <2>1, <2>2, <2>3, <2>4, <2>5, <2>6, <2>7, <2>8, <2>9, <2>10, <2>11, <2>12,
       <2>13, <2>14, <2>15, <2>16, <2>17, <2>18, <2>19, <2>20, <2>21, <2>22, <2>23, <2>24
<1>2. ASSUME NEW k \in 0 .. SIZE_T_BITSIZE - 1
      PROVE  2 ^ k \in Nat \ {0} /\ 2 ^ (k + 1) = 2 * 2 ^ k
  BY PowersAssumption
<1>3. \A k \in Exponents : 2 ^ k \in Nat \ {0} /\ 2 ^ (k + 1) = 2 * 2 ^ k
  BY <1>1, <1>2 DEF Exponents
<1>4. ASSUME NEW k \in Exponents
      PROVE  2 ^ (k + 1) \in Nat \ {0}
  <2>1. PICK p \in Nat \ {0} : p = 2 ^ k
    BY <1>3
  <2>2. 2 ^ (k + 1) = 2 * p
    BY <1>3, <2>1
  <2>3. QED
    BY <2>2
<1>5. ASSUME NEW k \in 0 .. 15
      PROVE  2 ^ (k + 8) = 256 * 2 ^ k
  <2>1. k \in 0 .. 23 /\ k <= 15
    OBVIOUS
  <2>2. QED
    BY <1>1, <2>1, Zenon
<1>6. \A k \in Exponents :
        2 ^ k \in Nat \ {0} /\ 2 ^ (k + 1) \in Nat \ {0} /\ 2 ^ (k + 1) = 2 * 2 ^ k
  <2> TAKE k \in Exponents
  <2>1. QED
    BY <1>3, <1>4
<1>7. QED
  BY <1>5, <1>6, Zenon

(* What is left of S above its lowest k bits. *)
Above(S, k) == S \div 2 ^ k

(* One bit more cuts what is left in half. *)
LEMMA AboveHalves ==
  ASSUME NEW S \in Nat, NEW k \in Exponents
  PROVE  /\ Above(S, k) \in Nat /\ Above(S, k + 1) \in Nat
         /\ Bit(S, k) \in 0 .. 1
         /\ Above(S, k) = 2 * Above(S, k + 1) + Bit(S, k)
<1>1. PICK p \in Nat \ {0} : p = 2 ^ k
  BY Powers
<1>2. PICK r \in Nat \ {0} : r = 2 ^ (k + 1) /\ r = 2 * p
  BY <1>1, Powers
<1>3. S \div p \in Nat /\ S \div r \in Nat /\ S \div p = 2 * (S \div r) + ((S \div p) % 2)
  BY <1>2, HalfQuotient, QuotientRemainder
<1>4. (S \div p) % 2 \in 0 .. 1
  BY <1>3
<1>5. QED
  BY <1>1, <1>2, <1>3, <1>4 DEF Above, Bit

(* A larger size is not smaller in its upper bits. *)
LEMMA AboveIsMonotone ==
  ASSUME NEW S \in Nat, NEW U \in Nat, S <= U, NEW k \in Exponents
  PROVE  Above(S, k) <= Above(U, k)
<1>1. PICK p \in Nat \ {0} : p = 2 ^ k
  BY Powers
<1>2. PICK a \in Nat, b \in Nat : a = S \div p /\ b = U \div p
  BY QuotientRemainder
<1>3. a * p <= S /\ U < b * p + p
  <2>1. PICK s \in 0 .. p - 1, u \in 0 .. p - 1 : s = S % p /\ u = U % p
    BY QuotientRemainder
  <2>2. S = a * p + s /\ U = b * p + u
    BY <1>2, <2>1, QuotientRemainder
  <2>3. a * p \in Nat /\ b * p \in Nat
    OBVIOUS
  <2>4. QED
    BY <2>2, <2>3
<1>4. ~(b < a)
  <2>1. b < a => b * p + p <= a * p
    BY ScaleUp
  <2>2. a * p \in Nat /\ b * p \in Nat
    OBVIOUS
  <2>3. QED
    BY <1>3, <2>1, <2>2
<1>5. QED
  BY <1>1, <1>2, <1>4 DEF Above

(* The size of a tree bin below the last has its top bit at K + 8, and the *)
(* bit below tells the two bins of that K apart.                           *)
TopBitAt(S, K) ==
  /\ K \in 0 .. 15 /\ 2 ^ (K + 8) <= S /\ S < 2 ^ (K + 9)
  /\ compute_tree_index(S) = 2 * K + Bit(S, K + 7)

(* A size that belongs into a tree bin. *)
IsLarge(S) == IsChunkSize(S) /\ ~is_small(S)

(* The sizes that are not small: at least MIN_LARGE_SIZE, and words. *)
LEMMA LargeIsLarge ==
  ASSUME NEW S, IsLarge(S)
  PROVE  S \in Nat /\ S >= 256 /\ S < WordSize
<1>1. S \in Nat /\ S < WordSize
  BY DEF IsLarge, IsChunkSize
<1>2. ~(S \div 8 < 32)
  BY DEF IsLarge, is_small, small_index, NSMALLBINS, SMALLBIN_WIDTH
<1>3. QED
  BY <1>1, <1>2

(* compute_tree_index: the last bin, or half a power of two. *)
LEMMA IndexCases ==
  ASSUME NEW S, IsLarge(S)
  PROVE  \/ compute_tree_index(S) = 31 /\ S >= 2 ^ 24
         \/ \E K \in 0 .. 15 : TopBitAt(S, K)
<1>1. S \in Nat /\ S >= 256
  BY LargeIsLarge
<1>2. PICK X \in Nat : X = S \div 2 ^ TREEBIN_SHIFT /\ 256 * X <= S /\ S < 256 * X + 256 /\ X > 0
  <2>1. 2 ^ TREEBIN_SHIFT = 256
    BY DEF TREEBIN_SHIFT
  <2>2. S \div 256 \in Nat /\ 256 * (S \div 256) <= S /\ S < 256 * (S \div 256) + 256 /\ S \div 256 > 0
    BY <1>1
  <2>3. QED
    BY <2>1, <2>2
<1> DEFINE K == CHOOSE k \in 0 .. 15 : 2 ^ k <= X /\ X < 2 ^ (k + 1)
<1>3. compute_tree_index(S) = IF X = 0 THEN 0
                              ELSE IF X > 65535 THEN 31
                              ELSE 2 * K + Bit(S, K + TREEBIN_SHIFT - 1)
  BY <1>2 DEF compute_tree_index, NTREEBINS
<1>4. CASE X > 65535
  <2>1. 2 ^ 24 = 256 * 65536
    OBVIOUS
  <2>2. QED
    BY <1>1, <1>2, <1>3, <1>4, <2>1
<1>5. CASE X <= 65535
  <2>1. \E k \in 0 .. 15 : 2 ^ k <= X /\ X < 2 ^ (k + 1)
    <3>1. /\ 2^0 = 1 /\ 2^1 = 2 /\ 2^2 = 4 /\ 2^3 = 8 /\ 2^4 = 16 /\ 2^5 = 32
          /\ 2^6 = 64 /\ 2^7 = 128 /\ 2^8 = 256 /\ 2^9 = 512 /\ 2^10 = 1024
          /\ 2^11 = 2048 /\ 2^12 = 4096 /\ 2^13 = 8192 /\ 2^14 = 16384 /\ 2^15 = 32768 /\ 2^16 = 65536
      OBVIOUS
    <3> DEFINE T == {k \in Nat : X < 2 ^ (k + 1)}
    <3>2. 15 \in T
      BY <1>5, 15 + 1 = 16, <3>1
    <3>3. PICK k \in T : \A j \in T : k <= j
      BY <3>2, LeastElement
    <3>4. k \in 0 .. 15
      <4> HIDE DEF T
      <4>1. T \subseteq Nat
        BY DEF T
      <4>2. QED
        BY <3>2, <3>3, <4>1
    <3>5. 2 ^ k <= X
      <4>1. CASE k = 0
        BY <1>2, <4>1
      <4>2. CASE k # 0
        <5>1. k - 1 \in Nat /\ (k - 1) + 1 = k /\ k - 1 \in Exponents
          BY <3>4, <4>2 DEF Exponents
        <5>2. k - 1 \notin T
          BY <3>3, <5>1
        <5>3. ~(X < 2 ^ ((k - 1) + 1)) /\ 2 ^ ((k - 1) + 1) \in Nat
          BY <5>1, <5>2, Powers
        <5>4. ~(X < 2 ^ k) /\ 2 ^ k \in Nat
          BY <5>1, <5>3
        <5>5. QED
          BY <5>4
      <4>3. QED
        BY <4>1, <4>2
    <3>6. QED
      BY <3>3, <3>4, <3>5
  <2>2. K \in 0 .. 15 /\ 2 ^ K <= X /\ X < 2 ^ (K + 1)
    BY <2>1
  <2> HIDE DEF K
  <2>3. PICK k \in 0 .. 15 : k = K
    BY <2>2
  <2>4. k \in Exponents /\ k + 8 \in Exponents /\ (k + 8) + 1 = k + 9
    BY DEF Exponents
  <2>5. PICK p \in Nat : p = 2 ^ k /\ 2 ^ (k + 1) = 2 * p
    BY <2>4, Powers
  <2>6. 2 ^ (k + 8) = 256 * p
    BY <2>5, Powers
  <2>7. 2 ^ (k + 9) = 2 * (256 * p)
    <3>1. 2 ^ ((k + 8) + 1) = 2 * 2 ^ (k + 8)
      BY <2>4, Powers
    <3>2. QED
      BY <2>4, <2>6, <3>1
  <2>8. p <= X /\ X < 2 * p
    BY <2>2, <2>3, <2>5
  <2>9. 256 * p <= S /\ S < 2 * (256 * p)
    BY <1>1, <1>2, <2>8
  <2>10. compute_tree_index(S) = 2 * k + Bit(S, k + 7)
    <3>1. compute_tree_index(S) = 2 * K + Bit(S, K + TREEBIN_SHIFT - 1)
      BY <1>2, <1>3, <1>5
    <3>2. k + TREEBIN_SHIFT - 1 = k + 7
      BY DEF TREEBIN_SHIFT
    <3>3. QED
      BY <2>3, <3>1, <3>2
  <2>11. TopBitAt(S, k)
    BY <2>6, <2>7, <2>9, <2>10 DEF TopBitAt
  <2>12. QED
    BY <2>11
<1>6. QED
  BY <1>2, <1>4, <1>5

(* Powers of two grow with the exponent. *)
LEMMA PowersGrow ==
  ASSUME NEW j \in 0 .. 24, NEW k \in j .. 24
  PROVE  2 ^ j \in Nat /\ 2 ^ k \in Nat /\ 2 ^ j <= 2 ^ k
<1>0. 2 ^ j \in Nat
  <2>1. CASE j \in 0 .. 23
    BY <2>1, Powers DEF Exponents
  <2>2. CASE j = 24
    <3>1. 2 ^ 24 \in Nat
      OBVIOUS
    <3>2. QED
      BY <2>2, <3>1
  <2>3. QED
    BY <2>1, <2>2
<1> DEFINE T == {n \in Nat : j + n <= 24 => 2 ^ (j + n) \in Nat /\ 2 ^ j <= 2 ^ (j + n)}
<1>1. 0 \in T
  <2>1. j + 0 = j
    OBVIOUS
  <2>2. QED
    BY <1>0, <2>1
<1>2. ASSUME NEW n \in Nat, n \in T
      PROVE  n + 1 \in T
  <2> SUFFICES ASSUME j + (n + 1) <= 24
               PROVE  2 ^ (j + (n + 1)) \in Nat /\ 2 ^ j <= 2 ^ (j + (n + 1))
    OBVIOUS
  <2>1. j + n \in Exponents /\ (j + n) + 1 = j + (n + 1) /\ j + n <= 24
    BY DEF Exponents
  <2>2. PICK p \in Nat : p = 2 ^ (j + n)
    BY <2>1, Powers
  <2>3. 2 ^ ((j + n) + 1) = 2 * p
    BY <2>1, <2>2, Powers
  <2>4. 2 ^ j <= p
    BY <1>2, <2>1, <2>2
  <2>5. QED
    BY <1>0, <2>1, <2>3, <2>4
<1>3. k - j \in T
  <2> HIDE DEF T
  <2>1. QED
    BY <1>1, <1>2, Induction
<1>4. j + (k - j) = k
  OBVIOUS
<1>5. QED
  BY <1>0, <1>3, <1>4

(* The bits of a size from the top bit of its bin upwards.                 *)
LEMMA TopOfSize ==
  ASSUME NEW S, IsLarge(S), NEW K, TopBitAt(S, K)
  PROVE  /\ Above(S, K + 7) = 2 + Bit(S, K + 7)
         /\ Bit(S, K + 7) \in 0 .. 1
<1>1. S \in Nat /\ K \in 0 .. 15
  BY LargeIsLarge DEF TopBitAt
<1>2. K + 7 \in Exponents /\ K + 8 \in Exponents /\ (K + 7) + 1 = K + 8 /\ (K + 8) + 1 = K + 9
  BY <1>1 DEF Exponents
<1>3. PICK p \in Nat \ {0} : p = 2 ^ (K + 8) /\ 2 ^ (K + 9) = 2 * p
  <2>1. 2 ^ ((K + 8) + 1) = 2 * 2 ^ (K + 8) /\ 2 ^ (K + 8) \in Nat \ {0}
    BY <1>2, Powers
  <2>2. QED
    BY <1>2, <2>1
<1>4. p <= S /\ S < 2 * p
  BY <1>3 DEF TopBitAt
<1>5. S - p \in 0 .. p - 1 /\ S = 1 * p + (S - p)
  BY <1>1, <1>4
<1>6. S \div p = 1
  BY <1>1, <1>5, QuotientIsUnique
<1>7. Above(S, K + 8) = 1
  BY <1>3, <1>6 DEF Above
<1>8. /\ Bit(S, K + 7) \in 0 .. 1
      /\ Above(S, K + 7) = 2 * Above(S, K + 8) + Bit(S, K + 7)
  BY <1>1, <1>2, AboveHalves
<1>9. QED
  BY <1>7, <1>8

(* A large size has one of the NTREEBINS bins. *)
LEMMA IndexInRange ==
  ASSUME NEW S, IsLarge(S)
  PROVE  compute_tree_index(S) \in 0 .. 31
<1>1. CASE compute_tree_index(S) = 31
  BY <1>1
<1>2. CASE \E K \in 0 .. 15 : TopBitAt(S, K)
  <2>1. PICK K \in 0 .. 15 : TopBitAt(S, K)
    BY <1>2
  <2>2. Bit(S, K + 7) \in 0 .. 1 /\ compute_tree_index(S) = 2 * K + Bit(S, K + 7)
    BY <2>1, TopOfSize DEF TopBitAt
  <2>3. QED
    BY <2>2
<1>3. QED
  BY <1>1, <1>2, IndexCases

(* Larger chunks are not in lower bins. *)
LEMMA IndexIsMonotone ==
  ASSUME NEW S, IsLarge(S), NEW U, IsLarge(U), S <= U
  PROVE  compute_tree_index(S) <= compute_tree_index(U)
<1>1. S \in Nat /\ U \in Nat
  BY LargeIsLarge
<1>2. CASE compute_tree_index(U) = 31
  BY <1>2, IndexInRange
<1>3. CASE \E K \in 0 .. 15 : TopBitAt(U, K)
  <2>1. PICK k \in 0 .. 15 : TopBitAt(U, k)
    BY <1>3
  <2>2. ~(S >= 2 ^ 24)
    <3>1. k + 9 \in 0 .. 24 /\ 24 \in k + 9 .. 24
      BY <2>1
    <3>2. 2 ^ (k + 9) \in Nat /\ 2 ^ 24 \in Nat /\ 2 ^ (k + 9) <= 2 ^ 24
      BY <3>1, PowersGrow
    <3>3. U < 2 ^ (k + 9)
      BY <2>1 DEF TopBitAt
    <3>4. QED
      BY <1>1, <3>1, <3>2, <3>3
  <2>3. PICK j \in 0 .. 15 : TopBitAt(S, j)
    BY <2>2, IndexCases
  <2>4. j <= k
    <3> SUFFICES ASSUME k < j
                 PROVE  FALSE
      OBVIOUS
    <3>1. k + 9 \in 0 .. 24 /\ j + 8 \in k + 9 .. 24
      OBVIOUS
    <3>2. 2 ^ (k + 9) \in Nat /\ 2 ^ (j + 8) \in Nat /\ 2 ^ (k + 9) <= 2 ^ (j + 8)
      BY <3>1, PowersGrow
    <3>3. U < 2 ^ (k + 9) /\ 2 ^ (j + 8) <= S
      BY <2>1, <2>3 DEF TopBitAt
    <3>4. QED
      BY <1>1, <3>2, <3>3
  <2>5. /\ Bit(S, j + 7) \in 0 .. 1 /\ Bit(U, k + 7) \in 0 .. 1
        /\ Above(S, j + 7) = 2 + Bit(S, j + 7) /\ Above(U, k + 7) = 2 + Bit(U, k + 7)
    BY <2>1, <2>3, TopOfSize
  <2>6. /\ compute_tree_index(S) = 2 * j + Bit(S, j + 7)
        /\ compute_tree_index(U) = 2 * k + Bit(U, k + 7)
    BY <2>1, <2>3 DEF TopBitAt
  <2>7. CASE j = k
    <3>1. j + 7 \in Exponents
      BY DEF Exponents
    <3>2. Above(S, j + 7) <= Above(U, j + 7)
      BY <1>1, <3>1, AboveIsMonotone
    <3>3. QED
      BY <2>5, <2>6, <2>7, <3>2
  <2>8. CASE j < k
    BY <2>5, <2>6, <2>8
  <2>9. QED
    BY <2>4, <2>7, <2>8
<1>4. QED
  BY <1>2, <1>3, IndexCases

(* Sizes of one tree bin differ only in the bits its trie looks at.        *)
LEMMA SameIndexSameTop ==
  ASSUME NEW S, IsLarge(S), NEW U, IsLarge(U), compute_tree_index(S) = compute_tree_index(U)
  PROVE  \E b \in Nat : /\ b = bit_for_tree_index(compute_tree_index(S))
                       /\ Above(S, b + 1) = Above(U, b + 1)
                       /\ \A k \in 0 .. b : k \in Exponents
<1>1. S \in Nat /\ U \in Nat /\ S < WordSize /\ U < WordSize
  BY LargeIsLarge
<1>2. CASE compute_tree_index(S) = 31
  <2>1. bit_for_tree_index(compute_tree_index(S)) = SIZE_T_BITSIZE - 1
    BY <1>2 DEF bit_for_tree_index, NTREEBINS
  <2>2. SIZE_T_BITSIZE \in Nat \ {0}
    <3>1. SIZE_T_BITSIZE = 0 => WordSize = 1
      BY WordAssumption, 2 ^ 0 = 1
    <3>2. QED
      BY WordAssumption, <3>1
  <2>3. WordSize \in Nat \ {0} /\ 2 ^ SIZE_T_BITSIZE = WordSize
    BY WordAssumption
  <2>4. S = 0 * WordSize + S /\ U = 0 * WordSize + U
    BY <1>1, <2>3
  <2>5. S \in 0 .. WordSize - 1 /\ U \in 0 .. WordSize - 1
    BY <1>1, <2>3
  <2>6. S \div WordSize = 0 /\ U \div WordSize = 0
    BY <2>3, <2>4, <2>5, QuotientIsUnique
  <2>7. (SIZE_T_BITSIZE - 1) + 1 = SIZE_T_BITSIZE
    BY <2>2
  <2>8. /\ SIZE_T_BITSIZE - 1 \in Nat
        /\ Above(S, (SIZE_T_BITSIZE - 1) + 1) = 0 /\ Above(U, (SIZE_T_BITSIZE - 1) + 1) = 0
        /\ \A k \in 0 .. SIZE_T_BITSIZE - 1 : k \in Exponents
    BY <2>2, <2>3, <2>6, <2>7 DEF Above, Exponents
  <2>9. QED
    BY <2>1, <2>8
<1>3. CASE compute_tree_index(S) # 31
  <2>1. PICK j \in 0 .. 15, k \in 0 .. 15 : TopBitAt(S, j) /\ TopBitAt(U, k)
    BY <1>3, IndexCases
  <2>2. /\ Bit(S, j + 7) \in 0 .. 1 /\ Bit(U, k + 7) \in 0 .. 1
        /\ Above(S, j + 7) = 2 + Bit(S, j + 7) /\ Above(U, k + 7) = 2 + Bit(U, k + 7)
    BY <2>1, TopOfSize
  <2>3. /\ compute_tree_index(S) = 2 * j + Bit(S, j + 7)
        /\ compute_tree_index(S) = 2 * k + Bit(U, k + 7)
    BY <2>1 DEF TopBitAt
  <2>4. j = k /\ Bit(S, j + 7) = Bit(U, k + 7) /\ compute_tree_index(S) \div 2 = j
    BY <2>2, <2>3
  <2>5. bit_for_tree_index(compute_tree_index(S)) = j + 6
    BY <1>3, <2>4 DEF bit_for_tree_index, NTREEBINS, TREEBIN_SHIFT
  <2>6. (j + 6) + 1 = j + 7 /\ j + 6 \in Nat /\ \A i \in 0 .. j + 6 : i \in Exponents
    BY DEF Exponents
  <2>7. Above(S, (j + 6) + 1) = Above(U, (j + 6) + 1)
    BY <2>2, <2>4, <2>6
  <2>8. QED
    BY <2>5, <2>6, <2>7
<1>4. QED
  BY <1>2, <1>3

(* The instances share the size arithmetic. *)
LEMMA TreeBit ==
  /\ Large!TREEBIN_SHIFT = TREEBIN_SHIFT /\ Large!NTREEBINS = NTREEBINS
  /\ \A n, b : Large!Bit(n, b) = Bit(n, b)
BY Zenon DEF Large!TREEBIN_SHIFT, TREEBIN_SHIFT, Large!NTREEBINS, NTREEBINS, Large!Bit, Bit

(* The instances share the index arithmetic. *)
LEMMA TreeIndex ==
  /\ \A S : Large!compute_tree_index(S) = compute_tree_index(S)
  /\ \A i : Large!bit_for_tree_index(i) = bit_for_tree_index(i)
<1>1. \A S : Large!compute_tree_index(S) = compute_tree_index(S)
  BY SMT DEF Large!compute_tree_index, compute_tree_index, Large!TREEBIN_SHIFT, TREEBIN_SHIFT,
     Large!NTREEBINS, NTREEBINS, Large!Bit, Bit
<1>2. \A i : Large!bit_for_tree_index(i) = bit_for_tree_index(i)
  BY TreeBit, Zenon DEF Large!bit_for_tree_index, bit_for_tree_index
<1>3. QED
  BY <1>1, <1>2, Zenon

(* The bit of S that decides at depth d of the trie of its bin. *)
Turn(S, d) == ChildIndex(S, compute_tree_index(S), d)

(* The turns of the instance are those of the lemmas. *)
LEMMA TurnOfTree == \A S, d : Large!Turn(S, d) = Turn(S, d)
BY TreeBit, TreeIndex, Zenon DEF Large!Turn, Turn, Large!ChildIndex, ChildIndex

(* A turn leads to the left or to the right child. *)
LEMMA TurnIsABit ==
  ASSUME NEW S, IsLarge(S), NEW d \in Nat
  PROVE  Turn(S, d) \in 0 .. 1
<1>1. PICK b \in Nat : /\ b = bit_for_tree_index(compute_tree_index(S))
                      /\ \A k \in 0 .. b : k \in Exponents
  BY SameIndexSameTop
<1>2. Turn(S, d) = IF b - d >= 0 THEN Bit(S, b - d) ELSE 0
  BY <1>1 DEF Turn, ChildIndex
<1>3. CASE b - d >= 0
  <2>1. b - d \in Exponents
    BY <1>1, <1>3
  <2>2. Bit(S, b - d) \in 0 .. 1
    BY <2>1, AboveHalves, LargeIsLarge
  <2>3. QED
    BY <1>2, <1>3, <2>2
<1>4. QED
  BY <1>2, <1>3

(* The first turn at which two sizes of a bin part tells which is smaller: *)
(* everything in the left subtree is smaller than all in the right one.    *)
LEMMA TurnsOrderSizes ==
  ASSUME NEW S, IsLarge(S), NEW U, IsLarge(U), compute_tree_index(S) = compute_tree_index(U),
         NEW d \in Nat, \A e \in 0 .. d - 1 : Turn(S, e) = Turn(U, e),
         Turn(S, d) = 0, Turn(U, d) = 1
  PROVE  S < U
<1>1. S \in Nat /\ U \in Nat
  BY LargeIsLarge
<1>2. PICK b \in Nat : /\ b = bit_for_tree_index(compute_tree_index(S))
                      /\ Above(S, b + 1) = Above(U, b + 1)
                      /\ \A k \in 0 .. b : k \in Exponents
  BY SameIndexSameTop
<1>3. \A e \in Nat : /\ Turn(S, e) = (IF b - e >= 0 THEN Bit(S, b - e) ELSE 0)
                    /\ Turn(U, e) = (IF b - e >= 0 THEN Bit(U, b - e) ELSE 0)
  BY <1>2 DEF Turn, ChildIndex
<1>4. b - d >= 0
  <2> SUFFICES ASSUME ~(b - d >= 0)
               PROVE  FALSE
    OBVIOUS
  <2>1. Turn(U, d) = 0
    BY <1>3
  <2>2. QED
    BY <2>1
<1>5. \A k \in 0 .. b :
        /\ Above(S, k) \in Nat /\ Above(S, k + 1) \in Nat /\ Bit(S, k) \in 0 .. 1
        /\ Above(S, k) = 2 * Above(S, k + 1) + Bit(S, k)
        /\ Above(U, k) \in Nat /\ Above(U, k + 1) \in Nat /\ Bit(U, k) \in 0 .. 1
        /\ Above(U, k) = 2 * Above(U, k + 1) + Bit(U, k)
  BY <1>1, <1>2, AboveHalves
<1> DEFINE T == {n \in Nat : n <= d => Above(S, (b - n) + 1) = Above(U, (b - n) + 1)}
<1>6. 0 \in T
  <2>1. (b - 0) + 1 = b + 1
    OBVIOUS
  <2>2. QED
    BY <1>2, <2>1
<1>7. ASSUME NEW n \in Nat, n \in T
      PROVE  n + 1 \in T
  <2> SUFFICES ASSUME n + 1 <= d
               PROVE  Above(S, (b - (n + 1)) + 1) = Above(U, (b - (n + 1)) + 1)
    OBVIOUS
  <2>1. PICK k \in 0 .. b : k = b - n /\ (b - (n + 1)) + 1 = k
    BY <1>4
  <2>2. Above(S, k + 1) = Above(U, k + 1)
    BY <1>7, <2>1
  <2>3. n \in 0 .. d - 1 /\ b - n >= 0
    BY <1>4
  <2>4. Turn(S, n) = Bit(S, k) /\ Turn(U, n) = Bit(U, k) /\ Turn(S, n) = Turn(U, n)
    BY <1>3, <2>1, <2>3
  <2>5. Above(S, k) = Above(U, k)
    BY <1>5, <2>2, <2>4
  <2>6. QED
    BY <2>1, <2>5
<1>8. d \in T
  <2> HIDE DEF T
  <2>1. QED
    BY <1>6, <1>7, Induction
<1>9. PICK k \in 0 .. b : k = b - d
  BY <1>4
<1>10. Above(S, k + 1) = Above(U, k + 1)
  BY <1>8, <1>9
<1>11. Bit(S, k) = 0 /\ Bit(U, k) = 1
  <2>1. Turn(S, d) = Bit(S, b - d) /\ Turn(U, d) = Bit(U, b - d)
    BY <1>3, <1>4
  <2>2. QED
    BY <1>9, <2>1
<1>12. Above(S, k) < Above(U, k)
  BY <1>5, <1>10, <1>11
<1>13. ~(U <= S)
  <2>1. U <= S => Above(U, k) <= Above(S, k)
    BY <1>1, <1>2, AboveIsMonotone
  <2>2. QED
    BY <1>5, <1>12, <2>1
<1>14. QED
  BY <1>1, <1>13

-----------------------------------------------------------------------------
(* The tries.                                                              *)

(* The tree bin of a node, and whether two nodes have the same way to      *)
(* depth d.                                                                *)
Index(x)       == compute_tree_index(size[x])
Agree(x, y, d) == \A e \in 0 .. d - 1 : Turn(size[x], e) = Turn(size[y], e)
Indices        == {compute_tree_index(S) : S \in LargeSizes}
MaybeChunk     == Chunks \cup {Null}

(* The variables of the tries have their types, and treemap marks the      *)
(* roots.                                                                  *)
TrieTypes ==
  /\ root \in [Indices -> MaybeChunk]
  /\ child \in [Chunks -> [0 .. 1 -> MaybeChunk]]
  /\ parent \in [Chunks -> MaybeChunk \cup {Large!treebin_at(i) : i \in Indices}]
  /\ size \in [Chunks -> AllSizes \cup {0}]
  /\ treemap = {i \in Indices : root[i] # Null}

(* x is the root of its bin. *)
IsRoot(x, dp) ==
  /\ parent[x] = Large!treebin_at(Index(x))
  /\ root[Index(x)] = x
  /\ dp[x] = 0

(* x is where its size belongs below its parent. *)
Hangs(x, B, dp) ==
  /\ parent[x] \in B
  /\ Index(parent[x]) = Index(x)
  /\ dp[x] = dp[parent[x]] + 1
  /\ child[parent[x]][Turn(size[x], dp[parent[x]])] = x
  /\ Agree(x, parent[x], dp[parent[x]])

(* The nodes are chunks of large sizes, one for each size. *)
IsBases(B) ==
  /\ B \subseteq Chunks
  /\ \A x \in B : size[x] \in LargeSizes
  /\ \A x, y \in B : size[x] = size[y] => x = y

(* Every node is the root of its bin or hangs below its parent. *)
ParentsOK(B, dp) == \A x \in B : IsRoot(x, dp) \/ Hangs(x, B, dp)

(* Children are nodes, know their parent, and are on their side. *)
ChildrenOK(B, dp) ==
  \A x \in B, c \in 0 .. 1 :
    child[x][c] # Null =>
      child[x][c] \in B /\ parent[child[x][c]] = x /\ Turn(size[child[x][c]], dp[x]) = c

(* Roots are nodes of their bin. *)
RootsOK(B) ==
  \A i \in Indices :
    root[i] # Null => root[i] \in B /\ Index(root[i]) = i /\ parent[root[i]] = Large!treebin_at(i)

(* B are the nodes of the tries, and dp how deep they are.                 *)
Trie(B, dp) ==
  /\ TrieTypes
  /\ IsBases(B)
  /\ dp \in [Chunks -> Nat]
  /\ ParentsOK(B, dp)
  /\ ChildrenOK(B, dp)
  /\ RootsOK(B)

(* The large sizes of a workload are large. *)
LEMMA SizesAreLarge ==
  ASSUME NEW S \in LargeSizes
  PROVE  IsLarge(S)
<1>1. S \in AllSizes /\ S \notin SmallSizes
  BY DEF LargeSizes
<1>2. PICK w \in Workloads : S \in w.sizes
  BY <1>1 DEF AllSizes
<1>3. IsChunkSize(S)
  BY <1>2, BinsAssumption
<1>4. ~is_small(S)
  BY <1>1 DEF SmallSizes
<1>5. QED
  BY <1>3, <1>4 DEF IsLarge

(* The tree bins of a workload are tree bins. *)
LEMMA IndicesInRange == Indices \subseteq 0 .. 31
BY SizesAreLarge, IndexInRange DEF Indices

(* treebin_at(i) is not the address of a chunk. *)
LEMMA TreebinsAreDistinct ==
  ASSUME NEW i \in Indices
  PROVE  Large!treebin_at(i) \notin MaybeChunk
<1>1. i \in 0 .. NTREEBINS - 1
  BY IndicesInRange DEF NTREEBINS
<1>2. QED
  BY <1>1, BinsAssumption DEF Large!treebin_at, MaybeChunk

(* What is known of a node of a trie. *)
LEMMA BaseFacts ==
  ASSUME NEW B, IsBases(B), TrieTypes, NEW x \in B
  PROVE  /\ x \in Chunks /\ x # Null
         /\ size[x] \in LargeSizes /\ IsLarge(size[x])
         /\ Index(x) \in Indices
         /\ Large!treebin_at(Index(x)) \notin MaybeChunk
<1>1. x \in Chunks /\ x # Null
  BY BinsAssumption DEF IsBases
<1>2. size[x] \in LargeSizes
  BY DEF IsBases
<1>3. Index(x) \in Indices
  BY <1>2 DEF Index, Indices
<1>4. QED
  BY <1>1, <1>2, <1>3, SizesAreLarge, TreebinsAreDistinct

(* What ParentsOK says of a node at depth 0, and of one below it. *)
LEMMA AtDepth ==
  ASSUME NEW B, NEW dp, Trie(B, dp), NEW x \in B
  PROVE  /\ dp[x] \in Nat
         /\ dp[x] = 0 => IsRoot(x, dp)
         /\ dp[x] # 0 => Hangs(x, B, dp) /\ dp[parent[x]] \in Nat
<1>1. x \in Chunks
  BY BaseFacts DEF Trie
<1>2. dp[x] \in Nat
  BY <1>1 DEF Trie
<1>3. IsRoot(x, dp) \/ Hangs(x, B, dp)
  BY DEF Trie, ParentsOK
<1>4. ASSUME Hangs(x, B, dp)
      PROVE  dp[parent[x]] \in Nat /\ dp[x] # 0
  <2>1. parent[x] \in B /\ dp[x] = dp[parent[x]] + 1
    BY <1>4 DEF Hangs
  <2>2. parent[x] \in Chunks
    BY <2>1 DEF Trie, IsBases
  <2>3. dp[parent[x]] \in Nat
    BY <2>2 DEF Trie
  <2>4. QED
    BY <2>1, <2>3
<1>5. QED
  BY <1>2, <1>3, <1>4 DEF IsRoot

(* No two nodes of a trie stand at the same place. *)
LEMMA PlacesAreUnique ==
  ASSUME NEW B, NEW dp, Trie(B, dp), NEW x \in B, NEW y \in B,
         Index(x) = Index(y), dp[x] = dp[y], Agree(x, y, dp[x])
  PROVE  x = y
<1> DEFINE P(n) == \A u, v \in B : Index(u) = Index(v) /\ dp[u] = n /\ dp[v] = n /\ Agree(u, v, n) => u = v
           T == {n \in Nat : P(n)}
<1>1. 0 \in T
  <2> SUFFICES ASSUME NEW u \in B, NEW v \in B, Index(u) = Index(v), dp[u] = 0, dp[v] = 0
               PROVE  u = v
    OBVIOUS
  <2>1. IsRoot(u, dp) /\ IsRoot(v, dp)
    BY AtDepth
  <2>2. QED
    BY <2>1 DEF IsRoot
<1>2. ASSUME NEW n \in Nat, n \in T
      PROVE  n + 1 \in T
  <2> SUFFICES ASSUME NEW u \in B, NEW v \in B, Index(u) = Index(v), dp[u] = n + 1, dp[v] = n + 1,
                      Agree(u, v, n + 1)
               PROVE  u = v
    OBVIOUS
  <2>1. Hangs(u, B, dp) /\ Hangs(v, B, dp) /\ dp[parent[u]] \in Nat /\ dp[parent[v]] \in Nat
    BY AtDepth
  <2>2. PICK p \in B, q \in B : p = parent[u] /\ q = parent[v]
    BY <2>1 DEF Hangs
  <2>3. Index(p) = Index(q) /\ dp[p] = n /\ dp[q] = n
    BY <2>1, <2>2 DEF Hangs
  <2>4. Agree(u, p, n) /\ Agree(v, q, n)
    BY <2>1, <2>2, <2>3 DEF Hangs
  <2>5. Agree(p, q, n)
    BY <2>4 DEF Agree
  <2>6. p = q
    BY <1>2, <2>3, <2>5
  <2>7. child[p][Turn(size[u], n)] = u /\ child[q][Turn(size[v], n)] = v
    BY <2>1, <2>2, <2>3 DEF Hangs
  <2>8. Turn(size[u], n) = Turn(size[v], n)
    BY DEF Agree
  <2>9. QED
    BY <2>6, <2>7, <2>8
<1>3. dp[x] \in T
  <2>1. dp[x] \in Nat
    BY AtDepth
  <2> HIDE DEF T
  <2>2. QED
    BY <1>1, <1>2, <2>1, Induction
<1>4. QED
  BY <1>3

(* A node has an ancestor at every depth up to its own. *)
LEMMA AncestorAt ==
  ASSUME NEW B, NEW dp, Trie(B, dp), NEW x \in B, NEW d \in 0 .. dp[x]
  PROVE  \E a \in B : Index(a) = Index(x) /\ dp[a] = d /\ Agree(x, a, d)
<1> DEFINE P(n) == \A u \in B : \A k \in 0 .. n :
                     dp[u] = n => \E a \in B : Index(a) = Index(u) /\ dp[a] = k /\ Agree(u, a, k)
           T == {n \in Nat : P(n)}
<1>1. 0 \in T
  <2> SUFFICES ASSUME NEW u \in B, NEW k \in 0 .. 0, dp[u] = 0
               PROVE  \E a \in B : Index(a) = Index(u) /\ dp[a] = k /\ Agree(u, a, k)
    OBVIOUS
  <2>1. k = 0 /\ Agree(u, u, 0)
    BY DEF Agree
  <2>2. QED
    BY <2>1
<1>2. ASSUME NEW n \in Nat, n \in T
      PROVE  n + 1 \in T
  <2> SUFFICES ASSUME NEW u \in B, NEW k \in 0 .. n + 1, dp[u] = n + 1
               PROVE  \E a \in B : Index(a) = Index(u) /\ dp[a] = k /\ Agree(u, a, k)
    OBVIOUS
  <2>1. CASE k = n + 1
    <3>1. Agree(u, u, k)
      BY DEF Agree
    <3>2. QED
      BY <2>1, <3>1
  <2>2. CASE k \in 0 .. n
    <3>1. Hangs(u, B, dp) /\ dp[parent[u]] \in Nat
      BY AtDepth
    <3>2. PICK p \in B : p = parent[u]
      BY <3>1 DEF Hangs
    <3>3. dp[p] = n /\ Index(p) = Index(u)
      BY <3>1, <3>2 DEF Hangs
    <3>4. Agree(u, p, n)
      BY <3>1, <3>2, <3>3 DEF Hangs
    <3>5. PICK a \in B : Index(a) = Index(p) /\ dp[a] = k /\ Agree(p, a, k)
      BY <1>2, <2>2, <3>3
    <3>6. Agree(u, a, k)
      BY <2>2, <3>4, <3>5 DEF Agree
    <3>7. QED
      BY <3>3, <3>5, <3>6
  <2>3. QED
    BY <2>1, <2>2
<1>3. dp[x] \in T
  <2>1. dp[x] \in Nat
    BY AtDepth
  <2> HIDE DEF T
  <2>2. QED
    BY <1>1, <1>2, <2>1, Induction
<1>4. QED
  BY <1>3

(* A program has finitely many chunks. *)
LEMMA ChunksAreFinite == IsFiniteSet(Chunks) /\ Cardinality(Chunks) \in Nat
BY BinsAssumption, FS_CardinalityType

(* No trie is deeper than there are chunks, so the searches come to an end. *)
LEMMA DepthIsBounded ==
  ASSUME NEW B, NEW dp, Trie(B, dp), NEW x \in B
  PROVE  dp[x] \in Nat /\ dp[x] < Cardinality(Chunks)
<1>1. dp[x] \in Nat
  BY AtDepth
<1> DEFINE f == [d \in 0 .. dp[x] |-> CHOOSE a \in B : dp[a] = d]
<1>2. \A d \in 0 .. dp[x] : f[d] \in B /\ dp[f[d]] = d
  BY AncestorAt
<1>3. f \in [0 .. dp[x] -> Chunks]
  BY <1>2 DEF Trie, IsBases
<1> HIDE DEF f
<1>4. f \in Injection(0 .. dp[x], Chunks)
  BY <1>2, <1>3 DEF Injection, IsInjective
<1>5. Cardinality(0 .. dp[x]) <= Cardinality(Chunks)
  BY <1>4, ChunksAreFinite, FS_Injection
<1>6. Cardinality(0 .. dp[x]) = dp[x] + 1
  <2>1. 0 <= dp[x] /\ dp[x] \in Int
    BY <1>1
  <2>2. QED
    BY <2>1, FS_Interval
<1>7. QED
  BY <1>1, <1>5, <1>6, ChunksAreFinite

(* y is in the subtree of x. *)
Under(x, y, B, dp) ==
  /\ y \in B
  /\ Index(y) = Index(x)
  /\ dp[x] <= dp[y]
  /\ Agree(y, x, dp[x])

(* The subtree of a node is the node and what is below its children.       *)
LEMMA BelowChild ==
  ASSUME NEW B, NEW dp, Trie(B, dp), NEW x \in B, NEW y, Under(x, y, B, dp), y # x
  PROVE  LET z == child[x][Turn(size[y], dp[x])]
         IN  z # Null /\ z \in B /\ Under(z, y, B, dp)
<1>1. y \in B /\ Index(y) = Index(x) /\ dp[x] \in Nat /\ dp[y] \in Nat /\ dp[x] <= dp[y]
      /\ Agree(y, x, dp[x])
  BY AtDepth DEF Under
<1>2. dp[x] # dp[y]
  <2>1. dp[x] = dp[y] => x = y
    BY <1>1, PlacesAreUnique
  <2>2. QED
    BY <2>1
<1>3. PICK n \in Nat : n = dp[x]
  BY <1>1
<1>4. n + 1 \in 0 .. dp[y]
  BY <1>1, <1>2, <1>3
<1>5. PICK a \in B : Index(a) = Index(y) /\ dp[a] = n + 1 /\ Agree(y, a, n + 1)
  BY <1>1, <1>4, AncestorAt
<1>6. Hangs(a, B, dp) /\ dp[parent[a]] \in Nat
  BY <1>5, AtDepth
<1>7. PICK p \in B : p = parent[a]
  BY <1>6 DEF Hangs
<1>8. dp[p] = n /\ Index(p) = Index(a)
  BY <1>5, <1>6, <1>7 DEF Hangs
<1>9. Agree(a, p, n)
  BY <1>6, <1>7, <1>8 DEF Hangs
<1>10. Agree(p, x, n)
  BY <1>1, <1>3, <1>5, <1>9 DEF Agree
<1>11. p = x
  BY <1>1, <1>3, <1>5, <1>8, <1>10, PlacesAreUnique
<1>12. child[x][Turn(size[a], n)] = a
  BY <1>6, <1>7, <1>8, <1>11 DEF Hangs
<1>13. Turn(size[a], n) = Turn(size[y], n)
  BY <1>5 DEF Agree
<1>14. a # Null
  BY <1>5, BaseFacts DEF Trie
<1>15. Under(a, y, B, dp)
  BY <1>1, <1>4, <1>5 DEF Under
<1>16. QED
  BY <1>3, <1>12, <1>13, <1>14, <1>15, <1>5

(* A child and what is below it are below the node. *)
LEMMA ChildFacts ==
  ASSUME NEW B, NEW dp, Trie(B, dp), NEW x \in B, NEW c \in 0 .. 1, child[x][c] # Null
  PROVE  LET z == child[x][c]
         IN  /\ z \in B /\ parent[z] = x /\ Hangs(z, B, dp)
             /\ dp[z] = dp[x] + 1 /\ Index(z) = Index(x) /\ Agree(z, x, dp[x])
             /\ Turn(size[z], dp[x]) = c
<1>1. PICK z : z = child[x][c]
  OBVIOUS
<1>2. z \in B /\ parent[z] = x /\ Turn(size[z], dp[x]) = c
  BY <1>1 DEF Trie, ChildrenOK
<1>3. x \in Chunks
  BY BaseFacts DEF Trie
<1>4. ~IsRoot(z, dp)
  <2>1. Large!treebin_at(Index(z)) \notin MaybeChunk
    BY <1>2, BaseFacts DEF Trie
  <2>2. QED
    BY <1>2, <1>3, <2>1 DEF IsRoot, MaybeChunk
<1>5. Hangs(z, B, dp)
  BY <1>2, <1>4 DEF Trie, ParentsOK
<1>6. QED
  BY <1>1, <1>2, <1>5 DEF Hangs

(* What is below a child is below the node, on the side of the child. *)
LEMMA UnderChild ==
  ASSUME NEW B, NEW dp, Trie(B, dp), NEW x \in B, NEW c \in 0 .. 1, child[x][c] # Null,
         NEW y, Under(child[x][c], y, B, dp)
  PROVE  Under(x, y, B, dp) /\ y # x /\ Turn(size[y], dp[x]) = c
<1>1. PICK z \in B : /\ z = child[x][c] /\ dp[z] = dp[x] + 1 /\ Index(z) = Index(x)
                     /\ Agree(z, x, dp[x]) /\ Turn(size[z], dp[x]) = c
  BY ChildFacts
<1>2. y \in B /\ Index(y) = Index(z) /\ dp[z] <= dp[y] /\ Agree(y, z, dp[z])
  BY <1>1 DEF Under
<1>3. dp[x] \in Nat /\ dp[y] \in Nat
  BY <1>2, AtDepth
<1>4. Agree(y, x, dp[x]) /\ Turn(size[y], dp[x]) = Turn(size[z], dp[x])
  BY <1>1, <1>2, <1>3 DEF Agree
<1>5. QED
  BY <1>1, <1>2, <1>3, <1>4 DEF Under

-----------------------------------------------------------------------------
(* Walks down a trie.                                                      *)

(* The number of chunks. *)
Count == Cardinality(Chunks)

(* The bound of the walks: no walk is longer than there are chunks. *)
LEMMA CountIsNat == Count \in Nat /\ Large!Depths = 0 .. Count
BY ChunksAreFinite DEF Count, Large!Depths, Large!Cardinality, Cardinality

(* Path is a walk: from the root, by the turn of each bit. *)
LEMMA PathSteps ==
  ASSUME TrieTypes, NEW S \in LargeSizes, NEW at, at = Large!Path(S)
  PROVE  /\ at \in [0 .. Count -> MaybeChunk]
         /\ at[0] = root[compute_tree_index(S)]
         /\ \A d \in 1 .. Count : at[d] = IF at[d - 1] = Null \/ size[at[d - 1]] = S THEN Null
                                      ELSE child[at[d - 1]][Turn(S, d - 1)]
<1> DEFINE step == [d \in 1 .. Count |-> [x \in MaybeChunk |->
                      IF x = Null \/ size[x] = S THEN Null ELSE child[x][Turn(S, d - 1)]]]
           Step(f, d) == IF d = 0 THEN root[Large!compute_tree_index(S)]
                         ELSE IF f[d - 1] = Null THEN Null
                         ELSE IF size[f[d - 1]] = S THEN Null
                         ELSE child[f[d - 1]][Large!Turn(S, d - 1)]
           chosen == CHOOSE f : f = [d \in Large!Depths |-> Step(f, d)]
<1>1. \A d \in 1 .. Count : Turn(S, d - 1) \in 0 .. 1
  BY SizesAreLarge, TurnIsABit
<1>2. step \in [1 .. Count -> [MaybeChunk -> MaybeChunk]]
  BY <1>1 DEF TrieTypes, MaybeChunk
<1>3. root[compute_tree_index(S)] \in MaybeChunk
  BY DEF TrieTypes, Indices
<1>4. PICK w \in [0 .. Count -> MaybeChunk] :
        w[0] = root[compute_tree_index(S)] /\ \A d \in 1 .. Count : w[d] = step[d][w[d - 1]]
  <2> HIDE DEF step
  <2>1. PICK r \in MaybeChunk : r = root[compute_tree_index(S)]
    BY <1>3
  <2>2. PICK w : Walks(w, Count, MaybeChunk, r, step)
    BY <1>2, CountIsNat, Iteration
  <2>3. QED
    BY <2>1, <2>2 DEF Walks
<1>5. \A d \in 1 .. Count : \A x \in MaybeChunk :
        step[d][x] = IF x = Null \/ size[x] = S THEN Null ELSE child[x][Turn(S, d - 1)]
  OBVIOUS
<1> HIDE DEF step
<1>6. ASSUME NEW d \in 0 .. Count
      PROVE  w[d] = Step(w, d)
  <2>1. CASE d = 0
    BY <1>4, <2>1, TreeIndex
  <2>2. CASE d # 0
    <3>1. d \in 1 .. Count /\ w[d - 1] \in MaybeChunk
      BY <2>2, CountIsNat
    <3>2. w[d] = IF w[d - 1] = Null \/ size[w[d - 1]] = S THEN Null ELSE child[w[d - 1]][Turn(S, d - 1)]
      BY <1>4, <1>5, <3>1
    <3>3. QED
      BY <2>2, <3>2, TurnOfTree
  <2>3. QED
    BY <2>1, <2>2
<1>7. at = chosen
  BY DEF Large!Path
<1>8. w = [d \in Large!Depths |-> Step(w, d)]
  <2> HIDE DEF Step
  <2>1. QED
    BY <1>6, CountIsNat
<1>9. chosen = [d \in Large!Depths |-> Step(chosen, d)]
  <2> HIDE DEF Step
  <2>1. QED
    BY <1>8
<1> HIDE DEF chosen
<1>10. \A d \in 0 .. Count : at[d] = Step(at, d)
  <2> HIDE DEF Step
  <2>1. QED
    BY <1>7, <1>9, CountIsNat
<1>11. at[0] = root[compute_tree_index(S)]
  BY <1>10, CountIsNat, TreeIndex
<1>12. ASSUME NEW d \in 1 .. Count
       PROVE  at[d] = IF at[d - 1] = Null \/ size[at[d - 1]] = S THEN Null
                      ELSE child[at[d - 1]][Turn(S, d - 1)]
  <2>1. d \in 0 .. Count /\ d # 0
    BY CountIsNat
  <2>2. QED
    BY <1>10, <2>1, TurnOfTree
<1> DEFINE T == {d \in Nat : d <= Count => at[d] \in MaybeChunk}
<1>13. 0 \in T
  BY <1>3, <1>11
<1>14. ASSUME NEW d \in Nat, d \in T
       PROVE  d + 1 \in T
  <2> SUFFICES ASSUME d + 1 <= Count
               PROVE  at[d + 1] \in MaybeChunk
    OBVIOUS
  <2>1. d + 1 \in 1 .. Count /\ (d + 1) - 1 = d /\ at[d] \in MaybeChunk
    BY <1>14, CountIsNat
  <2>2. at[d + 1] = IF at[d] = Null \/ size[at[d]] = S THEN Null ELSE child[at[d]][Turn(S, d)]
    BY <1>12, <2>1
  <2>3. Turn(S, d) \in 0 .. 1
    BY SizesAreLarge, TurnIsABit
  <2>4. at[d] # Null => child[at[d]][Turn(S, d)] \in MaybeChunk
    BY <2>1, <2>3 DEF TrieTypes, MaybeChunk
  <2>5. Null \in MaybeChunk
    BY DEF MaybeChunk
  <2>6. QED
    BY <2>2, <2>4, <2>5
<1>15. \A d \in 0 .. Count : at[d] \in MaybeChunk
  <2>1. Nat \subseteq T
    <3> HIDE DEF T
    <3>1. QED
      BY <1>13, <1>14, Induction
  <2>2. QED
    BY <2>1, CountIsNat
<1>16. at = [d \in 0 .. Count |-> at[d]]
  <2> HIDE DEF Step
  <2>1. QED
    BY <1>7, <1>9, CountIsNat
<1>17. QED
  BY <1>11, <1>12, <1>15, <1>16

(* The nodes a path meets stand at their place for its size.               *)
LEMMA PathNodes ==
  ASSUME NEW B, NEW dp, Trie(B, dp), NEW S \in LargeSizes, NEW at, at = Large!Path(S),
         NEW d \in 0 .. Count, at[d] # Null
  PROVE  /\ at[d] \in B /\ Index(at[d]) = compute_tree_index(S) /\ dp[at[d]] = d
         /\ \A e \in 0 .. d - 1 : Turn(size[at[d]], e) = Turn(S, e)
<1> DEFINE InPlace(n) == /\ at[n] \in B /\ Index(at[n]) = compute_tree_index(S) /\ dp[at[n]] = n
                         /\ \A e \in 0 .. n - 1 : Turn(size[at[n]], e) = Turn(S, e)
           T == {n \in Nat : n <= Count /\ at[n] # Null => InPlace(n)}
<1>1. /\ at[0] = root[compute_tree_index(S)] /\ compute_tree_index(S) \in Indices
      /\ \A n \in 1 .. Count : at[n] = IF at[n - 1] = Null \/ size[at[n - 1]] = S THEN Null
                                   ELSE child[at[n - 1]][Turn(S, n - 1)]
  BY PathSteps DEF Trie, Indices
<1>2. 0 \in T
  <2> SUFFICES ASSUME at[0] # Null
               PROVE  InPlace(0)
    OBVIOUS
  <2>1. PICK r : r = at[0] /\ r # Null
    OBVIOUS
  <2>2. /\ r \in B /\ Index(r) = compute_tree_index(S)
        /\ parent[r] = Large!treebin_at(compute_tree_index(S))
    BY <1>1, <2>1 DEF Trie, RootsOK
  <2>3. parent[r] \notin B
    BY <1>1, <2>2, TreebinsAreDistinct DEF Trie, IsBases, MaybeChunk
  <2>4. IsRoot(r, dp)
    BY <2>2, <2>3 DEF Trie, ParentsOK, Hangs
  <2>5. QED
    BY <2>1, <2>2, <2>4 DEF IsRoot
<1>3. ASSUME NEW n \in Nat, n \in T
      PROVE  n + 1 \in T
  <2> SUFFICES ASSUME n + 1 <= Count, at[n + 1] # Null
               PROVE  InPlace(n + 1)
    OBVIOUS
  <2>1. n + 1 \in 1 .. Count /\ (n + 1) - 1 = n
    BY CountIsNat
  <2>2. PICK x, y : x = at[n] /\ y = at[n + 1] /\ y # Null
    OBVIOUS
  <2>3. x # Null /\ size[x] # S /\ y = child[x][Turn(S, n)]
    BY <1>1, <2>1, <2>2
  <2>4. /\ x \in B /\ Index(x) = compute_tree_index(S) /\ dp[x] = n
        /\ \A e \in 0 .. n - 1 : Turn(size[x], e) = Turn(S, e)
    BY <1>3, <2>1, <2>2, <2>3, CountIsNat
  <2>5. Turn(S, n) \in 0 .. 1
    BY SizesAreLarge, TurnIsABit
  <2>6. /\ y \in B /\ dp[y] = dp[x] + 1 /\ Index(y) = Index(x) /\ Agree(y, x, dp[x])
        /\ Turn(size[y], dp[x]) = Turn(S, n)
    BY <2>2, <2>3, <2>4, <2>5, ChildFacts
  <2>7. \A e \in 0 .. n : Turn(size[y], e) = Turn(S, e)
    BY <2>4, <2>6 DEF Agree
  <2>8. QED
    BY <2>2, <2>4, <2>6, <2>7
<1>4. d \in T
  <2>1. d \in Nat
    BY CountIsNat
  <2> HIDE DEF T
  <2>2. QED
    BY <1>2, <1>3, <2>1, Induction
<1>5. QED
  BY <1>4, CountIsNat

(* The bits of a size lead to the node of that size, and the path ends there. *)
LEMMA PathFinds ==
  ASSUME NEW B, NEW dp, Trie(B, dp), NEW x \in B, NEW at, at = Large!Path(size[x])
  PROVE  /\ dp[x] \in 0 .. Count /\ at[dp[x]] = x
         /\ \A d \in 0 .. Count : d > dp[x] => at[d] = Null
<1>1. PICK S \in LargeSizes : S = size[x]
  BY BaseFacts DEF Trie
<1>2. /\ at[0] = root[compute_tree_index(S)]
      /\ \A n \in 1 .. Count : at[n] = IF at[n - 1] = Null \/ size[at[n - 1]] = S THEN Null
                                   ELSE child[at[n - 1]][Turn(S, n - 1)]
  BY <1>1, PathSteps DEF Trie
<1>3. dp[x] \in Nat /\ dp[x] < Count
  BY DepthIsBounded DEF Count
<1> DEFINE P(n) == \A z \in B : Index(z) = Index(x) /\ dp[z] = n /\ n <= dp[x] /\ Agree(z, x, n)
                             => at[n] = z
           T == {n \in Nat : P(n)}
<1>4. 0 \in T
  <2> SUFFICES ASSUME NEW z \in B, Index(z) = Index(x), dp[z] = 0
               PROVE  at[0] = z
    OBVIOUS
  <2>1. IsRoot(z, dp)
    BY AtDepth
  <2>2. QED
    BY <1>1, <1>2, <2>1 DEF IsRoot, Index
<1>5. ASSUME NEW n \in Nat, n \in T
      PROVE  n + 1 \in T
  <2> SUFFICES ASSUME NEW z \in B, Index(z) = Index(x), dp[z] = n + 1, n + 1 <= dp[x], Agree(z, x, n + 1)
               PROVE  at[n + 1] = z
    OBVIOUS
  <2>1. Hangs(z, B, dp) /\ dp[parent[z]] \in Nat
    BY AtDepth
  <2>2. PICK p \in B : p = parent[z]
    BY <2>1 DEF Hangs
  <2>3. dp[p] = n /\ Index(p) = Index(z)
    BY <2>1, <2>2 DEF Hangs
  <2>4. Agree(z, p, n) /\ child[p][Turn(size[z], n)] = z
    BY <2>1, <2>2, <2>3 DEF Hangs
  <2>5. Agree(p, x, n)
    BY <2>4 DEF Agree
  <2>6. at[n] = p
    BY <1>3, <1>5, <2>3, <2>5
  <2>7. size[p] # S
    <3>1. p # x
      BY <1>3, <2>3
    <3>2. QED
      BY <1>1, <3>1 DEF Trie, IsBases
  <2>8. p # Null
    BY BaseFacts DEF Trie
  <2>9. Turn(size[z], n) = Turn(S, n)
    BY <1>1 DEF Agree
  <2>10. n + 1 \in 1 .. Count /\ (n + 1) - 1 = n
    BY <1>3, CountIsNat
  <2>11. at[n + 1] = child[p][Turn(S, n)]
    BY <1>2, <2>6, <2>7, <2>8, <2>10
  <2>12. QED
    BY <2>4, <2>9, <2>11
<1>6. at[dp[x]] = x
  <2>1. dp[x] \in T
    <3> HIDE DEF T
    <3>1. QED
      BY <1>3, <1>4, <1>5, Induction
  <2>2. Agree(x, x, dp[x])
    BY DEF Agree
  <2>3. QED
    BY <2>1, <2>2
<1> DEFINE U == {k \in Nat : dp[x] + 1 + k <= Count => at[dp[x] + 1 + k] = Null}
<1>7. 0 \in U
  <2> SUFFICES ASSUME dp[x] + 1 <= Count
               PROVE  at[dp[x] + 1] = Null
    BY <1>3
  <2>1. dp[x] + 1 \in 1 .. Count /\ (dp[x] + 1) - 1 = dp[x]
    BY <1>3, CountIsNat
  <2>2. QED
    BY <1>1, <1>2, <1>6, <2>1
<1>8. ASSUME NEW k \in Nat, k \in U
      PROVE  k + 1 \in U
  <2> SUFFICES ASSUME dp[x] + 1 + (k + 1) <= Count
               PROVE  at[dp[x] + 1 + (k + 1)] = Null
    OBVIOUS
  <2>1. PICK j \in Nat : j = dp[x] + 1 + k
    BY <1>3
  <2>2. j + 1 = dp[x] + 1 + (k + 1) /\ j + 1 \in 1 .. Count /\ (j + 1) - 1 = j /\ j <= Count
    BY <1>3, <2>1, CountIsNat
  <2>3. at[j] = Null
    BY <1>8, <2>1, <2>2
  <2>4. at[j + 1] = Null
    BY <1>2, <2>2, <2>3
  <2>5. QED
    BY <2>2, <2>4
<1>9. ASSUME NEW d \in 0 .. Count, d > dp[x]
      PROVE  at[d] = Null
  <2>1. PICK k \in Nat : k = d - (dp[x] + 1)
    BY <1>3, <1>9, CountIsNat
  <2>2. k \in U
    <3> HIDE DEF U
    <3>1. QED
      BY <1>7, <1>8, Induction
  <2>3. dp[x] + 1 + k = d
    BY <1>3, <2>1, CountIsNat
  <2>4. QED
    BY <2>2, <2>3, CountIsNat
<1>10. QED
  BY <1>3, <1>6, <1>9, CountIsNat

(* How a greatest element is recognised. *)
LEMMA MaxIs ==
  ASSUME NEW T \in SUBSET Int, NEW m \in T, \A k \in T : k <= m
  PROVE  Large!Max(T) = m
<1>1. Large!Max(T) \in T /\ \A k \in T : Large!Max(T) >= k
  BY DEF Large!Max
<1>2. Large!Max(T) \in Int /\ m \in Int /\ Large!Max(T) <= m /\ Large!Max(T) >= m
  BY <1>1
<1>3. QED
  BY <1>2

(* How a least element is recognised. *)
LEMMA MinIs ==
  ASSUME NEW T \in SUBSET Int, NEW m \in T, \A k \in T : m <= k
  PROVE  Min(T) = m /\ Large!Min(T) = m
<1>1. \E x \in T : \A k \in T : x <= k
  OBVIOUS
<1>2. Min(T) \in T /\ \A k \in T : Min(T) <= k
  BY <1>1, Zenon DEF Min
<1>3. Large!Min(T) \in T /\ \A k \in T : Large!Min(T) <= k
  BY <1>1, Zenon DEF Large!Min
<1>4. m \in Int /\ Min(T) \in Int /\ Large!Min(T) \in Int
  BY <1>2, <1>3
<1>5. Min(T) <= m /\ m <= Min(T) /\ Large!Min(T) <= m /\ m <= Large!Min(T)
  BY <1>2, <1>3
<1>6. QED
  BY <1>4, <1>5

(* Where the path of a size ends in a bin that is in use: at the node of   *)
(* that size, or above the place that is free for it.                      *)
LEMMA PathEnds ==
  ASSUME NEW B, NEW dp, Trie(B, dp), NEW S \in LargeSizes, NEW at, at = Large!Path(S),
         compute_tree_index(S) \in treemap, NEW d, d = Large!LastDepth(at), NEW t, t = at[d]
  PROVE  /\ t \in B /\ Index(t) = compute_tree_index(S) /\ dp[t] = d /\ d \in Nat
         /\ \A e \in 0 .. d - 1 : Turn(size[t], e) = Turn(S, e)
         /\ \A x \in B : size[x] = S => x = t
         /\ size[t] # S => child[t][Turn(S, d)] = Null
<1> DEFINE D == {k \in 0 .. Count : at[k] # Null}
<1>1. at \in [0 .. Count -> MaybeChunk] /\ Count \in Nat
  BY PathSteps, CountIsNat DEF Trie
<1>2. at[0] = root[compute_tree_index(S)] /\ root[compute_tree_index(S)] # Null
  BY PathSteps DEF Trie, TrieTypes
<1>3. PICK m \in D : \A k \in D : k <= m
  <2>1. 0 \in D
    BY <1>1, <1>2
  <2> DEFINE E == {Count - k : k \in D}
  <2>2. E \subseteq Nat /\ E # {}
    BY <1>1, <2>1
  <2>3. PICK j \in E : \A k \in E : j <= k
    <3> HIDE DEF E
    <3>1. QED
      BY <2>2, LeastElement
  <2>4. PICK k \in D : j = Count - k
    BY <2>3
  <2>5. ASSUME NEW i \in D
        PROVE  i <= k
    <3>1. Count - k <= Count - i
      BY <2>3, <2>4
    <3>2. QED
      BY <1>1, <3>1
  <2>6. QED
    BY <2>5
<1>4. d = m
  <2>1. d = Large!Max(D)
    BY CountIsNat DEF Large!LastDepth
  <2>2. D \in SUBSET Int /\ m \in D /\ m \in Int
    BY <1>1, <1>3
  <2> HIDE DEF D
  <2>3. Large!Max(D) = m
    BY <1>3, <2>2, MaxIs
  <2>4. QED
    BY <2>1, <2>3
<1>5. d \in 0 .. Count /\ t # Null
  BY <1>3, <1>4
<1>6. /\ t \in B /\ Index(t) = compute_tree_index(S) /\ dp[t] = d
      /\ \A e \in 0 .. d - 1 : Turn(size[t], e) = Turn(S, e)
  BY <1>5, PathNodes
<1>7. ASSUME NEW x \in B, size[x] = S
      PROVE  x = t
  <2>1. /\ dp[x] \in 0 .. Count /\ at[dp[x]] = x
        /\ \A k \in 0 .. Count : k > dp[x] => at[k] = Null
    BY <1>7, PathFinds
  <2>2. x # Null
    BY BaseFacts DEF Trie
  <2>3. d = dp[x]
    BY <1>1, <1>3, <1>4, <1>5, <2>1, <2>2
  <2>4. QED
    BY <2>1, <2>3
<1>8. ASSUME size[t] # S
      PROVE  child[t][Turn(S, d)] = Null
  <2>1. d < Count
    BY <1>6, DepthIsBounded DEF Count
  <2>2. d + 1 \in 1 .. Count /\ (d + 1) - 1 = d /\ d + 1 \in 0 .. Count
    BY <1>1, <1>5, <2>1
  <2>3. at[d + 1] = Null
    BY <1>3, <1>4, <1>5, <2>2
  <2>4. at[d + 1] = IF at[d] = Null \/ size[at[d]] = S THEN Null ELSE child[at[d]][Turn(S, d)]
    BY <2>2, PathSteps DEF Trie
  <2>5. QED
    BY <1>5, <1>8, <2>3, <2>4
<1>9. QED
  BY <1>1, <1>5, <1>6, <1>7, <1>8

-----------------------------------------------------------------------------
(* What the changes of a trie keep.                                        *)

LEMMA SameSizes ==
  ASSUME NEW x, NEW y, size'[x] = size[x], size'[y] = size[y], NEW d
  PROVE  Index(x)' = Index(x) /\ (Agree(x, y, d)' <=> Agree(x, y, d))
BY DEF Index, Agree

(* A chunk that is no node is of no concern to the tries. *)
LEMMA UntouchedKeepsTrie ==
  ASSUME NEW B, NEW dp, Trie(B, dp), TrieTypes', root' = root,
         \A y \in B : size'[y] = size[y] /\ child'[y] = child[y] /\ parent'[y] = parent[y]
  PROVE  Trie(B, dp)'
<1>1. IsBases(B)'
  BY DEF Trie, IsBases
<1>2. ParentsOK(B, dp)'
  <2> SUFFICES ASSUME NEW x \in B
               PROVE  IsRoot(x, dp)' \/ Hangs(x, B, dp)'
    BY DEF ParentsOK
  <2>1. CASE IsRoot(x, dp)
    BY <2>1, SameSizes DEF IsRoot
  <2>2. CASE Hangs(x, B, dp)
    <3>1. PICK p \in B : p = parent[x]
      BY <2>2 DEF Hangs
    <3>2. /\ Index(p) = Index(x) /\ dp[x] = dp[p] + 1
          /\ child[p][Turn(size[x], dp[p])] = x /\ Agree(x, p, dp[p])
      BY <2>2, <3>1 DEF Hangs
    <3>3. /\ Index(p)' = Index(x)' /\ Agree(x, p, dp[p])' /\ parent'[x] = p
          /\ child'[p][Turn(size'[x], dp[p])] = x
      BY <3>1, <3>2, SameSizes
    <3>4. QED
      BY <3>1, <3>2, <3>3 DEF Hangs
  <2>3. QED
    BY <2>1, <2>2 DEF Trie, ParentsOK
<1>3. ChildrenOK(B, dp)'
  BY DEF Trie, ChildrenOK
<1>4. RootsOK(B)'
  <2> SUFFICES ASSUME NEW i \in Indices, root[i] # Null
               PROVE  root[i] \in B /\ Index(root[i])' = i /\ parent'[root[i]] = Large!treebin_at(i)
    BY Zenon DEF RootsOK
  <2>1. root[i] \in B /\ Index(root[i]) = i /\ parent[root[i]] = Large!treebin_at(i)
    BY DEF Trie, RootsOK
  <2>2. QED
    BY <2>1, SameSizes
<1>5. QED
  BY <1>1, <1>2, <1>3, <1>4 DEF Trie

(* X is the first node of a bin. *)
GrowsRoot(X, S, B) ==
  /\ X \in Chunks \ B
  /\ S \in LargeSizes
  /\ root[compute_tree_index(S)] = Null
  /\ root' = [root EXCEPT ![compute_tree_index(S)] = X]
  /\ parent'[X] = Large!treebin_at(compute_tree_index(S))
  /\ \A c \in 0 .. 1 : child'[X][c] = Null
  /\ size'[X] = S
  /\ \A y \in B : size'[y] = size[y] /\ child'[y] = child[y] /\ parent'[y] = parent[y]

(* A bin with a node has a root. *)
LEMMA NoNodeWithoutRoot ==
  ASSUME NEW B, NEW dp, Trie(B, dp), NEW x \in B
  PROVE  root[Index(x)] # Null
<1>1. dp[x] \in Nat
  BY AtDepth
<1>2. PICK a \in B : Index(a) = Index(x) /\ dp[a] = 0
  BY <1>1, AncestorAt
<1>3. root[Index(a)] = a /\ a # Null
  BY <1>2, AtDepth, BaseFacts DEF Trie, IsRoot
<1>4. QED
  BY <1>2, <1>3

(* The first node of a bin makes a trie of one. *)
LEMMA GrowsRootKeepsTrie ==
  ASSUME NEW B, NEW dp, Trie(B, dp), NEW X, NEW S, TrieTypes', GrowsRoot(X, S, B),
         NEW B2, B2 = B \cup {X}, NEW dp2, dp2 = [dp EXCEPT ![X] = 0]
  PROVE  Trie(B2, dp2)'
<1>1. X \in Chunks /\ X \notin B /\ compute_tree_index(S) \in Indices
  BY DEF GrowsRoot, Indices
<1>2. \A y \in B : size'[y] = size[y] /\ child'[y] = child[y] /\ parent'[y] = parent[y] /\ y # X
  BY DEF GrowsRoot
<1>3. \A y \in B : Index(y) # compute_tree_index(S)
  BY NoNodeWithoutRoot DEF GrowsRoot
<1>4. dp2 \in [Chunks -> Nat] /\ dp2[X] = 0 /\ \A y \in B : dp2[y] = dp[y]
  BY <1>1 DEF Trie, IsBases
<1>5. IsBases(B2)'
  <2>1. B2 \subseteq Chunks
    BY <1>1 DEF Trie, IsBases
  <2>2. \A x \in B2 : size'[x] \in LargeSizes
    BY <1>2 DEF Trie, IsBases, GrowsRoot
  <2>3. ASSUME NEW x \in B2, NEW y \in B2, size'[x] = size'[y]
        PROVE  x = y
    <3>1. CASE x \in B /\ y \in B
      BY <1>2, <2>3, <3>1 DEF Trie, IsBases
    <3>2. CASE x = X /\ y \in B
      <4>1. size[y] = S
        BY <1>2, <2>3, <3>2 DEF GrowsRoot
      <4>2. QED
        BY <1>3, <3>2, <4>1 DEF Index
    <3>3. CASE y = X /\ x \in B
      <4>1. size[x] = S
        BY <1>2, <2>3, <3>3 DEF GrowsRoot
      <4>2. QED
        BY <1>3, <3>3, <4>1 DEF Index
    <3>4. QED
      BY <3>1, <3>2, <3>3
  <2>4. QED
    BY <2>1, <2>2, <2>3 DEF IsBases
<1>6. ParentsOK(B2, dp2)'
  <2> SUFFICES ASSUME NEW x \in B2
               PROVE  IsRoot(x, dp2)' \/ Hangs(x, B2, dp2)'
    BY DEF ParentsOK
  <2>1. CASE x = X
    <3>1. Index(X)' = compute_tree_index(S)
      BY DEF Index, GrowsRoot
    <3>2. root'[compute_tree_index(S)] = X
      BY <1>1 DEF GrowsRoot, Trie, TrieTypes
    <3>3. QED
      BY <1>4, <2>1, <3>1, <3>2 DEF IsRoot, GrowsRoot
  <2>2. CASE x \in B /\ IsRoot(x, dp)
    <3>1. Index(x)' = Index(x) /\ parent'[x] = parent[x] /\ dp2[x] = dp[x]
      BY <1>2, <1>4, <2>2, SameSizes
    <3>2. root'[Index(x)] = root[Index(x)]
      BY <1>3, <2>2 DEF GrowsRoot, Trie, TrieTypes, IsBases, Index, Indices
    <3>3. QED
      BY <2>2, <3>1, <3>2 DEF IsRoot
  <2>3. CASE x \in B /\ Hangs(x, B, dp)
    <3>1. PICK p \in B : p = parent[x]
      BY <2>3 DEF Hangs
    <3>2. /\ Index(p) = Index(x) /\ dp[x] = dp[p] + 1
          /\ child[p][Turn(size[x], dp[p])] = x /\ Agree(x, p, dp[p])
      BY <2>3, <3>1 DEF Hangs
    <3>a. /\ size'[p] = size[p] /\ size'[x] = size[x] /\ child'[p] = child[p]
          /\ parent'[x] = parent[x] /\ dp2[x] = dp[x] /\ dp2[p] = dp[p]
      BY <1>2, <1>4, <2>3, <3>1
    <3>3. /\ Index(p)' = Index(x)' /\ Agree(x, p, dp[p])' /\ parent'[x] = p
          /\ child'[p][Turn(size'[x], dp[p])] = x /\ dp2[x] = dp[x] /\ dp2[p] = dp[p]
      BY <3>a, <3>1, <3>2, SameSizes
    <3>4. QED
      BY <3>1, <3>2, <3>3 DEF Hangs
  <2>4. QED
    BY <2>1, <2>2, <2>3 DEF Trie, ParentsOK
<1>7. ChildrenOK(B2, dp2)'
  <2> SUFFICES ASSUME NEW x \in B2, NEW c \in 0 .. 1, child'[x][c] # Null
               PROVE  /\ child'[x][c] \in B2 /\ parent'[child'[x][c]] = x
                      /\ Turn(size'[child'[x][c]], dp2[x]) = c
    BY DEF ChildrenOK
  <2>1. x \in B
    BY DEF GrowsRoot
  <2>2. PICK z \in B : z = child[x][c] /\ parent[z] = x /\ Turn(size[z], dp[x]) = c
    BY <1>2, <2>1 DEF Trie, ChildrenOK
  <2>3. QED
    BY <1>2, <1>4, <2>1, <2>2
<1>8. RootsOK(B2)'
  <2> SUFFICES ASSUME NEW i \in Indices, root'[i] # Null
               PROVE  /\ root'[i] \in B2 /\ compute_tree_index(size'[root'[i]]) = i
                      /\ parent'[root'[i]] = Large!treebin_at(i)
    BY DEF RootsOK, Index
  <2>1. CASE i = compute_tree_index(S)
    <3>1. root'[i] = X
      BY <1>1, <2>1 DEF GrowsRoot, Trie, TrieTypes
    <3>2. compute_tree_index(size'[X]) = i
      BY <2>1 DEF GrowsRoot
    <3>3. QED
      BY <2>1, <3>1, <3>2 DEF GrowsRoot
  <2>2. CASE i # compute_tree_index(S)
    <3>1. root'[i] = root[i]
      BY <2>2 DEF GrowsRoot, Trie, TrieTypes
    <3>2. PICK r \in B : r = root[i] /\ Index(r) = i /\ parent[r] = Large!treebin_at(i)
      BY <3>1 DEF Trie, RootsOK
    <3>3. compute_tree_index(size'[r]) = i /\ parent'[r] = Large!treebin_at(i)
      BY <1>2, <3>2 DEF Index
    <3>4. QED
      BY <3>1, <3>2, <3>3
  <2>3. QED
    BY <2>1, <2>2
<1>9. QED
  BY <1>4, <1>5, <1>6, <1>7, <1>8 DEF Trie

(* X is a new leaf below t, where its size belongs. *)
GrowsLeaf(X, S, t, B, dp) ==
  /\ X \in Chunks \ B
  /\ S \in LargeSizes
  /\ \A y \in B : size[y] # S
  /\ t \in B /\ Index(t) = compute_tree_index(S)
  /\ \A e \in 0 .. dp[t] - 1 : Turn(size[t], e) = Turn(S, e)
  /\ child[t][Turn(S, dp[t])] = Null
  /\ child'[t] = [child[t] EXCEPT ![Turn(S, dp[t])] = X]
  /\ \A c \in 0 .. 1 : child'[X][c] = Null
  /\ parent'[X] = t
  /\ size'[X] = S
  /\ root' = root
  /\ \A y \in B : /\ size'[y] = size[y] /\ parent'[y] = parent[y]
                  /\ y # t => child'[y] = child[y]

(* A leaf where the bits of its size lead keeps every node in its place. *)
LEMMA GrowsLeafKeepsTrie ==
  ASSUME NEW B, NEW dp, Trie(B, dp), NEW X, NEW S, NEW t, TrieTypes', GrowsLeaf(X, S, t, B, dp),
         NEW B2, B2 = B \cup {X}, NEW dp2, dp2 = [dp EXCEPT ![X] = dp[t] + 1]
  PROVE  Trie(B2, dp2)'
<1>1. /\ X \in Chunks /\ X \notin B /\ t \in B /\ t # X /\ t \in Chunks /\ dp[t] \in Nat
      /\ X # Null /\ S \in LargeSizes
  BY BinsAssumption, AtDepth DEF GrowsLeaf, Trie, IsBases
<1>2. \A y \in B : size'[y] = size[y] /\ parent'[y] = parent[y] /\ y # X
  BY DEF GrowsLeaf
<1>3. PICK k \in 0 .. 1 : k = Turn(S, dp[t])
  BY <1>1, SizesAreLarge, TurnIsABit
<1>4. child'[t][k] = X /\ \A c \in 0 .. 1 : c # k => child'[t][c] = child[t][c]
  BY <1>1, <1>3 DEF GrowsLeaf, Trie, TrieTypes
<1>5. \A y \in B, c \in 0 .. 1 : child[y][c] # Null => child'[y][c] = child[y][c]
  <2> SUFFICES ASSUME NEW y \in B, NEW c \in 0 .. 1, child[y][c] # Null
               PROVE  child'[y][c] = child[y][c]
    OBVIOUS
  <2>1. CASE y # t
    BY <2>1 DEF GrowsLeaf
  <2>2. CASE y = t
    <3>1. c # k
      BY <1>3, <2>2 DEF GrowsLeaf
    <3>2. QED
      BY <1>4, <2>2, <3>1
  <2>3. QED
    BY <2>1, <2>2
<1>6. dp2 \in [Chunks -> Nat] /\ dp2[X] = dp[t] + 1 /\ \A y \in B : dp2[y] = dp[y]
  BY <1>1 DEF Trie, IsBases
<1>7. IsBases(B2)'
  BY <1>1, <1>2 DEF Trie, IsBases, GrowsLeaf
<1>8. ParentsOK(B2, dp2)'
  <2> SUFFICES ASSUME NEW x \in B2
               PROVE  IsRoot(x, dp2)' \/ Hangs(x, B2, dp2)'
    BY DEF ParentsOK
  <2>1. CASE x = X
    <3>1. Index(X)' = compute_tree_index(S) /\ Index(t)' = compute_tree_index(S)
      BY <1>1, <1>2 DEF Index, GrowsLeaf
    <3>2. Agree(X, t, dp[t])'
      BY <1>1, <1>2 DEF Agree, GrowsLeaf
    <3>3. parent'[X] = t /\ t \in B2 /\ dp2[X] = dp2[t] + 1 /\ dp2[t] = dp[t]
          /\ child'[t][Turn(size'[X], dp[t])] = X
      BY <1>1, <1>3, <1>4, <1>6 DEF GrowsLeaf
    <3>4. QED
      BY <2>1, <3>1, <3>2, <3>3 DEF Hangs
  <2>2. CASE x \in B /\ IsRoot(x, dp)
    <3>1. Index(x)' = Index(x) /\ parent'[x] = parent[x] /\ dp2[x] = dp[x] /\ root' = root
      BY <1>2, <1>6, <2>2, SameSizes DEF GrowsLeaf
    <3>2. QED
      BY <2>2, <3>1 DEF IsRoot
  <2>3. CASE x \in B /\ Hangs(x, B, dp)
    <3>1. PICK p \in B : p = parent[x]
      BY <2>3 DEF Hangs
    <3>2. /\ Index(p) = Index(x) /\ dp[x] = dp[p] + 1
          /\ child[p][Turn(size[x], dp[p])] = x /\ Agree(x, p, dp[p])
      BY <2>3, <3>1 DEF Hangs
    <3>3. Turn(size[x], dp[p]) \in 0 .. 1 /\ x # Null
      BY <2>3, <3>1, AtDepth, BaseFacts, TurnIsABit DEF Trie
    <3>4. /\ Index(p)' = Index(x)' /\ Agree(x, p, dp[p])' /\ parent'[x] = p
          /\ child'[p][Turn(size'[x], dp[p])] = x /\ dp2[x] = dp[x] /\ dp2[p] = dp[p]
      BY <1>2, <1>5, <1>6, <2>3, <3>1, <3>2, <3>3, SameSizes
    <3>5. QED
      BY <3>1, <3>2, <3>4 DEF Hangs
  <2>4. QED
    BY <2>1, <2>2, <2>3 DEF Trie, ParentsOK
<1>9. ChildrenOK(B2, dp2)'
  <2> SUFFICES ASSUME NEW x \in B2, NEW c \in 0 .. 1, child'[x][c] # Null
               PROVE  /\ child'[x][c] \in B2 /\ parent'[child'[x][c]] = x
                      /\ Turn(size'[child'[x][c]], dp2[x]) = c
    BY DEF ChildrenOK
  <2>1. x \in B
    BY DEF GrowsLeaf
  <2>2. CASE child[x][c] # Null
    <3>1. PICK z \in B : z = child[x][c] /\ parent[z] = x /\ Turn(size[z], dp[x]) = c
      BY <2>1, <2>2 DEF Trie, ChildrenOK
    <3>2. QED
      BY <1>2, <1>5, <1>6, <2>1, <2>2, <3>1
  <2>3. CASE child[x][c] = Null
    <3>1. x = t /\ c = k
      BY <1>4, <2>1, <2>3 DEF GrowsLeaf
    <3>2. QED
      BY <1>1, <1>3, <1>4, <1>6, <3>1 DEF GrowsLeaf
  <2>4. QED
    BY <2>2, <2>3
<1>10. RootsOK(B2)'
  <2> SUFFICES ASSUME NEW i \in Indices, root[i] # Null
               PROVE  /\ root[i] \in B2 /\ compute_tree_index(size'[root[i]]) = i
                      /\ parent'[root[i]] = Large!treebin_at(i)
    BY DEF RootsOK, GrowsLeaf, Index
  <2>1. root[i] \in B /\ Index(root[i]) = i /\ parent[root[i]] = Large!treebin_at(i)
    BY DEF Trie, RootsOK
  <2>2. QED
    BY <1>2, <2>1 DEF Index
<1>11. QED
  BY <1>6, <1>7, <1>8, <1>9, <1>10 DEF Trie

(* R takes the place of X: its own ring mate, or the last leaf below it.   *)
CanReplace(R, X, B, dp) ==
  /\ R \in Chunks \ {X}
  /\ size[R] \in LargeSizes
  /\ Index(R) = Index(X)
  /\ Agree(R, X, dp[X])
  /\ \/ R \notin B /\ size[R] = size[X]
     \/ R \in B /\ dp[X] < dp[R] /\ \A c \in 0 .. 1 : child[R][c] = Null

(* What the removal of X changes when R replaces it. *)
MovesUp(R, X, B) ==
  /\ \A y \in B \ {X, R}, c \in 0 .. 1 :
       child'[y][c] = IF child[y][c] = X THEN R ELSE IF child[y][c] = R THEN Null ELSE child[y][c]
  /\ \A c \in 0 .. 1 : child'[R][c] = IF child[X][c] = R THEN Null ELSE child[X][c]
  /\ \A y \in B \ {X, R} : parent'[y] = IF parent[y] = X THEN R ELSE parent[y]
  /\ parent'[R] = parent[X]
  /\ \A i \in Indices : root'[i] = IF root[i] = X THEN R ELSE root[i]
  /\ \A y \in Chunks \ {X} : size'[y] = size[y]

(* The replacement takes over parent and children, and all keep their      *)
(* places.                                                                 *)
LEMMA MovesUpKeepsTrie ==
  ASSUME NEW B, NEW dp, Trie(B, dp), NEW X \in B, NEW R, TrieTypes',
         CanReplace(R, X, B, dp), MovesUp(R, X, B),
         NEW B2, B2 = (B \ {X}) \cup {R}, NEW dp2, dp2 = [dp EXCEPT ![R] = dp[X]]
  PROVE  Trie(B2, dp2)'
<1>1. /\ R \in Chunks /\ R # X /\ R # Null /\ X \in Chunks /\ X # Null /\ size[R] \in LargeSizes
      /\ dp[X] \in Nat /\ Index(R) = Index(X) /\ Agree(R, X, dp[X]) /\ B \subseteq Chunks
  BY BinsAssumption, BaseFacts, AtDepth DEF CanReplace, Trie, IsBases
<1>2. \A y \in B2 : size'[y] = size[y] /\ y \in Chunks /\ y # X
  BY <1>1 DEF MovesUp
<1>3. dp2 \in [Chunks -> Nat] /\ dp2[R] = dp[X] /\ \A y \in B2 : y # R => dp2[y] = dp[y]
  BY <1>1, <1>2 DEF Trie
<1>4. R \in B => dp[X] < dp[R] /\ \A c \in 0 .. 1 : child[R][c] = Null
  BY DEF CanReplace
<1>5. IsBases(B2)'
  <2>1. B2 \subseteq Chunks /\ \A x \in B2 : size'[x] \in LargeSizes
    BY <1>1, <1>2 DEF Trie, IsBases
  <2>2. ASSUME NEW x \in B2, NEW y \in B2, size'[x] = size'[y]
        PROVE  x = y
    <3>1. size[x] = size[y]
      BY <1>2, <2>2
    <3>2. CASE R \in B
      BY <3>1, <3>2 DEF Trie, IsBases
    <3>3. CASE R \notin B
      <4>1. size[R] = size[X]
        BY <3>3 DEF CanReplace
      <4>2. CASE x = R /\ y # R
        BY <3>1, <4>1, <4>2 DEF Trie, IsBases
      <4>3. CASE y = R /\ x # R
        BY <3>1, <4>1, <4>3 DEF Trie, IsBases
      <4>4. CASE x # R /\ y # R
        BY <3>1, <4>4 DEF Trie, IsBases
      <4>5. QED
        BY <4>2, <4>3, <4>4
    <3>4. QED
      BY <3>2, <3>3
  <2>3. QED
    BY <2>1, <2>2 DEF IsBases
<1>6. ParentsOK(B2, dp2)'
  <2> SUFFICES ASSUME NEW x \in B2
               PROVE  IsRoot(x, dp2)' \/ Hangs(x, B2, dp2)'
    BY DEF ParentsOK
  <2>1. CASE x = R
    <3>1. Index(R)' = Index(X) /\ parent'[R] = parent[X]
      BY <1>1, <1>2, <2>1 DEF Index, MovesUp
    <3>2. CASE IsRoot(X, dp)
      <4>1. root'[Index(X)] = R
        BY <3>2, BaseFacts DEF IsRoot, MovesUp, Trie
      <4>2. QED
        BY <1>3, <2>1, <3>1, <3>2, <4>1 DEF IsRoot
    <3>3. CASE Hangs(X, B, dp)
      <4>1. PICK p \in B : p = parent[X]
        BY <3>3 DEF Hangs
      <4>2. /\ Index(p) = Index(X) /\ dp[X] = dp[p] + 1 /\ dp[p] \in Nat
            /\ child[p][Turn(size[X], dp[p])] = X /\ Agree(X, p, dp[p])
        BY <3>3, <4>1, AtDepth DEF Hangs
      <4>3. p # X /\ p # R
        BY <1>1, <1>4, <4>2
      <4>4. p \in B2 /\ dp2[p] = dp[p] /\ size'[p] = size[p]
        BY <1>2, <1>3, <4>3
      <4>5. Turn(size[X], dp[p]) \in 0 .. 1
        BY <4>2, BaseFacts, TurnIsABit DEF Trie
      <4>6. Turn(size[R], dp[p]) = Turn(size[X], dp[p])
        BY <1>1, <4>2 DEF Agree
      <4>7. child'[p][Turn(size'[R], dp[p])] = R
        BY <1>1, <1>2, <2>1, <4>2, <4>3, <4>5, <4>6 DEF MovesUp
      <4>8. Agree(R, p, dp[p])'
        BY <1>1, <1>2, <2>1, <4>2, <4>4 DEF Agree
      <4>9. Index(p)' = Index(R)'
        BY <3>1, <4>2, <4>4 DEF Index
      <4>10. QED
        BY <1>3, <2>1, <3>1, <4>1, <4>2, <4>4, <4>7, <4>8, <4>9 DEF Hangs
    <3>4. QED
      BY <3>2, <3>3 DEF Trie, ParentsOK
  <2>2. CASE x # R /\ IsRoot(x, dp)
    <3>1. x \in B \ {X, R} /\ parent[x] # X
      <4>1. x \in B \ {X, R}
        BY <1>2, <2>2
      <4>2. parent[x] \notin MaybeChunk
        BY <2>2, <4>1, BaseFacts DEF IsRoot, Trie
      <4>3. QED
        BY <1>1, <4>1, <4>2 DEF MaybeChunk
    <3>2. parent'[x] = parent[x] /\ Index(x)' = Index(x) /\ dp2[x] = dp[x]
      BY <1>2, <1>3, <2>2, <3>1 DEF MovesUp, Index
    <3>3. root'[Index(x)] = x
      BY <2>2, <3>1, BaseFacts DEF MovesUp, IsRoot, Trie
    <3>4. QED
      BY <2>2, <3>2, <3>3 DEF IsRoot
  <2>3. CASE x # R /\ Hangs(x, B, dp)
    <3>1. x \in B \ {X, R} /\ size'[x] = size[x] /\ dp2[x] = dp[x] /\ x # Null
      BY <1>2, <1>3, <2>3, BaseFacts DEF Trie
    <3>2. PICK p \in B : p = parent[x]
      BY <2>3 DEF Hangs
    <3>3. /\ Index(p) = Index(x) /\ dp[x] = dp[p] + 1 /\ dp[p] \in Nat
          /\ child[p][Turn(size[x], dp[p])] = x /\ Agree(x, p, dp[p])
      BY <2>3, <3>1, <3>2, AtDepth DEF Hangs
    <3>4. PICK c \in 0 .. 1 : c = Turn(size[x], dp[p])
      BY <3>1, <3>3, BaseFacts, TurnIsABit DEF Trie
    <3>5. CASE p = X
      <4>1. parent'[x] = R /\ R \in B2
        BY <3>1, <3>2, <3>5 DEF MovesUp
      <4>2. child'[R][c] = x
        BY <3>1, <3>3, <3>4, <3>5 DEF MovesUp
      <4>3. size'[R] = size[R] /\ Index(R)' = Index(x)'
        BY <1>1, <1>2, <3>1, <3>3, <3>5, <4>1 DEF Index
      <4>4. Agree(x, R, dp[X])'
        BY <1>1, <3>1, <3>3, <3>5, <4>3 DEF Agree
      <4>5. QED
        BY <1>3, <3>1, <3>3, <3>4, <3>5, <4>1, <4>2, <4>3, <4>4 DEF Hangs
    <3>6. CASE p # X
      <4>1. p # R
        BY <1>4, <3>1, <3>3, <3>4
      <4>2. p \in B \ {X, R} /\ p \in B2 /\ size'[p] = size[p] /\ dp2[p] = dp[p]
        BY <1>2, <1>3, <3>6, <4>1
      <4>3. parent'[x] = p
        BY <3>1, <3>2, <3>6 DEF MovesUp
      <4>4. child'[p][c] = x
        BY <3>1, <3>3, <3>4, <4>2 DEF MovesUp
      <4>5. Index(p)' = Index(x)' /\ Agree(x, p, dp[p])'
        BY <3>1, <3>3, <4>2, SameSizes
      <4>6. QED
        BY <3>1, <3>3, <3>4, <4>2, <4>3, <4>4, <4>5 DEF Hangs
    <3>7. QED
      BY <3>5, <3>6
  <2>4. QED
    BY <2>1, <2>2, <2>3 DEF Trie, ParentsOK
<1>7. ChildrenOK(B2, dp2)'
  <2> SUFFICES ASSUME NEW x \in B2, NEW c \in 0 .. 1, child'[x][c] # Null
               PROVE  \E z \in B2 : /\ z = child'[x][c] /\ parent'[z] = x
                                    /\ Turn(size'[z], dp2[x]) = c
    BY DEF ChildrenOK
  <2>1. CASE x = R
    <3>1. child[X][c] # R /\ child'[R][c] = child[X][c] /\ child[X][c] # Null
      BY <2>1 DEF MovesUp
    <3>2. PICK z \in B : z = child[X][c] /\ parent[z] = X /\ Turn(size[z], dp[X]) = c
                         /\ dp[z] = dp[X] + 1
      BY <3>1, ChildFacts
    <3>3. z # X /\ z # R
      BY <1>1, <3>1, <3>2
    <3>4. parent'[z] = R /\ z \in B2 /\ size'[z] = size[z]
      BY <1>2, <3>2, <3>3 DEF MovesUp
    <3>5. QED
      BY <1>3, <2>1, <3>1, <3>2, <3>4
  <2>2. CASE x # R
    <3>1. x \in B \ {X, R} /\ dp2[x] = dp[x]
      BY <1>2, <1>3, <2>2
    <3>2. child'[x][c] = IF child[x][c] = X THEN R ELSE IF child[x][c] = R THEN Null ELSE child[x][c]
      BY <3>1 DEF MovesUp
    <3>3. CASE child[x][c] = X
      <4>1. parent[X] = x /\ Turn(size[X], dp[x]) = c /\ dp[X] = dp[x] + 1
        BY <1>1, <3>1, <3>3, ChildFacts
      <4>2. dp[x] \in Nat
        BY <3>1, AtDepth
      <4>3. Turn(size[R], dp[x]) = c
        BY <1>1, <4>1, <4>2 DEF Agree
      <4>4. parent'[R] = x /\ R \in B2 /\ size'[R] = size[R]
        BY <1>2, <4>1 DEF MovesUp
      <4>5. QED
        BY <3>1, <3>2, <3>3, <4>3, <4>4
    <3>4. CASE child[x][c] # X
      <4>1. child[x][c] # R /\ child'[x][c] = child[x][c]
        BY <3>2, <3>4
      <4>2. PICK z \in B : z = child[x][c] /\ parent[z] = x /\ Turn(size[z], dp[x]) = c
        BY <3>1, <4>1 DEF Trie, ChildrenOK
      <4>3. z \in B2 /\ z \in B \ {X, R} /\ size'[z] = size[z]
        BY <1>2, <3>4, <4>1, <4>2
      <4>4. parent'[z] = x
        BY <3>1, <4>2, <4>3 DEF MovesUp
      <4>5. QED
        BY <3>1, <4>1, <4>2, <4>3, <4>4
    <3>5. QED
      BY <3>3, <3>4
  <2>3. QED
    BY <2>1, <2>2
<1>8. RootsOK(B2)'
  <2> SUFFICES ASSUME NEW i \in Indices, root'[i] # Null
               PROVE  \E r \in B2 : /\ r = root'[i] /\ compute_tree_index(size'[r]) = i
                                    /\ parent'[r] = Large!treebin_at(i)
    BY DEF RootsOK, Index
  <2>1. root'[i] = IF root[i] = X THEN R ELSE root[i]
    BY DEF MovesUp
  <2>2. CASE root[i] = X
    <3>1. Index(X) = i /\ parent[X] = Large!treebin_at(i)
      BY <1>1, <2>2 DEF Trie, RootsOK
    <3>2. compute_tree_index(size'[R]) = i /\ parent'[R] = Large!treebin_at(i) /\ R \in B2
      BY <1>1, <1>2, <3>1 DEF MovesUp, Index
    <3>3. QED
      BY <2>1, <2>2, <3>2
  <2>3. CASE root[i] # X
    <3>1. PICK r \in B : r = root[i] /\ Index(r) = i /\ parent[r] = Large!treebin_at(i) /\ r # X
      BY <2>1, <2>3 DEF Trie, RootsOK
    <3>2. parent[r] \notin B /\ parent[r] # X
      BY <1>1, <3>1, TreebinsAreDistinct DEF MaybeChunk
    <3>3. dp[r] = 0
      BY <3>1, <3>2, AtDepth DEF Hangs
    <3>4. r # R
      BY <1>1, <1>4, <3>1, <3>3
    <3>5. r \in B2 /\ compute_tree_index(size'[r]) = i /\ parent'[r] = Large!treebin_at(i)
      BY <1>2, <3>1, <3>2, <3>4 DEF MovesUp, Index
    <3>6. QED
      BY <2>1, <2>3, <3>1, <3>5
  <2>4. QED
    BY <2>2, <2>3
<1>9. QED
  BY <1>3, <1>5, <1>6, <1>7, <1>8 DEF Trie

(* X is a leaf that nothing replaces. *)
LeafGoes(X, B) ==
  /\ \A y \in B \ {X}, c \in 0 .. 1 : child'[y][c] = IF child[y][c] = X THEN Null ELSE child[y][c]
  /\ \A y \in B \ {X} : parent'[y] = parent[y]
  /\ \A i \in Indices : root'[i] = IF root[i] = X THEN Null ELSE root[i]
  /\ \A y \in Chunks \ {X} : size'[y] = size[y]

(* A leaf may go. *)
LEMMA LeafGoesKeepsTrie ==
  ASSUME NEW B, NEW dp, Trie(B, dp), NEW X \in B, TrieTypes', \A c \in 0 .. 1 : child[X][c] = Null,
         LeafGoes(X, B), NEW B2, B2 = B \ {X}
  PROVE  Trie(B2, dp)'
<1>1. X \in Chunks /\ X # Null /\ B \subseteq Chunks /\ dp[X] \in Nat
  BY BaseFacts, AtDepth DEF Trie, IsBases
<1>2. \A y \in B2 : size'[y] = size[y] /\ y \in Chunks /\ y # X /\ parent'[y] = parent[y]
  BY <1>1 DEF LeafGoes
<1>3. IsBases(B2)'
  BY <1>2 DEF Trie, IsBases
<1>4. ParentsOK(B2, dp)'
  <2> SUFFICES ASSUME NEW x \in B2
               PROVE  IsRoot(x, dp)' \/ Hangs(x, B2, dp)'
    BY DEF ParentsOK
  <2>1. CASE IsRoot(x, dp)
    <3>1. root'[Index(x)] = x /\ Index(x)' = Index(x)
      BY <1>2, <2>1, BaseFacts DEF LeafGoes, IsRoot, Trie, Index
    <3>2. QED
      BY <1>2, <2>1, <3>1 DEF IsRoot
  <2>2. CASE Hangs(x, B, dp)
    <3>1. PICK p \in B : p = parent[x]
      BY <2>2 DEF Hangs
    <3>2. /\ Index(p) = Index(x) /\ dp[x] = dp[p] + 1 /\ dp[p] \in Nat
          /\ child[p][Turn(size[x], dp[p])] = x /\ Agree(x, p, dp[p])
      BY <2>2, <3>1, AtDepth DEF Hangs
    <3>3. PICK c \in 0 .. 1 : c = Turn(size[x], dp[p])
      BY <3>2, BaseFacts, TurnIsABit DEF Trie
    <3>4. p # X /\ x # Null
      BY <3>2, <3>3, BaseFacts DEF Trie
    <3>5. p \in B2 /\ child'[p][c] = x
      BY <1>2, <3>2, <3>3, <3>4 DEF LeafGoes
    <3>6. Index(p)' = Index(x)' /\ Agree(x, p, dp[p])'
      BY <1>2, <3>2, <3>5, SameSizes
    <3>7. QED
      BY <1>2, <3>1, <3>2, <3>3, <3>5, <3>6 DEF Hangs
  <2>3. QED
    BY <2>1, <2>2 DEF Trie, ParentsOK
<1>5. ChildrenOK(B2, dp)'
  <2> SUFFICES ASSUME NEW x \in B2, NEW c \in 0 .. 1, child'[x][c] # Null
               PROVE  \E z \in B2 : /\ z = child'[x][c] /\ parent'[z] = x
                                    /\ Turn(size'[z], dp[x]) = c
    BY DEF ChildrenOK
  <2>1. child[x][c] # X /\ child'[x][c] = child[x][c]
    BY DEF LeafGoes
  <2>2. PICK z \in B : z = child[x][c] /\ parent[z] = x /\ Turn(size[z], dp[x]) = c
    BY <2>1 DEF Trie, ChildrenOK
  <2>3. z \in B2
    BY <2>1, <2>2
  <2>4. QED
    BY <1>2, <2>1, <2>2, <2>3
<1>6. RootsOK(B2)'
  <2> SUFFICES ASSUME NEW i \in Indices, root'[i] # Null
               PROVE  \E r \in B2 : /\ r = root'[i] /\ compute_tree_index(size'[r]) = i
                                    /\ parent'[r] = Large!treebin_at(i)
    BY DEF RootsOK, Index
  <2>1. root[i] # X /\ root'[i] = root[i]
    BY DEF LeafGoes
  <2>2. PICK r \in B : r = root[i] /\ Index(r) = i /\ parent[r] = Large!treebin_at(i)
    BY <2>1 DEF Trie, RootsOK
  <2>3. r \in B2
    BY <2>1, <2>2
  <2>4. QED
    BY <1>2, <2>1, <2>2, <2>3 DEF Index
<1>7. QED
  BY <1>3, <1>4, <1>5, <1>6 DEF Trie

-----------------------------------------------------------------------------
(* The leaf that takes the place of a node.                                *)

(* The right child, or else the left one. *)
LastChild(x) == IF child[x][1] # Null THEN child[x][1] ELSE child[x][0]

(* The child that the descent to the replacement takes. *)
LEMMA LastChildFacts ==
  ASSUME TrieTypes, NEW x \in Chunks
  PROVE  /\ LastChild(x) \in MaybeChunk
         /\ Large!rightmost_child(x) = LastChild(x)
         /\ LastChild(x) = Null => \A c \in 0 .. 1 : child[x][c] = Null
         /\ LastChild(x) # Null => \E c \in 0 .. 1 : child[x][c] = LastChild(x)
<1>1. /\ child[x][0] \in MaybeChunk /\ child[x][1] \in MaybeChunk
      /\ \A c \in 0 .. 1 : c = 0 \/ c = 1
  BY DEF TrieTypes
<1>2. QED
  BY <1>1 DEF LastChild, Large!rightmost_child

(* ReplacementLeaf is a walk along last children. *)
LEMMA ReplacementSteps ==
  ASSUME TrieTypes, NEW X \in Chunks
  PROVE  \E r \in [0 .. Count -> MaybeChunk] :
           /\ r[0] = LastChild(X)
           /\ \A d \in 1 .. Count : r[d] = IF r[d - 1] = Null \/ LastChild(r[d - 1]) = Null
                                           THEN r[d - 1] ELSE LastChild(r[d - 1])
           /\ r[Count] = Large!ReplacementLeaf(X)
<1> DEFINE step == [d \in 1 .. Count |-> [x \in MaybeChunk |->
                      IF x = Null \/ LastChild(x) = Null THEN x ELSE LastChild(x)]]
           Step(f, d) == IF d = 0 THEN Large!rightmost_child(X)
                         ELSE IF f[d - 1] = Null \/ Large!rightmost_child(f[d - 1]) = Null THEN f[d - 1]
                         ELSE Large!rightmost_child(f[d - 1])
           chosen == CHOOSE f : f = [d \in Large!Depths |-> Step(f, d)]
<1>1. \A x \in MaybeChunk : x # Null => LastChild(x) \in MaybeChunk /\ Large!rightmost_child(x) = LastChild(x)
  BY LastChildFacts DEF MaybeChunk
<1>2. step \in [1 .. Count -> [MaybeChunk -> MaybeChunk]]
  BY <1>1
<1>3. PICK w \in [0 .. Count -> MaybeChunk] :
        w[0] = LastChild(X) /\ \A d \in 1 .. Count : w[d] = step[d][w[d - 1]]
  <2> HIDE DEF step
  <2>1. PICK v \in MaybeChunk : v = LastChild(X)
    BY LastChildFacts
  <2>2. PICK w : Walks(w, Count, MaybeChunk, v, step)
    BY <1>2, CountIsNat, Iteration
  <2>3. QED
    BY <2>1, <2>2 DEF Walks
<1>4. \A d \in 1 .. Count : \A x \in MaybeChunk :
        step[d][x] = IF x = Null \/ LastChild(x) = Null THEN x ELSE LastChild(x)
  OBVIOUS
<1> HIDE DEF step
<1>5. ASSUME NEW d \in 1 .. Count
      PROVE  w[d] = IF w[d - 1] = Null \/ LastChild(w[d - 1]) = Null THEN w[d - 1] ELSE LastChild(w[d - 1])
  BY <1>3, <1>4, CountIsNat
<1>6. ASSUME NEW d \in 0 .. Count
      PROVE  w[d] = Step(w, d)
  <2>1. CASE d = 0
    BY <1>3, <2>1, LastChildFacts
  <2>2. CASE d # 0
    <3>1. d \in 1 .. Count /\ w[d - 1] \in MaybeChunk
      BY <2>2, CountIsNat
    <3>2. w[d] = IF w[d - 1] = Null \/ LastChild(w[d - 1]) = Null THEN w[d - 1] ELSE LastChild(w[d - 1])
      BY <1>5, <3>1
    <3>3. QED
      BY <1>1, <2>2, <3>1, <3>2
  <2>3. QED
    BY <2>1, <2>2
<1>7. Large!ReplacementLeaf(X) = chosen[Count]
  BY DEF Large!ReplacementLeaf, Count, Large!Cardinality, Cardinality
<1>8. w = [d \in Large!Depths |-> Step(w, d)]
  <2> HIDE DEF Step
  <2>1. QED
    BY <1>6, CountIsNat
<1>9. chosen = [d \in Large!Depths |-> Step(chosen, d)]
  <2> HIDE DEF Step
  <2>1. QED
    BY <1>8
<1> HIDE DEF chosen
<1>10. \A d \in 0 .. Count : chosen[d] = Step(chosen, d)
  <2> HIDE DEF Step
  <2>1. QED
    BY <1>9, CountIsNat
<1> DEFINE T == {d \in Nat : d <= Count => chosen[d] = w[d]}
<1>11. 0 \in T
  BY <1>6, <1>10, CountIsNat
<1>12. ASSUME NEW d \in Nat, d \in T
       PROVE  d + 1 \in T
  <2> SUFFICES ASSUME d + 1 <= Count
               PROVE  chosen[d + 1] = w[d + 1]
    OBVIOUS
  <2>1. d + 1 \in 0 .. Count /\ (d + 1) - 1 = d /\ d + 1 # 0 /\ chosen[d] = w[d]
    BY <1>12, CountIsNat
  <2>2. chosen[d + 1] = Step(chosen, d + 1) /\ w[d + 1] = Step(w, d + 1)
    <3> HIDE DEF Step
    <3>1. QED
      BY <1>6, <1>10, <2>1
  <2>3. QED
    BY <2>1, <2>2
<1>13. chosen[Count] = w[Count]
  <2> HIDE DEF T
  <2>1. Nat \subseteq T
    BY <1>11, <1>12, Induction
  <2>2. QED
    BY <2>1, CountIsNat DEF T
<1>14. QED
  BY <1>3, <1>5, <1>7, <1>13

(* Going down to the right ends at a leaf of the subtree.                  *)
LEMMA ReplacementIs ==
  ASSUME NEW B, NEW dp, Trie(B, dp), NEW X \in B, NEW R, R = Large!ReplacementLeaf(X)
  PROVE  \/ R = Null /\ \A c \in 0 .. 1 : child[X][c] = Null
         \/ /\ R \in B /\ R # X /\ R # Null /\ CanReplace(R, X, B, dp)
            /\ LastChild(X) # Null
<1>1. X \in Chunks /\ dp[X] \in Nat /\ TrieTypes
  BY BaseFacts, AtDepth DEF Trie
<1>2. PICK r \in [0 .. Count -> MaybeChunk] :
           /\ r[0] = LastChild(X)
           /\ \A d \in 1 .. Count : r[d] = IF r[d - 1] = Null \/ LastChild(r[d - 1]) = Null
                                           THEN r[d - 1] ELSE LastChild(r[d - 1])
           /\ r[Count] = R
  BY <1>1, ReplacementSteps
<1> DEFINE Inside(y) == y \in B /\ dp[X] < dp[y] /\ Index(y) = Index(X) /\ Agree(y, X, dp[X])
<1>3. ASSUME NEW y \in B, y = X \/ Inside(y), LastChild(y) # Null
      PROVE  Inside(LastChild(y)) /\ dp[LastChild(y)] = dp[y] + 1
  <2>1. y \in Chunks /\ dp[y] \in Nat
    BY BaseFacts, AtDepth DEF Trie
  <2>2. PICK c \in 0 .. 1 : child[y][c] = LastChild(y)
    BY <1>1, <1>3, <2>1, LastChildFacts
  <2>3. PICK z : z = LastChild(y)
    OBVIOUS
  <2>4. z \in B /\ dp[z] = dp[y] + 1 /\ Index(z) = Index(y) /\ Agree(z, y, dp[y])
    BY <1>3, <2>2, <2>3, ChildFacts
  <2>5. dp[X] <= dp[y] /\ Index(y) = Index(X) /\ Agree(y, X, dp[X])
    BY <1>1, <1>3, <2>1 DEF Agree
  <2>6. Agree(z, X, dp[X])
    BY <1>1, <2>1, <2>4, <2>5 DEF Agree
  <2>7. QED
    BY <1>1, <2>1, <2>3, <2>4, <2>5, <2>6
<1>4. CASE LastChild(X) = Null
  <2> DEFINE T == {d \in Nat : d <= Count => r[d] = Null}
  <2>1. 0 \in T
    BY <1>2, <1>4
  <2>2. ASSUME NEW d \in Nat, d \in T
        PROVE  d + 1 \in T
    <3> SUFFICES ASSUME d + 1 <= Count
                 PROVE  r[d + 1] = Null
      OBVIOUS
    <3>1. d + 1 \in 1 .. Count /\ (d + 1) - 1 = d /\ r[d] = Null
      BY <2>2, CountIsNat
    <3>2. QED
      BY <1>2, <3>1
  <2>3. Nat \subseteq T
    <3> HIDE DEF T
    <3>1. QED
      BY <2>1, <2>2, Induction
  <2>4. R = Null
    BY <1>2, <2>3, CountIsNat
  <2>5. QED
    BY <1>1, <1>4, <2>4, LastChildFacts
<1>5. CASE LastChild(X) # Null
  <2> DEFINE Far(d) == Inside(r[d]) /\ (LastChild(r[d]) = Null \/ dp[r[d]] = dp[X] + 1 + d)
             T == {d \in Nat : d <= Count => Far(d)}
  <2>1. 0 \in T
    <3>1. Inside(LastChild(X)) /\ dp[LastChild(X)] = dp[X] + 1
      BY <1>3, <1>5
    <3>2. QED
      BY <1>1, <1>2, <3>1
  <2>2. ASSUME NEW d \in Nat, d \in T
        PROVE  d + 1 \in T
    <3> SUFFICES ASSUME d + 1 <= Count
                 PROVE  Far(d + 1)
      OBVIOUS
    <3>1. d + 1 \in 1 .. Count /\ (d + 1) - 1 = d
      BY CountIsNat
    <3>2. PICK y, z : y = r[d] /\ z = r[d + 1]
      OBVIOUS
    <3>3. y \in B /\ Inside(y) /\ (LastChild(y) = Null \/ dp[y] = dp[X] + 1 + d)
      BY <2>2, <3>1, <3>2, CountIsNat
    <3>4. y # Null
      BY <3>3, BaseFacts DEF Trie
    <3>5. z = IF LastChild(y) = Null THEN y ELSE LastChild(y)
      BY <1>2, <3>1, <3>2, <3>4
    <3>6. CASE LastChild(y) = Null
      <4>1. z = y
        BY <3>5, <3>6
      <4>2. QED
        BY <3>2, <3>3, <3>6, <4>1
    <3>7. CASE LastChild(y) # Null
      <4>1. z = LastChild(y) /\ Inside(LastChild(y)) /\ dp[LastChild(y)] = dp[y] + 1
        BY <1>3, <3>3, <3>5, <3>7
      <4>2. dp[z] = dp[X] + 1 + (d + 1)
        BY <1>1, <3>3, <3>7, <4>1
      <4>3. QED
        BY <3>2, <4>1, <4>2
    <3>8. QED
      BY <3>6, <3>7
  <2>3. Nat \subseteq T
    <3> HIDE DEF T
    <3>1. QED
      BY <2>1, <2>2, Induction
  <2>4. R \in B /\ Inside(R) /\ (LastChild(R) = Null \/ dp[R] = dp[X] + 1 + Count)
    BY <1>2, <2>3, CountIsNat
  <2>5. dp[R] \in Nat /\ dp[R] < Count /\ R \in Chunks /\ R # Null /\ size[R] \in LargeSizes
    BY <2>4, DepthIsBounded, BaseFacts DEF Count, Trie
  <2>6. LastChild(R) = Null
    BY <1>1, <2>4, <2>5, CountIsNat
  <2>7. R # X
    BY <1>1, <2>4
  <2>8. \A c \in 0 .. 1 : child[R][c] = Null
    BY <1>1, <2>5, <2>6, LastChildFacts
  <2>9. QED
    BY <1>5, <2>4, <2>5, <2>7, <2>8 DEF CanReplace
<1>6. QED
  BY <1>4, <1>5

-----------------------------------------------------------------------------
(* What insertion does to the tries.                                       *)

(* What a step may change of the chunks outside B: nothing but X's links.  *)
OnlyNodes(B, X) ==
  \A y \in Chunks \ (B \cup {X}) : child'[y] = child[y] /\ parent'[y] = parent[y]

(* A new node has no children. *)
LEMMA NoChildIs ==
  /\ Large!NoChild \in [0 .. 1 -> MaybeChunk]
  /\ \A c \in 0 .. 1 : Large!NoChild[c] = Null
BY DEF Large!NoChild, MaybeChunk

(* Insertion into an empty tree bin. *)
LEMMA InsertRootBuilds ==
  ASSUME NEW B, NEW dp, Trie(B, dp), NEW X \in Chunks \ B, NEW S \in LargeSizes,
         Large!InsertRoot(X, S), size' = [size EXCEPT ![X] = S]
  PROVE  /\ \E dp2 : Trie(B \cup {X}, dp2)'
         /\ OnlyNodes(B, X) /\ \A y \in B : size[y] # S
<1> DEFINE I == compute_tree_index(S)
<1>1. I \in Indices /\ S \in AllSizes /\ X \in Chunks /\ TrieTypes /\ B \subseteq Chunks
  BY DEF Indices, LargeSizes, Trie, IsBases
<1>2. /\ I \notin treemap /\ treemap' = treemap \cup {I}
      /\ root' = [root EXCEPT ![I] = X]
      /\ parent' = [parent EXCEPT ![X] = Large!treebin_at(I)]
      /\ child' = [child EXCEPT ![X] = Large!NoChild]
  BY TreeIndex DEF Large!InsertRoot, Large!mark_treemap
<1>3. root[I] = Null
  BY <1>1, <1>2 DEF TrieTypes
<1>4. TrieTypes'
  <2>1. root' \in [Indices -> MaybeChunk]
    BY <1>1, <1>2 DEF TrieTypes, MaybeChunk
  <2>2. child' \in [Chunks -> [0 .. 1 -> MaybeChunk]]
    BY <1>1, <1>2, NoChildIs DEF TrieTypes
  <2>3. parent' \in [Chunks -> MaybeChunk \cup {Large!treebin_at(i) : i \in Indices}]
    BY <1>1, <1>2 DEF TrieTypes
  <2>4. size' \in [Chunks -> AllSizes \cup {0}]
    BY <1>1 DEF TrieTypes
  <2>5. treemap' = {i \in Indices : root'[i] # Null}
    BY <1>1, <1>2, BinsAssumption DEF TrieTypes
  <2>6. QED
    BY <2>1, <2>2, <2>3, <2>4, <2>5 DEF TrieTypes
<1>5. GrowsRoot(X, S, B)
  <2>1. /\ parent'[X] = Large!treebin_at(I) /\ child'[X] = Large!NoChild /\ size'[X] = S
        /\ \A y \in B : size'[y] = size[y] /\ child'[y] = child[y] /\ parent'[y] = parent[y]
    BY <1>1, <1>2 DEF TrieTypes
  <2>2. QED
    BY <1>2, <1>3, <2>1, NoChildIs DEF GrowsRoot
<1>6. \A y \in B : size[y] # S
  BY <1>3, NoNodeWithoutRoot DEF Index
<1>7. OnlyNodes(B, X)
  BY <1>1, <1>2 DEF OnlyNodes, TrieTypes
<1>8. QED
  BY <1>4, <1>5, <1>6, <1>7, GrowsRootKeepsTrie

(* Insertion of a size that its tree bin does not have. *)
LEMMA InsertLeafBuilds ==
  ASSUME NEW B, NEW dp, Trie(B, dp), NEW X \in Chunks \ B, NEW S \in LargeSizes,
         Large!InsertLeaf(X, S), size' = [size EXCEPT ![X] = S]
  PROVE  /\ \E dp2 : Trie(B \cup {X}, dp2)'
         /\ OnlyNodes(B, X) /\ \A y \in B : size[y] # S
<1>1. S \in AllSizes /\ X \in Chunks /\ TrieTypes /\ B \subseteq Chunks /\ compute_tree_index(S) \in Indices
  BY DEF Indices, LargeSizes, Trie, IsBases
<1>2. PICK at, d, t : at = Large!Path(S) /\ d = Large!LastDepth(at) /\ t = at[d]
  OBVIOUS
<1>3. /\ compute_tree_index(S) \in treemap /\ size[t] # S
      /\ child' = [child EXCEPT ![t][Turn(S, d)] = X, ![X] = Large!NoChild]
      /\ parent' = [parent EXCEPT ![X] = t]
      /\ root' = root /\ treemap' = treemap
  BY <1>2, TreeIndex, TurnOfTree DEF Large!InsertLeaf
<1>4. /\ t \in B /\ Index(t) = compute_tree_index(S) /\ dp[t] = d /\ d \in Nat
      /\ \A e \in 0 .. d - 1 : Turn(size[t], e) = Turn(S, e)
      /\ \A x \in B : size[x] = S => x = t
      /\ child[t][Turn(S, d)] = Null
  BY <1>2, <1>3, PathEnds
<1>5. PICK k \in 0 .. 1 : k = Turn(S, d)
  BY <1>4, SizesAreLarge, TurnIsABit
<1>6. t \in Chunks /\ t # X
  BY <1>1, <1>4
<1>7. /\ child'[t] = [child[t] EXCEPT ![k] = X] /\ child'[X] = Large!NoChild
      /\ \A y \in Chunks : y # t /\ y # X => child'[y] = child[y]
  BY <1>1, <1>3, <1>5, <1>6 DEF TrieTypes
<1>8. TrieTypes'
  <2>1. [child[t] EXCEPT ![k] = X] \in [0 .. 1 -> MaybeChunk]
    BY <1>1, <1>6 DEF TrieTypes, MaybeChunk
  <2>2. child' \in [Chunks -> [0 .. 1 -> MaybeChunk]]
    <3>1. child' = [y \in Chunks |-> child'[y]]
      BY <1>1, <1>3 DEF TrieTypes
    <3>2. \A y \in Chunks : child'[y] \in [0 .. 1 -> MaybeChunk]
      BY <1>1, <1>7, <2>1, NoChildIs DEF TrieTypes
    <3>3. QED
      BY <3>1, <3>2
  <2>3. parent' \in [Chunks -> MaybeChunk \cup {Large!treebin_at(i) : i \in Indices}]
    BY <1>1, <1>3, <1>6 DEF TrieTypes, MaybeChunk
  <2>4. size' \in [Chunks -> AllSizes \cup {0}]
    BY <1>1 DEF TrieTypes
  <2>5. QED
    BY <1>1, <1>3, <2>2, <2>3, <2>4 DEF TrieTypes
<1>9. \A y \in B : size[y] # S
  BY <1>3, <1>4
<1>10. GrowsLeaf(X, S, t, B, dp)
  <2>1. /\ parent'[X] = t /\ size'[X] = S
        /\ \A y \in B : /\ size'[y] = size[y] /\ parent'[y] = parent[y]
                        /\ y # t => child'[y] = child[y]
    BY <1>1, <1>3, <1>7 DEF TrieTypes
  <2>2. QED
    BY <1>3, <1>4, <1>5, <1>7, <1>9, <2>1, NoChildIs DEF GrowsLeaf
<1>11. OnlyNodes(B, X)
  BY <1>1, <1>3, <1>4, <1>7 DEF OnlyNodes, TrieTypes
<1>12. QED
  BY <1>8, <1>9, <1>10, <1>11, GrowsLeafKeepsTrie

(* Insertion of a size that is there: the chunk joins a ring, the trie     *)
(* stays.                                                                  *)
LEMMA InsertChainedBuilds ==
  ASSUME NEW B, NEW dp, Trie(B, dp), NEW X \in Chunks \ B, NEW S \in LargeSizes,
         Large!InsertChained(X, S), size' = [size EXCEPT ![X] = S]
  PROVE  /\ Trie(B, dp)'
         /\ OnlyNodes(B, X) /\ parent'[X] = Null /\ child'[X] = Large!NoChild
         /\ \E T \in B : size[T] = S /\ Large!JoinRing(X, T)
<1>1. S \in AllSizes /\ X \in Chunks /\ TrieTypes /\ B \subseteq Chunks
  BY DEF LargeSizes, Trie, IsBases
<1>2. PICK at, d, t : at = Large!Path(S) /\ d = Large!LastDepth(at) /\ t = at[d]
  OBVIOUS
<1>3. /\ compute_tree_index(S) \in treemap /\ size[t] = S
      /\ Large!JoinRing(X, t)
      /\ child' = [child EXCEPT ![X] = Large!NoChild]
      /\ parent' = [parent EXCEPT ![X] = Null]
      /\ root' = root /\ treemap' = treemap
  BY <1>2, TreeIndex DEF Large!InsertChained
<1>4. t \in B
  BY <1>2, <1>3, PathEnds
<1>5. TrieTypes'
  <2>1. child' \in [Chunks -> [0 .. 1 -> MaybeChunk]]
    BY <1>1, <1>3, NoChildIs DEF TrieTypes
  <2>2. parent' \in [Chunks -> MaybeChunk \cup {Large!treebin_at(i) : i \in Indices}]
    BY <1>1, <1>3 DEF TrieTypes, MaybeChunk
  <2>3. size' \in [Chunks -> AllSizes \cup {0}]
    BY <1>1 DEF TrieTypes
  <2>4. QED
    BY <1>1, <1>3, <2>1, <2>2, <2>3 DEF TrieTypes
<1>6. \A y \in B : size'[y] = size[y] /\ child'[y] = child[y] /\ parent'[y] = parent[y]
  BY <1>1, <1>3 DEF TrieTypes
<1>7. Trie(B, dp)'
  BY <1>3, <1>5, <1>6, UntouchedKeepsTrie
<1>8. OnlyNodes(B, X) /\ parent'[X] = Null /\ child'[X] = Large!NoChild
  BY <1>1, <1>3 DEF OnlyNodes, TrieTypes
<1>9. QED
  BY <1>3, <1>4, <1>7, <1>8

-----------------------------------------------------------------------------
(* What removal does to the tries.                                         *)

(* Functions like child. *)
Kids == [Chunks -> [0 .. 1 -> MaybeChunk]]

(* The index of the instance is the one of the lemmas. *)
LEMMA IndexOfTree == \A x : Large!index(x) = Index(x)
BY TreeIndex DEF Large!index, Index

(* Relink puts R where X was a child. *)
LEMMA RelinkIs ==
  ASSUME NEW B, NEW dp, Trie(B, dp), NEW X \in B, NEW R \in MaybeChunk, NEW kids \in Kids,
         \A y \in B, c \in 0 .. 1 : kids[y][c] = X <=> child[y][c] = X,
         NEW K, K = Large!Relink(X, R, kids)
  PROVE  /\ K \in Kids
         /\ \A y \in B, c \in 0 .. 1 : K[y][c] = IF kids[y][c] = X THEN R ELSE kids[y][c]
         /\ \A y \in Chunks \ B : K[y] = kids[y]
<1>1. /\ X \in Chunks /\ X # Null /\ B \subseteq Chunks
      /\ Large!treebin_at(Index(X)) \notin MaybeChunk
  BY BaseFacts DEF Trie, IsBases
<1>2. K = IF parent[X] = Large!treebin_at(Index(X)) THEN kids
          ELSE [kids EXCEPT ![parent[X]] = IF kids[parent[X]][0] = X
                                           THEN [kids[parent[X]] EXCEPT ![0] = R]
                                           ELSE [kids[parent[X]] EXCEPT ![1] = R]]
  BY IndexOfTree DEF Large!Relink
<1>3. \A y \in B, c \in 0 .. 1 : child[y][c] = X => parent[X] = y /\ Turn(size[X], dp[y]) = c
  BY <1>1 DEF Trie, ChildrenOK
<1>4. CASE IsRoot(X, dp)
  <2>1. K = kids
    BY <1>2, <1>4 DEF IsRoot
  <2>2. \A y \in B, c \in 0 .. 1 : kids[y][c] # X
    BY <1>1, <1>3, <1>4 DEF IsRoot, MaybeChunk
  <2>3. QED
    BY <2>1, <2>2
<1>5. CASE Hangs(X, B, dp)
  <2>1. PICK p \in B : p = parent[X]
    BY <1>5 DEF Hangs
  <2>2. child[p][Turn(size[X], dp[p])] = X /\ dp[p] \in Nat
    BY <1>5, <2>1, AtDepth DEF Hangs
  <2>3. PICK k \in 0 .. 1 : k = Turn(size[X], dp[p])
    BY <2>2, BaseFacts, TurnIsABit DEF Trie
  <2>4. kids[p][k] = X /\ \A c \in 0 .. 1 : kids[p][c] = X => c = k
    BY <1>3, <2>1, <2>2, <2>3
  <2>5. p \in Chunks /\ p # Large!treebin_at(Index(X)) /\ kids[p] \in [0 .. 1 -> MaybeChunk]
    BY <1>1, <2>1 DEF MaybeChunk, Kids
  <2>6. K = [kids EXCEPT ![p] = IF kids[p][0] = X THEN [kids[p] EXCEPT ![0] = R]
                                                   ELSE [kids[p] EXCEPT ![1] = R]]
    BY <1>2, <2>1, <2>5
  <2>7. K = [kids EXCEPT ![p] = [kids[p] EXCEPT ![k] = R]]
    <3>1. CASE k = 0
      BY <2>4, <2>6, <3>1
    <3>2. CASE k = 1
      <4>1. 0 \in 0 .. 1 /\ k # 0
        BY <3>2
      <4>2. kids[p][0] # X
        BY <2>4, <4>1
      <4>3. QED
        BY <2>6, <3>2, <4>2
    <3>3. QED
      BY <3>1, <3>2
  <2>8. [kids[p] EXCEPT ![k] = R] \in [0 .. 1 -> MaybeChunk]
    BY <2>5
  <2>9. /\ K \in Kids /\ K[p] = [kids[p] EXCEPT ![k] = R]
        /\ \A y \in Chunks : y # p => K[y] = kids[y]
    BY <2>5, <2>7, <2>8 DEF Kids
  <2>10. \A c \in 0 .. 1 : K[p][c] = IF kids[p][c] = X THEN R ELSE kids[p][c]
    BY <2>4, <2>5, <2>9
  <2>11. \A y \in B, c \in 0 .. 1 : y # p => K[y][c] = IF kids[y][c] = X THEN R ELSE kids[y][c]
    BY <1>1, <1>3, <2>1, <2>9
  <2>12. \A y \in B, c \in 0 .. 1 : K[y][c] = IF kids[y][c] = X THEN R ELSE kids[y][c]
    BY <2>10, <2>11
  <2>13. \A y \in Chunks \ B : K[y] = kids[y]
    BY <1>1, <2>1, <2>9
  <2>14. QED
    BY <2>9, <2>12, <2>13
<1>6. QED
  BY <1>4, <1>5 DEF Trie, ParentsOK

(* WithoutLeaf takes the leaf R off its parent. *)
LEMMA WithoutLeafIs ==
  ASSUME NEW B, NEW dp, Trie(B, dp), NEW X \in B, bk[X] = X, NEW R \in B, dp[X] < dp[R],
         R = Large!ReplacementLeaf(X), NEW kids, kids = Large!WithoutLeaf(X)
  PROVE  /\ kids \in Kids
         /\ \A y \in B, c \in 0 .. 1 : kids[y][c] = IF child[y][c] = R THEN Null ELSE child[y][c]
         /\ \A y \in Chunks \ B : kids[y] = child[y]
<1>1. R # Null /\ B \subseteq Chunks /\ dp[X] \in Nat /\ dp[R] \in Nat /\ TrieTypes
  BY BaseFacts, AtDepth DEF Trie, IsBases
<1>2. Hangs(R, B, dp)
  BY <1>1, AtDepth
<1>3. PICK p \in B : p = parent[R]
  BY <1>2 DEF Hangs
<1>4. kids = [child EXCEPT ![p] = [c \in 0 .. 1 |-> IF child[p][c] = R THEN Null ELSE child[p][c]]]
  BY <1>1, <1>3 DEF Large!WithoutLeaf
<1>5. p \in Chunks /\ child[p] \in [0 .. 1 -> MaybeChunk] /\ Null \in MaybeChunk
  BY <1>1, <1>3 DEF TrieTypes, MaybeChunk
<1>6. [c \in 0 .. 1 |-> IF child[p][c] = R THEN Null ELSE child[p][c]] \in [0 .. 1 -> MaybeChunk]
  BY <1>5
<1>7. /\ kids \in Kids
      /\ kids[p] = [c \in 0 .. 1 |-> IF child[p][c] = R THEN Null ELSE child[p][c]]
      /\ \A y \in Chunks : y # p => kids[y] = child[y]
  BY <1>1, <1>4, <1>5, <1>6 DEF Kids, TrieTypes
<1>8. \A y \in B, c \in 0 .. 1 : y # p => child[y][c] # R
  BY <1>1, <1>3 DEF Trie, ChildrenOK
<1>9. QED
  BY <1>1, <1>3, <1>7, <1>8

(* A node hangs below X exactly when it is one of X's children.            *)
LEMMA ChildrenOf ==
  ASSUME NEW B, NEW dp, Trie(B, dp), NEW X \in B, NEW y \in B
  PROVE  parent[y] = X <=> \E c \in 0 .. 1 : child[X][c] = y
<1>1. y # Null /\ X \in Chunks
  BY BaseFacts DEF Trie
<1>2. CASE IsRoot(y, dp)
  <2>1. parent[y] \notin MaybeChunk
    BY <1>2, BaseFacts DEF IsRoot, Trie
  <2>2. QED
    BY <1>1, <2>1 DEF Trie, ChildrenOK, MaybeChunk
<1>3. CASE Hangs(y, B, dp)
  <2>1. PICK p \in B : p = parent[y]
    BY <1>3 DEF Hangs
  <2>2. child[p][Turn(size[y], dp[p])] = y /\ dp[p] \in Nat
    BY <1>3, <2>1, AtDepth DEF Hangs
  <2>3. Turn(size[y], dp[p]) \in 0 .. 1
    BY <2>2, BaseFacts, TurnIsABit DEF Trie
  <2>4. QED
    BY <1>1, <2>1, <2>2, <2>3 DEF Trie, ChildrenOK
<1>4. QED
  BY <1>2, <1>3 DEF Trie, ParentsOK

(* A node is the root of no bin but its own. *)
LEMMA RootIs ==
  ASSUME NEW B, NEW dp, Trie(B, dp), NEW X \in B
  PROVE  \A i \in Indices : root[i] = X => i = Index(X)
BY BaseFacts DEF Trie, RootsOK

(* Removal of a leaf that is alone of its size. *)
LEMMA UnlinkLastBuilds ==
  ASSUME NEW B, NEW dp, Trie(B, dp), NEW X \in B, bk[X] # Null,
         Large!UnlinkLast(X), size' = [size EXCEPT ![X] = 0]
  PROVE  /\ bk[X] = X /\ \E dp2 : Trie(B \ {X}, dp2)'
         /\ OnlyNodes(B, X)
<1>1. /\ X \in Chunks /\ X # Null /\ Index(X) \in Indices /\ TrieTypes /\ B \subseteq Chunks
      /\ Large!treebin_at(Index(X)) \notin MaybeChunk /\ dp[X] \in Nat
  BY BaseFacts, AtDepth DEF Trie, IsBases
<1>2. bk[X] = X /\ Large!ReplacementLeaf(X) = Null
  BY DEF Large!UnlinkLast, Large!Replacement
<1>3. \A c \in 0 .. 1 : child[X][c] = Null
  BY <1>2, ReplacementIs
<1>4. /\ root' = IF root[Index(X)] = X THEN [root EXCEPT ![Index(X)] = Null] ELSE root
      /\ treemap' = IF root[Index(X)] = X THEN treemap \ {Index(X)} ELSE treemap
      /\ parent' = [parent EXCEPT ![X] = Null]
  BY IndexOfTree DEF Large!UnlinkLast
<1>5. PICK K : K = Large!Relink(X, Null, child) /\ child' = K
  BY DEF Large!UnlinkLast
<1>6. /\ K \in Kids
      /\ \A y \in B, c \in 0 .. 1 : K[y][c] = IF child[y][c] = X THEN Null ELSE child[y][c]
      /\ \A y \in Chunks \ B : K[y] = child[y]
  <2>1. child \in Kids /\ Null \in MaybeChunk
    BY <1>1 DEF Kids, TrieTypes, MaybeChunk
  <2>2. QED
    BY <1>5, <2>1, RelinkIs
<1>7. \A i \in Indices : root'[i] = IF root[i] = X THEN Null ELSE root[i]
  BY <1>1, <1>4, RootIs DEF TrieTypes
<1>8. TrieTypes'
  <2>1. root' \in [Indices -> MaybeChunk]
    BY <1>1, <1>4 DEF TrieTypes, MaybeChunk
  <2>2. parent' \in [Chunks -> MaybeChunk \cup {Large!treebin_at(i) : i \in Indices}]
    BY <1>1, <1>4 DEF TrieTypes, MaybeChunk
  <2>3. size' \in [Chunks -> AllSizes \cup {0}]
    BY <1>1 DEF TrieTypes
  <2>4. treemap' = {i \in Indices : root'[i] # Null}
    BY <1>1, <1>4, <1>7 DEF TrieTypes
  <2>5. QED
    BY <1>5, <1>6, <2>1, <2>2, <2>3, <2>4 DEF TrieTypes, Kids
<1>9. LeafGoes(X, B)
  <2>1. \A y \in B \ {X} : parent'[y] = parent[y]
    BY <1>1, <1>4 DEF TrieTypes
  <2>2. \A y \in Chunks \ {X} : size'[y] = size[y]
    BY <1>1 DEF TrieTypes
  <2>3. QED
    BY <1>5, <1>6, <1>7, <2>1, <2>2 DEF LeafGoes
<1>10. OnlyNodes(B, X)
  BY <1>1, <1>4, <1>5, <1>6 DEF OnlyNodes, TrieTypes
<1>11. Trie(B \ {X}, dp)'
  BY <1>3, <1>8, <1>9, LeafGoesKeepsTrie
<1>12. QED
  BY <1>2, <1>10, <1>11

(* R, a ring mate that is no node or the leaf of ReplacementIs, replaces X. *)
LEMMA UnlinkReplacedBuilds ==
  ASSUME NEW B, NEW dp, Trie(B, dp), NEW X \in B, NEW R, R = Large!Replacement(X),
         bk[X] # X => /\ R \in Chunks \ B /\ size[R] = size[X] /\ child[R] = Large!NoChild,
         Large!UnlinkReplaced(X), size' = [size EXCEPT ![X] = 0]
  PROVE  /\ \E dp2 : Trie((B \ {X}) \cup {R}, dp2)'
         /\ OnlyNodes(B \cup {R}, X)
         /\ bk[X] # X \/ R \in B
<1>1. /\ X \in Chunks /\ X # Null /\ Index(X) \in Indices /\ TrieTypes /\ B \subseteq Chunks
      /\ Large!treebin_at(Index(X)) \notin MaybeChunk /\ dp[X] \in Nat /\ size[X] \in LargeSizes
  BY BaseFacts, AtDepth DEF Trie, IsBases
<1>2. PICK kids : kids = Large!WithoutLeaf(X)
  OBVIOUS
<1>3. /\ R # Null /\ root' = IF root[Index(X)] = X THEN [root EXCEPT ![Index(X)] = R] ELSE root
      /\ child' = Large!AdoptChildren(X, R, Large!Relink(X, R, kids))
      /\ parent' = [y \in Chunks |-> IF y = R THEN parent[X]
                                     ELSE IF y = X THEN Null
                                     ELSE IF y \in {kids[X][0], kids[X][1]} THEN R
                                     ELSE parent[y]]
      /\ treemap' = treemap
  BY <1>2, IndexOfTree DEF Large!UnlinkReplaced
<1>4. /\ CanReplace(R, X, B, dp) /\ R \in Chunks /\ R # X
      /\ \A c \in 0 .. 1 : child[R][c] = Null
      /\ bk[X] # X \/ R \in B
      /\ kids \in Kids
      /\ \A y \in B, c \in 0 .. 1 : kids[y][c] = IF child[y][c] = R THEN Null ELSE child[y][c]
      /\ \A y \in Chunks \ B : kids[y] = child[y]
  <2>1. CASE bk[X] # X
    <3>1. kids = child
      BY <1>2, <2>1 DEF Large!WithoutLeaf
    <3>2. R \in Chunks /\ R \notin B /\ R # X /\ size[R] = size[X] /\ child[R] = Large!NoChild
      BY <2>1
    <3>3. Index(R) = Index(X) /\ Agree(R, X, dp[X])
      BY <3>2 DEF Index, Agree
    <3>4. CanReplace(R, X, B, dp)
      BY <1>1, <3>2, <3>3 DEF CanReplace
    <3>5. \A y \in B, c \in 0 .. 1 : child[y][c] # R
      BY <1>3, <3>2 DEF Trie, ChildrenOK
    <3>6. child \in Kids
      BY <1>1 DEF Kids, TrieTypes
    <3>7. QED
      BY <2>1, <3>1, <3>2, <3>4, <3>5, <3>6, NoChildIs
  <2>2. CASE bk[X] = X
    <3>1. R = Large!ReplacementLeaf(X)
      BY <2>2 DEF Large!Replacement
    <3>2. R \in B /\ R # X /\ CanReplace(R, X, B, dp)
      BY <1>3, <3>1, ReplacementIs
    <3>3. dp[X] < dp[R] /\ R \in Chunks /\ \A c \in 0 .. 1 : child[R][c] = Null
      BY <3>2, <1>1 DEF CanReplace
    <3>4. /\ kids \in Kids
          /\ \A y \in B, c \in 0 .. 1 : kids[y][c] = IF child[y][c] = R THEN Null ELSE child[y][c]
          /\ \A y \in Chunks \ B : kids[y] = child[y]
      BY <1>2, <2>2, <3>1, <3>2, <3>3, WithoutLeafIs
    <3>5. QED
      BY <3>2, <3>3, <3>4
  <2>3. QED
    BY <2>1, <2>2
<1>5. PICK K : K = Large!Relink(X, R, kids)
  OBVIOUS
<1>6. /\ K \in Kids
      /\ \A y \in B, c \in 0 .. 1 : K[y][c] = IF kids[y][c] = X THEN R ELSE kids[y][c]
      /\ \A y \in Chunks \ B : K[y] = kids[y]
  <2>1. \A y \in B, c \in 0 .. 1 : kids[y][c] = X <=> child[y][c] = X
    BY <1>1, <1>4
  <2>2. R \in MaybeChunk
    BY <1>4 DEF MaybeChunk
  <2>3. QED
    BY <1>4, <1>5, <2>1, <2>2, RelinkIs
<1>7. \A c \in 0 .. 1 : K[R][c] = Null
  <2>1. CASE R \in B
    BY <1>1, <1>4, <1>6, <2>1
  <2>2. CASE R \notin B
    BY <1>4, <1>6, <2>2
  <2>3. QED
    BY <2>1, <2>2
<1>8. \A c \in 0 .. 1 : child[X][c] # X
  <2>1. ASSUME NEW c \in 0 .. 1, child[X][c] = X
        PROVE  FALSE
    BY <1>1, <2>1, ChildFacts
  <2>2. QED
    BY <2>1
<1>9. \A c \in 0 .. 1 : K[X][c] = kids[X][c] /\ kids[X][c] = IF child[X][c] = R THEN Null ELSE child[X][c]
  BY <1>1, <1>4, <1>6, <1>8
<1>10. child' = [K EXCEPT ![R] = [c \in 0 .. 1 |-> IF K[X][c] # Null THEN K[X][c] ELSE K[R][c]],
                          ![X] = Large!NoChild]
  BY <1>3, <1>5 DEF Large!AdoptChildren
<1>11. /\ child' \in Kids
       /\ \A c \in 0 .. 1 : child'[R][c] = IF child[X][c] = R THEN Null ELSE child[X][c]
       /\ \A y \in Chunks : y # R /\ y # X => child'[y] = K[y]
  <2>1. PICK new : new = [c \in 0 .. 1 |-> IF K[X][c] # Null THEN K[X][c] ELSE K[R][c]]
    OBVIOUS
  <2>2. K[X] \in [0 .. 1 -> MaybeChunk] /\ K[R] \in [0 .. 1 -> MaybeChunk]
    BY <1>1, <1>4, <1>6 DEF Kids
  <2>3. new \in [0 .. 1 -> MaybeChunk] /\ \A c \in 0 .. 1 : new[c] = K[X][c]
    BY <1>7, <2>1, <2>2
  <2>4. child' = [K EXCEPT ![R] = new, ![X] = Large!NoChild]
    BY <1>10, <2>1
  <2>5. /\ child' \in Kids /\ child'[R] = new
        /\ \A y \in Chunks : y # R /\ y # X => child'[y] = K[y]
    BY <1>1, <1>4, <1>6, <2>3, <2>4, NoChildIs DEF Kids
  <2>6. QED
    BY <1>9, <2>3, <2>5
<1>12. \A i \in Indices : root'[i] = IF root[i] = X THEN R ELSE root[i]
  BY <1>1, <1>3, RootIs DEF TrieTypes
<1>13. TrieTypes'
  <2>1. root' \in [Indices -> MaybeChunk]
    BY <1>1, <1>3, <1>4 DEF TrieTypes, MaybeChunk
  <2>2. parent' \in [Chunks -> MaybeChunk \cup {Large!treebin_at(i) : i \in Indices}]
    BY <1>1, <1>3, <1>4 DEF TrieTypes, MaybeChunk
  <2>3. size' \in [Chunks -> AllSizes \cup {0}]
    BY <1>1 DEF TrieTypes
  <2>4. treemap' = {i \in Indices : root'[i] # Null}
    BY <1>1, <1>3, <1>12 DEF TrieTypes
  <2>5. QED
    BY <1>11, <2>1, <2>2, <2>3, <2>4 DEF TrieTypes, Kids
<1>14. \A y \in B \ {X, R} : y \in {kids[X][0], kids[X][1]} <=> parent[y] = X
  <2> SUFFICES ASSUME NEW y \in B \ {X, R}
               PROVE  y \in {kids[X][0], kids[X][1]} <=> parent[y] = X
    OBVIOUS
  <2>1. y # Null /\ (parent[y] = X <=> \E c \in 0 .. 1 : child[X][c] = y)
    BY BaseFacts, ChildrenOf DEF Trie
  <2>2. y \in {kids[X][0], kids[X][1]} <=> \E c \in 0 .. 1 : kids[X][c] = y
    <3>1. \A c \in 0 .. 1 : c = 0 \/ c = 1
      OBVIOUS
    <3>2. QED
      BY <3>1
  <2>3. \A c \in 0 .. 1 : kids[X][c] = y <=> child[X][c] = y
    BY <1>9, <2>1
  <2>4. QED
    BY <2>1, <2>2, <2>3
<1>15. MovesUp(R, X, B)
  <2>1. \A y \in B \ {X, R}, c \in 0 .. 1 :
          child'[y][c] = IF child[y][c] = X THEN R ELSE IF child[y][c] = R THEN Null ELSE child[y][c]
    BY <1>1, <1>4, <1>6, <1>11
  <2>2. \A y \in B \ {X, R} : parent'[y] = IF parent[y] = X THEN R ELSE parent[y]
    BY <1>1, <1>3, <1>14
  <2>3. parent'[R] = parent[X]
    BY <1>3, <1>4
  <2>4. \A y \in Chunks \ {X} : size'[y] = size[y]
    BY <1>1 DEF TrieTypes
  <2>5. QED
    BY <1>11, <1>12, <2>1, <2>2, <2>3, <2>4 DEF MovesUp
<1>16. \E dp2 : Trie((B \ {X}) \cup {R}, dp2)'
  BY <1>4, <1>13, <1>15, MovesUpKeepsTrie
<1>17. OnlyNodes(B \cup {R}, X)
  <2> SUFFICES ASSUME NEW y \in Chunks \ (B \cup {R, X})
               PROVE  child'[y] = child[y] /\ parent'[y] = parent[y]
    BY DEF OnlyNodes
  <2>1. child'[y] = child[y]
    BY <1>4, <1>6, <1>11
  <2>2. \A c \in 0 .. 1 : kids[X][c] # y
    <3>1. \A c \in 0 .. 1 : child[X][c] \in B \cup {Null}
      BY DEF Trie, ChildrenOK
    <3>2. y # Null
      BY BinsAssumption
    <3>3. QED
      BY <1>9, <3>1, <3>2
  <2>3. y \notin {kids[X][0], kids[X][1]}
    BY <2>2
  <2>4. QED
    BY <1>3, <2>1, <2>3
<1>18. QED
  BY <1>4, <1>16, <1>17

-----------------------------------------------------------------------------
(* Rings: b leads from each node of c to the next, f back.                 *)

IsRing(c, m, n, f, b) ==
  \A i \in m .. n : /\ b[c[i]] = c[IF i = n THEN m ELSE i + 1]
                    /\ f[c[i]] = c[IF i = m THEN n ELSE i - 1]

(* c goes through the nodes of a ring from m to n, and through each once.  *)
Circle(c, m, n, N, V, f, b) ==
  /\ m \in Nat /\ n \in Nat /\ m <= n
  /\ c \in [m .. n -> N]
  /\ \A i, j \in m .. n : c[i] = c[j] => i = j
  /\ f \in [N -> V] /\ b \in [N -> V]
  /\ IsRing(c, m, n, f, b)

(* X joins a ring behind its last node, which is before the first one. *)
Joining(X, c, m, n, N, f, b, f2, b2) ==
  /\ X \in N /\ \A i \in m .. n : c[i] # X
  /\ f2 = [f EXCEPT ![c[m]] = X, ![X] = f[c[m]]]
  /\ b2 = [b EXCEPT ![f[c[m]]] = X, ![X] = c[m]]

(* A ring that X joins is a ring, and other nodes keep their links. *)
LEMMA RingGrows ==
  ASSUME NEW N, NEW m, NEW n, NEW c, NEW V, NEW f, NEW b, NEW f2, NEW b2, NEW X,
         Circle(c, m, n, N, V, f, b), Joining(X, c, m, n, N, f, b, f2, b2),
         NEW c2, c2 = [i \in m .. n + 1 |-> IF i = n + 1 THEN X ELSE c[i]]
  PROVE  /\ IsRing(c2, m, n + 1, f2, b2)
         /\ \A y \in N : y # X /\ (\A i \in m .. n : c[i] # y) => f2[y] = f[y] /\ b2[y] = b[y]
<1> USE DEF Circle, Joining
<1>1. m \in m .. n /\ n \in m .. n /\ f[c[m]] = c[n] /\ c[m] \in N /\ c[n] \in N
      /\ c[m] # X /\ c[n] # X
  BY DEF IsRing
<1>2. /\ f2[X] = c[n] /\ b2[X] = c[m] /\ f2[c[m]] = X /\ b2[c[n]] = X
      /\ \A y \in N : y # X /\ y # c[m] => f2[y] = f[y]
      /\ \A y \in N : y # X /\ y # c[n] => b2[y] = b[y]
  BY <1>1
<1>3. ASSUME NEW i \in m .. n + 1
      PROVE  /\ b2[c2[i]] = c2[IF i = n + 1 THEN m ELSE i + 1]
             /\ f2[c2[i]] = c2[IF i = m THEN n + 1 ELSE i - 1]
  <2>1. c2[n + 1] = X /\ \A j \in m .. n : c2[j] = c[j] /\ c[j] \in N
    BY <1>1
  <2>2. CASE i = n + 1
    BY <1>1, <1>2, <2>1, <2>2
  <2>3. CASE i = m
    <3>1. f2[c2[i]] = c2[n + 1]
      BY <1>1, <1>2, <2>1, <2>3
    <3>2. b2[c2[i]] = c2[i + 1]
      <4>1. CASE m = n
        BY <1>1, <1>2, <2>1, <2>3, <4>1
      <4>2. CASE m # n
        <5>1. m + 1 \in m .. n /\ c[m] # c[n] /\ b[c[m]] = c[m + 1]
          BY <1>1, <4>2 DEF IsRing
        <5>2. QED
          BY <1>1, <1>2, <2>1, <2>3, <5>1
      <4>3. QED
        BY <4>1, <4>2
    <3>3. QED
      BY <2>3, <3>1, <3>2
  <2>4. CASE i # n + 1 /\ i # m
    <3>1. i \in m .. n /\ i - 1 \in m .. n /\ c[i] # c[m] /\ c[i] # X
      BY <1>1, <2>4
    <3>2. f2[c2[i]] = c2[i - 1]
      <4>1. f[c[i]] = c[i - 1]
        BY <2>4, <3>1 DEF IsRing
      <4>2. QED
        BY <1>2, <2>1, <3>1, <4>1
    <3>3. b2[c2[i]] = c2[i + 1]
      <4>1. CASE i = n
        BY <1>2, <2>1, <3>1, <4>1
      <4>2. CASE i # n
        <5>1. i + 1 \in m .. n /\ c[i] # c[n] /\ b[c[i]] = c[i + 1]
          BY <1>1, <3>1, <4>2 DEF IsRing
        <5>2. QED
          BY <1>2, <2>1, <3>1, <5>1
      <4>3. QED
        BY <4>1, <4>2
    <3>4. QED
      BY <2>4, <3>2, <3>3
  <2>5. QED
    BY <2>2, <2>3, <2>4
<1>4. QED
  BY <1>1, <1>2, <1>3 DEF IsRing

(* The k-th node leaves a ring of more than one. *)
Leaving(k, c, m, n, v, f, b, f2, b2) ==
  /\ m < n /\ k \in m .. n
  /\ f2 = [f EXCEPT ![b[c[k]]] = f[c[k]], ![c[k]] = v]
  /\ b2 = [b EXCEPT ![f[c[k]]] = b[c[k]], ![c[k]] = v]

(* A ring that a node leaves is a ring, and other nodes keep their links. *)
LEMMA RingShrinks ==
  ASSUME NEW N, NEW m, NEW n, NEW c, NEW V, NEW f, NEW b, NEW f2, NEW b2, NEW k, NEW v,
         Circle(c, m, n, N, V, f, b), Leaving(k, c, m, n, v, f, b, f2, b2),
         NEW c2, c2 = [i \in m .. n - 1 |-> IF i < k THEN c[i] ELSE c[i + 1]]
  PROVE  /\ IsRing(c2, m, n - 1, f2, b2)
         /\ b[c[k]] # c[k]
         /\ \A y \in N : (\A i \in m .. n : c[i] # y) => f2[y] = f[y] /\ b2[y] = b[y]
<1> USE DEF Circle, Leaving
<1> DEFINE After(i)  == IF i = n THEN m ELSE i + 1
           Before(i) == IF i = m THEN n ELSE i - 1
<1>1. \A i \in m .. n : /\ After(i) \in m .. n /\ Before(i) \in m .. n
                        /\ After(i) # i /\ Before(i) # i
                        /\ After(Before(i)) = i /\ Before(After(i)) = i
                        /\ b[c[i]] = c[After(i)] /\ f[c[i]] = c[Before(i)] /\ c[i] \in N
  BY DEF IsRing
<1>2. PICK B, F \in m .. n : B = After(k) /\ F = Before(k)
  BY <1>1
<1>3. B # k /\ F # k /\ b[c[k]] = c[B] /\ f[c[k]] = c[F]
  BY <1>1, <1>2
<1>4. ASSUME NEW i \in m .. n, i # k
      PROVE  /\ f2[c[i]] = IF i = B THEN c[F] ELSE c[Before(i)]
             /\ b2[c[i]] = IF i = F THEN c[B] ELSE c[After(i)]
  <2>1. c[i] # c[k] /\ (c[i] = c[B] => i = B) /\ (c[i] = c[F] => i = F)
    BY <1>4
  <2>2. c[i] \in N /\ f[c[i]] = c[Before(i)] /\ b[c[i]] = c[After(i)]
    BY <1>1
  <2>3. f2 = [f EXCEPT ![c[B]] = c[F], ![c[k]] = v] /\ b2 = [b EXCEPT ![c[F]] = c[B], ![c[k]] = v]
    BY <1>3
  <2> HIDE DEF After, Before
  <2>4. QED
    BY <2>1, <2>2, <2>3
<1>5. ASSUME NEW i \in m .. n - 1
      PROVE  /\ b2[c2[i]] = c2[IF i = n - 1 THEN m ELSE i + 1]
             /\ f2[c2[i]] = c2[IF i = m THEN n - 1 ELSE i - 1]
  <2>1. PICK j \in m .. n : j = (IF i < k THEN i ELSE i + 1) /\ j # k
    OBVIOUS
  <2>2. c2[i] = c[j]
    BY <2>1
  <2>3. \A d \in m .. n - 1 : c2[d] = c[IF d < k THEN d ELSE d + 1]
    OBVIOUS
  <2>4. b2[c[j]] = c2[IF i = n - 1 THEN m ELSE i + 1]
    <3>1. PICK d \in m .. n - 1 : d = IF i = n - 1 THEN m ELSE i + 1
      OBVIOUS
    <3>2. (IF d < k THEN d ELSE d + 1) = IF j = F THEN B ELSE After(j)
      BY <1>2, <2>1, <3>1
    <3>3. b2[c[j]] = c[IF j = F THEN B ELSE After(j)]
      BY <1>4, <2>1
    <3>4. QED
      BY <2>3, <3>1, <3>2, <3>3
  <2>5. f2[c[j]] = c2[IF i = m THEN n - 1 ELSE i - 1]
    <3>1. PICK d \in m .. n - 1 : d = IF i = m THEN n - 1 ELSE i - 1
      OBVIOUS
    <3>2. (IF d < k THEN d ELSE d + 1) = IF j = B THEN F ELSE Before(j)
      BY <1>2, <2>1, <3>1
    <3>3. f2[c[j]] = c[IF j = B THEN F ELSE Before(j)]
      BY <1>4, <2>1
    <3>4. QED
      BY <2>3, <3>1, <3>2, <3>3
  <2>6. QED
    BY <2>2, <2>4, <2>5
<1>6. \A y \in N : (\A i \in m .. n : c[i] # y) => f2[y] = f[y] /\ b2[y] = b[y]
  BY <1>3
<1>7. b[c[k]] # c[k]
  BY <1>3
<1>8. QED
  BY <1>5, <1>6, <1>7 DEF IsRing

-----------------------------------------------------------------------------
(* The lists of the chunks of each size.                                   *)

(* The bin of a small size, the index of the first node of a ring, and     *)
(* the ring of a list q.                                                   *)
Bin(S)       == Small!smallbin_at(small_index(S))
First(S)     == IF is_small(S) THEN 0 ELSE 1
NodeAt(q, S) == [i \in First(S) .. Len(q) |-> IF i = 0 THEN Bin(S) ELSE q[i]]
Nodes        == Chunks \cup {Bin(S) : S \in SmallSizes}

(* L holds each chunk that is in a bin at one place, that of its size.     *)
Lists(L) ==
  /\ L \in [DOMAIN L -> Seq(Chunks)]
  /\ DOMAIN L \subseteq AllSizes
  /\ \A S \in DOMAIN L :
       /\ Len(L[S]) # 0
       /\ \A i \in 1 .. Len(L[S]) : size[L[S][i]] = S
       /\ \A i, j \in 1 .. Len(L[S]) : L[S][i] = L[S][j] => i = j
  /\ \A p \in Chunks : size[p] # 0 => size[p] \in DOMAIN L /\ \E i \in 1 .. Len(L[size[p]]) : L[size[p]][i] = p

(* Each list is linked to a ring. *)
RingsOK(L) == \A S \in DOMAIN L : IsRing(NodeAt(L[S], S), First(S), Len(L[S]), fd, bk)

(* The links of the lists are as they should be. *)
Links(L) ==
  /\ fd \in [Nodes -> Nodes \cup {Null}]
  /\ bk \in [Nodes -> Nodes \cup {Null}]
  /\ RingsOK(L)

(* The lists with P at the end of the list of S. *)
Added(L, P, S) ==
  [U \in DOMAIN L \cup {S} |->
     IF U # S THEN L[U] ELSE IF S \in DOMAIN L THEN Append(L[S], P) ELSE <<P>>]

(* q without its k-th element. *)
Without(q, k) == [i \in 1 .. Len(q) - 1 |-> IF i < k THEN q[i] ELSE q[i + 1]]

(* The lists without the k-th chunk of the list of S. *)
Removed(L, S, k) ==
  IF Len(L[S]) = 1 THEN [U \in DOMAIN L \ {S} |-> L[U]]
                   ELSE [L EXCEPT ![S] = Without(L[S], k)]

(* The instances share the arithmetic of small sizes. *)
LEMMA SmallIndex ==
  /\ \A s : Small!small_index(s) = small_index(s) /\ Small!is_small(s) = is_small(s)
  /\ \A s : Large!is_small(s) = is_small(s)
BY DEF Small!small_index, Small!is_small, small_index, is_small, Large!is_small, Large!small_index,
       Small!SMALLBIN_WIDTH, Large!SMALLBIN_WIDTH, SMALLBIN_WIDTH, Small!NSMALLBINS, Large!NSMALLBINS, NSMALLBINS

(* What is known of the size of a chunk. *)
LEMMA SizeFacts ==
  ASSUME NEW S \in AllSizes
  PROVE  /\ S \in Nat /\ S > 0 /\ S < WordSize /\ S % 8 = 0 /\ IsChunkSize(S)
         /\ is_small(S) <=> S \in SmallSizes
         /\ ~is_small(S) <=> S \in LargeSizes
<1>1. IsChunkSize(S)
  BY BinsAssumption DEF AllSizes
<1>2. QED
  BY <1>1 DEF IsChunkSize, SmallSizes, LargeSizes, MALLOC_ALIGNMENT

(* A small size is found from its index, and has a bin that is no chunk. *)
LEMMA SmallSizeFacts ==
  ASSUME NEW S \in SmallSizes
  PROVE  /\ S \in AllSizes /\ is_small(S)
         /\ small_index(S) \in 0 .. 31 /\ S = 8 * small_index(S)
         /\ Bin(S) \in Nodes /\ Bin(S) \notin Chunks /\ Bin(S) # Null
<1>1. S \in AllSizes /\ is_small(S)
  BY DEF SmallSizes
<1>2. S \in Nat /\ S % 8 = 0
  BY <1>1, SizeFacts
<1>3. small_index(S) \in 0 .. 31 /\ S = 8 * small_index(S)
  <2>1. PICK q : q = S \div 8
    OBVIOUS
  <2>2. S = (q * 8) + (S % 8) /\ q \in Nat
    BY <1>2, <2>1, QuotientRemainder
  <2>3. small_index(S) = q /\ q < 32
    BY <1>1, <2>1 DEF is_small, small_index, SMALLBIN_WIDTH, NSMALLBINS
  <2>4. QED
    BY <1>2, <2>2, <2>3
<1>4. Bin(S) = <<"smallbin", small_index(S)>>
  BY DEF Bin, Small!smallbin_at
<1>5. <<"smallbin", small_index(S)>> \notin Chunks \cup {Null}
  <2>1. \A i \in 0 .. 31 : <<"smallbin", i>> \notin Chunks \cup {Null}
    <3>1. NSMALLBINS - 1 = 31
      BY DEF NSMALLBINS
    <3>2. \A i \in 0 .. NSMALLBINS - 1 : <<"smallbin", i>> \notin Chunks \cup {Null}
      BY BinsAssumption, Zenon
    <3>3. QED
      BY <3>1, <3>2, Zenon
  <2>2. QED
    BY <1>3, <2>1, Zenon
<1>6. QED
  BY <1>1, <1>3, <1>4, <1>5 DEF Nodes

(* Each small size has a bin of its own. *)
LEMMA BinsDiffer ==
  ASSUME NEW S \in SmallSizes, NEW U \in SmallSizes, Bin(S) = Bin(U)
  PROVE  S = U
<1>1. <<"smallbin", small_index(S)>> = <<"smallbin", small_index(U)>>
  BY DEF Bin, Small!smallbin_at
<1>2. <<"smallbin", small_index(S)>>[2] = <<"smallbin", small_index(U)>>[2]
  BY <1>1
<1>3. small_index(S) = small_index(U)
  BY <1>2
<1>4. QED
  BY <1>3, SmallSizeFacts

(* What is known of a list: it is not empty, and its elements are chunks. *)
LEMMA ListFacts ==
  ASSUME NEW L, Lists(L), NEW S \in DOMAIN L
  PROVE  /\ L[S] \in Seq(Chunks) /\ Len(L[S]) \in Nat /\ Len(L[S]) >= 1
         /\ S \in AllSizes
         /\ \A i \in 1 .. Len(L[S]) : L[S][i] \in Chunks /\ L[S][i] # Null
<1>1. L[S] \in Seq(Chunks)
  BY DEF Lists
<1>2. Len(L[S]) \in Nat /\ \A i \in 1 .. Len(L[S]) : L[S][i] \in Chunks
  BY <1>1, LenProperties, ElementOfSeq
<1>3. QED
  BY <1>1, <1>2, BinsAssumption DEF Lists

(* A ring has the chunks of its list, and for a small size the bin first. *)
LEMMA NodeFacts ==
  ASSUME NEW L, Lists(L), NEW S \in DOMAIN L, NEW c, c = NodeAt(L[S], S)
  PROVE  /\ First(S) \in 0 .. 1 /\ First(S) <= Len(L[S])
         /\ c \in [First(S) .. Len(L[S]) -> Nodes]
         /\ \A i, j \in First(S) .. Len(L[S]) : c[i] = c[j] => i = j
         /\ \A i \in 1 .. Len(L[S]) : c[i] = L[S][i] /\ i \in First(S) .. Len(L[S])
<1>1. /\ L[S] \in Seq(Chunks) /\ Len(L[S]) \in Nat /\ Len(L[S]) >= 1
      /\ \A i \in 1 .. Len(L[S]) : L[S][i] \in Chunks
      /\ S \in AllSizes
  BY ListFacts
<1>2. First(S) \in 0 .. 1 /\ First(S) <= Len(L[S])
  BY <1>1 DEF First
<1>3. \A i \in First(S) .. Len(L[S]) : i = 0 => Bin(S) \in Nodes /\ Bin(S) \notin Chunks
  BY <1>1, SizeFacts, SmallSizeFacts DEF First
<1>4. \A i \in First(S) .. Len(L[S]) : i # 0 => i \in 1 .. Len(L[S])
  BY <1>1, <1>2
<1>5. \A i \in First(S) .. Len(L[S]) : c[i] = IF i = 0 THEN Bin(S) ELSE L[S][i]
  BY DEF NodeAt
<1>6. c \in [First(S) .. Len(L[S]) -> Nodes]
  <2>1. \A i \in First(S) .. Len(L[S]) : c[i] \in Nodes
    BY <1>1, <1>3, <1>4, <1>5 DEF Nodes
  <2>2. c = [i \in First(S) .. Len(L[S]) |-> c[i]]
    BY DEF NodeAt
  <2>3. QED
    BY <2>1, <2>2
<1>7. ASSUME NEW i \in First(S) .. Len(L[S]), NEW j \in First(S) .. Len(L[S]), c[i] = c[j]
      PROVE  i = j
  <2>1. CASE i # 0 /\ j # 0
    <3>1. i \in 1 .. Len(L[S]) /\ j \in 1 .. Len(L[S]) /\ L[S][i] = L[S][j]
      BY <1>4, <1>5, <1>7, <2>1
    <3>2. QED
      BY <3>1 DEF Lists
  <2>2. CASE i = 0 /\ j # 0
    BY <1>1, <1>3, <1>4, <1>5, <1>7, <2>2
  <2>3. CASE i # 0 /\ j = 0
    BY <1>1, <1>3, <1>4, <1>5, <1>7, <2>3
  <2>4. QED
    BY <2>1, <2>2, <2>3
<1>8. QED
  BY <1>2, <1>4, <1>5, <1>6, <1>7, <1>1

(* No node is in two rings. *)
LEMMA NodesDiffer ==
  ASSUME NEW L, Lists(L), NEW S \in DOMAIN L, NEW U \in DOMAIN L, S # U,
         NEW i \in First(S) .. Len(L[S]), NEW j \in First(U) .. Len(L[U])
  PROVE  NodeAt(L[S], S)[i] # NodeAt(L[U], U)[j]
<1>1. /\ NodeAt(L[S], S)[i] = (IF i = 0 THEN Bin(S) ELSE L[S][i])
      /\ NodeAt(L[U], U)[j] = (IF j = 0 THEN Bin(U) ELSE L[U][j])
  BY DEF NodeAt
<1>2. /\ First(S) \in 0 .. 1 /\ First(U) \in 0 .. 1 /\ S \in AllSizes /\ U \in AllSizes
      /\ Len(L[S]) \in Nat /\ Len(L[U]) \in Nat
  BY NodeFacts, ListFacts
<1>3. i = 0 => S \in SmallSizes
  BY <1>2, SizeFacts DEF First
<1>4. j = 0 => U \in SmallSizes
  BY <1>2, SizeFacts DEF First
<1>5. i # 0 => L[S][i] \in Chunks /\ size[L[S][i]] = S
  <2>1. i # 0 => i \in 1 .. Len(L[S])
    BY <1>2
  <2>2. QED
    BY <2>1, ListFacts DEF Lists
<1>6. j # 0 => L[U][j] \in Chunks /\ size[L[U][j]] = U
  <2>1. j # 0 => j \in 1 .. Len(L[U])
    BY <1>2
  <2>2. QED
    BY <2>1, ListFacts DEF Lists
<1>7. CASE i = 0 /\ j = 0
  BY <1>1, <1>3, <1>4, <1>7, BinsDiffer
<1>8. CASE i = 0 /\ j # 0
  BY <1>1, <1>3, <1>6, <1>8, SmallSizeFacts
<1>9. CASE i # 0 /\ j = 0
  BY <1>1, <1>4, <1>5, <1>9, SmallSizeFacts
<1>10. CASE i # 0 /\ j # 0
  BY <1>1, <1>5, <1>6, <1>10
<1>11. QED
  BY <1>7, <1>8, <1>9, <1>10

(* A chunk of no bin may be added to the list of its new size. *)
LEMMA AddedKeepsLists ==
  ASSUME NEW L, Lists(L), NEW P \in Chunks, NEW S \in AllSizes, size[P] = 0,
         size \in [Chunks -> AllSizes \cup {0}], size' = [size EXCEPT ![P] = S],
         NEW L2, L2 = Added(L, P, S)
  PROVE  Lists(L2)'
<1>1. /\ S # 0 /\ size'[P] = S /\ \A p \in Chunks : p # P => size'[p] = size[p]
  BY SizeFacts
<1>2. /\ DOMAIN L2 = DOMAIN L \cup {S}
      /\ \A U \in DOMAIN L2 : L2[U] = IF U # S THEN L[U] ELSE IF S \in DOMAIN L THEN Append(L[S], P) ELSE <<P>>
      /\ L2 = [U \in DOMAIN L2 |-> L2[U]]
  BY DEF Added
<1>3. PICK q : q = L2[S] /\ q = IF S \in DOMAIN L THEN Append(L[S], P) ELSE <<P>>
  BY <1>2
<1>4. /\ q \in Seq(Chunks) /\ Len(q) \in Nat /\ Len(q) >= 1
      /\ S \in DOMAIN L => Len(q) = Len(L[S]) + 1 /\ \A i \in 1 .. Len(L[S]) : q[i] = L[S][i]
      /\ S \notin DOMAIN L => Len(q) = 1
      /\ q[Len(q)] = P
  <2>1. CASE S \in DOMAIN L
    BY <1>3, <2>1, ListFacts, AppendProperties
  <2>2. CASE S \notin DOMAIN L
    BY <1>3, <2>2
  <2>3. QED
    BY <2>1, <2>2
<1>a. S \in DOMAIN L2 /\ L2[S] = q /\ \A U \in DOMAIN L2 : U # S => U \in DOMAIN L /\ L2[U] = L[U]
  BY <1>2, <1>3
<1>5. \A U \in DOMAIN L : \A i \in 1 .. Len(L[U]) : L[U][i] \in Chunks /\ size[L[U][i]] = U /\ L[U][i] # P
  <2> SUFFICES ASSUME NEW U \in DOMAIN L, NEW i \in 1 .. Len(L[U])
               PROVE  L[U][i] \in Chunks /\ size[L[U][i]] = U /\ L[U][i] # P
    OBVIOUS
  <2>1. L[U][i] \in Chunks /\ size[L[U][i]] = U /\ U # 0
    BY ListFacts, SizeFacts DEF Lists
  <2>2. QED
    BY <2>1
<1>6. ASSUME NEW i \in 1 .. Len(q)
      PROVE  (i = Len(q) /\ q[i] = P) \/ (S \in DOMAIN L /\ i \in 1 .. Len(L[S]) /\ q[i] = L[S][i])
  BY <1>4, ListFacts
<1>7. L2 \in [DOMAIN L2 -> Seq(Chunks)]
  <2>1. \A U \in DOMAIN L2 : L2[U] \in Seq(Chunks)
    BY <1>a, <1>4, ListFacts
  <2>2. QED
    BY <1>2, <2>1
<1>8. ASSUME NEW U \in DOMAIN L2
      PROVE  /\ Len(L2[U]) # 0
             /\ \A i \in 1 .. Len(L2[U]) : size'[L2[U][i]] = U
             /\ \A i, j \in 1 .. Len(L2[U]) : L2[U][i] = L2[U][j] => i = j
  <2>1. CASE U # S
    <3>1. U \in DOMAIN L /\ L2[U] = L[U]
      BY <1>2, <2>1
    <3>2. QED
      BY <1>1, <1>5, <3>1 DEF Lists
  <2>2. CASE U = S
    <3>1. \A i \in 1 .. Len(q) : size'[q[i]] = S
      BY <1>1, <1>5, <1>6
    <3>2. ASSUME NEW i \in 1 .. Len(q), NEW j \in 1 .. Len(q), q[i] = q[j]
          PROVE  i = j
      BY <1>5, <1>6, <3>2 DEF Lists
    <3>3. QED
      BY <1>a, <1>4, <2>2, <3>1, <3>2
  <2>3. QED
    BY <2>1, <2>2
<1>9. ASSUME NEW p \in Chunks, size'[p] # 0
      PROVE  size'[p] \in DOMAIN L2 /\ \E i \in 1 .. Len(L2[size'[p]]) : L2[size'[p]][i] = p
  <2>1. CASE p = P
    <3>1. Len(q) \in 1 .. Len(q) /\ size'[p] = S
      BY <1>1, <1>4, <2>1
    <3>2. QED
      BY <1>a, <1>4, <2>1, <3>1
  <2>2. CASE p # P
    <3>a. PICK U \in DOMAIN L : size[p] = U /\ size'[p] = U
      BY <1>1, <1>9, <2>2 DEF Lists
    <3>1. PICK i \in 1 .. Len(L[U]) : size[p] = U /\ size'[p] = U /\ L[U][i] = p
      BY <3>a, SizeFacts DEF Lists
    <3>2. CASE U # S
      BY <1>2, <3>1, <3>2
    <3>3. CASE U = S
      <4>1. i \in 1 .. Len(q) /\ q[i] = p
        BY <1>4, <3>1, <3>3, ListFacts
      <4>2. QED
        BY <1>a, <3>1, <3>3, <4>1
    <3>4. QED
      BY <3>2, <3>3
  <2>3. QED
    BY <2>1, <2>2
<1>10. DOMAIN L2 \subseteq AllSizes
  BY <1>2 DEF Lists
<1>11. QED
  BY <1>7, <1>8, <1>9, <1>10 DEF Lists

(* q is the list p without its k-th element, and not empty. *)
Shortened(q, p, k) ==
  /\ q \in Seq(Chunks) /\ Len(q) = Len(p) - 1 /\ Len(q) \in Nat /\ Len(q) >= 1
  /\ \A i \in 1 .. Len(q) : q[i] = IF i < k THEN p[i] ELSE p[i + 1]

(* The elements of a list that has lost one. *)
LEMMA WithoutIs ==
  ASSUME NEW L, Lists(L), NEW S \in DOMAIN L, Len(L[S]) # 1, NEW k \in 1 .. Len(L[S]),
         NEW q, q = Without(L[S], k)
  PROVE  Shortened(q, L[S], k)
<1>a. PICK n \in Nat : n = Len(L[S]) /\ n >= 1 /\ n # 1
  BY ListFacts
<1>1. /\ Len(L[S]) \in Nat /\ Len(L[S]) - 1 \in Nat /\ Len(L[S]) - 1 >= 1
      /\ \A i \in 1 .. Len(L[S]) : L[S][i] \in Chunks
  BY <1>a, ListFacts
<1>2. \A i \in 1 .. Len(L[S]) - 1 : i \in 1 .. Len(L[S]) /\ i + 1 \in 1 .. Len(L[S])
  BY <1>1
<1>3. q \in [1 .. Len(L[S]) - 1 -> Chunks]
  BY <1>1, <1>2 DEF Without
<1>4. q \in Seq(Chunks) /\ Len(q) = Len(L[S]) - 1
  BY <1>1, <1>3
<1>5. QED
  <2>1. \A i \in 1 .. Len(q) : q[i] = IF i < k THEN L[S][i] ELSE L[S][i + 1]
    BY <1>1, <1>4 DEF Without
  <2>2. QED
    BY <1>1, <1>4, <2>1 DEF Shortened

(* A chunk may be removed from its list, and with the last the list goes. *)
LEMMA RemovedKeepsLists ==
  ASSUME NEW L, Lists(L), NEW S \in DOMAIN L, NEW k \in 1 .. Len(L[S]), NEW P, P = L[S][k],
         size \in [Chunks -> AllSizes \cup {0}], size' = [size EXCEPT ![P] = 0],
         NEW L2, L2 = Removed(L, S, k)
  PROVE  Lists(L2)'
<1>1. /\ P \in Chunks /\ size[P] = S /\ S # 0
      /\ size'[P] = 0 /\ \A p \in Chunks : p # P => size'[p] = size[p]
  BY ListFacts, SizeFacts DEF Lists
<1>2. \A U \in DOMAIN L : U # S => \A i \in 1 .. Len(L[U]) : size'[L[U][i]] = U
  <2> SUFFICES ASSUME NEW U \in DOMAIN L, U # S, NEW i \in 1 .. Len(L[U])
               PROVE  size'[L[U][i]] = U
    OBVIOUS
  <2>1. L[U][i] \in Chunks /\ size[L[U][i]] = U
    BY ListFacts DEF Lists
  <2>2. QED
    BY <1>1, <2>1
<1>3. CASE Len(L[S]) = 1
  <2>1. L2 = [U \in DOMAIN L \ {S} |-> L[U]]
    BY <1>3 DEF Removed
  <2>2. DOMAIN L2 = DOMAIN L \ {S} /\ \A U \in DOMAIN L2 : L2[U] = L[U]
    BY <2>1
  <2>3. L2 \in [DOMAIN L2 -> Seq(Chunks)]
    BY <2>1, <2>2 DEF Lists
  <2>4. ASSUME NEW p \in Chunks, size'[p] # 0
        PROVE  size'[p] \in DOMAIN L2 /\ \E i \in 1 .. Len(L2[size'[p]]) : L2[size'[p]][i] = p
    <3>1. p # P /\ size'[p] = size[p]
      BY <1>1, <2>4
    <3>a. PICK U \in DOMAIN L : size[p] = U /\ U # 0
      BY <2>4, <3>1 DEF Lists
    <3>2. PICK i \in 1 .. Len(L[U]) : size[p] = U /\ L[U][i] = p
      BY <3>a DEF Lists
    <3>3. U # S
      BY <1>3, <3>1, <3>2
    <3>4. QED
      BY <2>2, <3>1, <3>2, <3>3
  <2>5. QED
    BY <1>2, <2>2, <2>3, <2>4 DEF Lists
<1>4. CASE Len(L[S]) # 1
  <2>1. PICK q : q = Without(L[S], k)
    OBVIOUS
  <2>2. /\ q \in Seq(Chunks) /\ Len(q) = Len(L[S]) - 1 /\ Len(q) \in Nat /\ Len(q) >= 1
        /\ \A i \in 1 .. Len(q) : q[i] = IF i < k THEN L[S][i] ELSE L[S][i + 1]
    <3>1. Shortened(q, L[S], k)
      BY <1>4, <2>1, WithoutIs, Zenon
    <3>2. QED
      BY <3>1 DEF Shortened
  <2>3. L2 = [L EXCEPT ![S] = q]
    BY <1>4, <2>1 DEF Removed
  <2>4. DOMAIN L2 = DOMAIN L /\ L2[S] = q /\ \A U \in DOMAIN L2 : U # S => L2[U] = L[U]
    BY <2>3
  <2>5. L2 \in [DOMAIN L2 -> Seq(Chunks)]
    BY <2>2, <2>3, <2>4 DEF Lists
  <2>6. ASSUME NEW i \in 1 .. Len(q)
        PROVE  \E j \in 1 .. Len(L[S]) : j = (IF i < k THEN i ELSE i + 1) /\ j # k /\ q[i] = L[S][j]
    <3>1. PICK n \in Nat : n = Len(L[S])
      BY ListFacts
    <3>2. PICK j \in 1 .. n : j = (IF i < k THEN i ELSE i + 1) /\ j # k
      BY <2>2, <3>1
    <3>3. q[i] = L[S][j]
      BY <2>2, <3>2
    <3>4. QED
      BY <3>1, <3>2, <3>3
  <2>7. ASSUME NEW i \in 1 .. Len(q)
        PROVE  size'[q[i]] = S
    <3>1. PICK j \in 1 .. Len(L[S]) : j # k /\ q[i] = L[S][j]
      BY <2>6
    <3>2. L[S][j] \in Chunks /\ size[L[S][j]] = S /\ L[S][j] # P
      BY <3>1, ListFacts DEF Lists
    <3>3. QED
      BY <1>1, <3>1, <3>2
  <2>8. ASSUME NEW i \in 1 .. Len(q), NEW j \in 1 .. Len(q), q[i] = q[j]
        PROVE  i = j
    <3>1. PICK a \in 1 .. Len(L[S]) : a = (IF i < k THEN i ELSE i + 1) /\ a # k /\ q[i] = L[S][a]
      BY <2>6
    <3>2. PICK b \in 1 .. Len(L[S]) : b = (IF j < k THEN j ELSE j + 1) /\ b # k /\ q[j] = L[S][b]
      BY <2>6
    <3>a. L[S][a] = L[S][b]
      BY <2>8, <3>1, <3>2
    <3>3. a = b
      BY <3>a DEF Lists
    <3>4. QED
      BY <3>1, <3>2, <3>3
  <2>9. ASSUME NEW p \in Chunks, size'[p] # 0
        PROVE  size'[p] \in DOMAIN L2 /\ \E i \in 1 .. Len(L2[size'[p]]) : L2[size'[p]][i] = p
    <3>1. p # P /\ size'[p] = size[p]
      BY <1>1, <2>9
    <3>a. PICK U \in DOMAIN L : size[p] = U /\ U # 0
      BY <2>9, <3>1 DEF Lists
    <3>2. PICK i \in 1 .. Len(L[U]) : size[p] = U /\ L[U][i] = p
      BY <3>a DEF Lists
    <3>3. CASE U # S
      BY <2>4, <3>1, <3>2, <3>3
    <3>4. CASE U = S
      <4>1. i # k
        BY <3>1, <3>2, <3>4
      <4>2. PICK j \in 1 .. Len(q) : j = IF i < k THEN i ELSE i - 1
        BY <2>2, <3>2, <3>4, <4>1, ListFacts
      <4>3. q[j] = p
        BY <2>2, <3>2, <3>4, <4>1, <4>2
      <4>4. QED
        BY <2>4, <3>1, <3>2, <3>4, <4>2, <4>3
    <3>5. QED
      BY <3>3, <3>4
  <2>10. ASSUME NEW U \in DOMAIN L2
         PROVE  /\ Len(L2[U]) # 0
                /\ \A i \in 1 .. Len(L2[U]) : size'[L2[U][i]] = U
                /\ \A i, j \in 1 .. Len(L2[U]) : L2[U][i] = L2[U][j] => i = j
    <3>1. CASE U # S
      BY <1>2, <2>4, <3>1 DEF Lists
    <3>2. CASE U = S
      BY <2>2, <2>4, <2>7, <2>8, <3>2
    <3>3. QED
      BY <3>1, <3>2
  <2>11. QED
    BY <2>4, <2>5, <2>9, <2>10 DEF Lists
<1>5. QED
  BY <1>3, <1>4

-----------------------------------------------------------------------------
(* The rings of the lists.                                                 *)

(* The node a new chunk joins. *)
Ends(S, q) == NodeAt(q, S)[First(S)]

(* NULL is not linked into a ring. *)
LEMMA NullIsNoNode == Null \notin Nodes
BY BinsAssumption, SmallSizeFacts DEF Nodes

(* A ring none of whose nodes changes its links remains a ring. *)
LEMMA OtherRings ==
  ASSUME NEW L, Lists(L), Links(L), NEW U \in DOMAIN L, NEW Y,
         \A i \in First(U) .. Len(L[U]) : NodeAt(L[U], U)[i] \notin Y,
         \A y \in Nodes \ Y : fd'[y] = fd[y] /\ bk'[y] = bk[y]
  PROVE  IsRing(NodeAt(L[U], U), First(U), Len(L[U]), fd', bk')
<1>1. PICK c : c = NodeAt(L[U], U)
  OBVIOUS
<1>2. c \in [First(U) .. Len(L[U]) -> Nodes]
  BY <1>1, NodeFacts
<1>3. IsRing(c, First(U), Len(L[U]), fd, bk)
  BY <1>1 DEF Links, RingsOK
<1>4. \A i \in First(U) .. Len(L[U]) : fd'[c[i]] = fd[c[i]] /\ bk'[c[i]] = bk[c[i]]
  BY <1>1, <1>2
<1>5. QED
  BY <1>1, <1>3, <1>4 DEF IsRing

(* P's size is none of a ring it is not in. *)
LEMMA NotInRing ==
  ASSUME NEW L, Lists(L), NEW U \in DOMAIN L, NEW P \in Chunks, size[P] # U,
         NEW i \in First(U) .. Len(L[U])
  PROVE  NodeAt(L[U], U)[i] # P
<1>1. NodeAt(L[U], U)[i] = IF i = 0 THEN Bin(U) ELSE L[U][i]
  BY DEF NodeAt
<1>2. First(U) \in 0 .. 1 /\ U \in AllSizes /\ Len(L[U]) \in Nat
  BY NodeFacts, ListFacts
<1>3. CASE i = 0
  <2>1. U \in SmallSizes
    BY <1>2, <1>3, SizeFacts DEF First
  <2>2. QED
    BY <1>1, <1>3, <2>1, SmallSizeFacts
<1>4. CASE i # 0
  <2>1. i \in 1 .. Len(L[U])
    BY <1>2, <1>4
  <2>2. size[L[U][i]] = U
    BY <2>1 DEF Lists
  <2>3. QED
    BY <1>1, <1>4, <2>2
<1>5. QED
  BY <1>3, <1>4

(* A ring does not contain the bin of another size. *)
LEMMA NotTheBin ==
  ASSUME NEW L, Lists(L), NEW U \in DOMAIN L, NEW S \in SmallSizes, U # S,
         NEW i \in First(U) .. Len(L[U])
  PROVE  NodeAt(L[U], U)[i] # Bin(S)
<1>1. NodeAt(L[U], U)[i] = IF i = 0 THEN Bin(U) ELSE L[U][i]
  BY DEF NodeAt
<1>2. First(U) \in 0 .. 1 /\ U \in AllSizes /\ Len(L[U]) \in Nat
  BY NodeFacts, ListFacts
<1>3. CASE i = 0
  <2>1. U \in SmallSizes
    BY <1>2, <1>3, SizeFacts DEF First
  <2>2. QED
    BY <1>1, <1>3, <2>1, BinsDiffer
<1>4. CASE i # 0
  <2>1. i \in 1 .. Len(L[U])
    BY <1>2, <1>4
  <2>2. L[U][i] \in Chunks
    BY <2>1, ListFacts
  <2>3. QED
    BY <1>1, <1>4, <2>2, SmallSizeFacts
<1>5. QED
  BY <1>3, <1>4

(* A chunk joins the ring of its size at its end. *)
LEMMA JoinKeepsLinks ==
  ASSUME NEW L, Lists(L), Links(L), NEW P \in Chunks, size[P] = 0, NEW S \in DOMAIN L,
         NEW T, T = Ends(S, L[S]),
         fd' = [fd EXCEPT ![T] = P, ![P] = fd[T]],
         bk' = [bk EXCEPT ![fd[T]] = P, ![P] = T],
         NEW L2, L2 = Added(L, P, S)
  PROVE  Links(L2)' /\ fd[T] \in Nodes
<1>1. PICK c : c = NodeAt(L[S], S)
  OBVIOUS
<1>2. PICK m \in 0 .. 1, n \in Nat : m = First(S) /\ n = Len(L[S]) /\ m <= n /\ n >= 1
  BY NodeFacts, ListFacts
<1>3. /\ c \in [m .. n -> Nodes]
      /\ \A i, j \in m .. n : c[i] = c[j] => i = j
      /\ IsRing(c, m, n, fd, bk)
      /\ T = c[m] /\ m \in m .. n /\ n \in m .. n
  BY <1>1, <1>2, NodeFacts DEF Links, RingsOK, Ends
<1>4. \A i \in m .. n : c[i] # P
  <2>1. S # 0
    BY ListFacts, SizeFacts
  <2>2. QED
    BY <1>1, <1>2, <2>1, NotInRing
<1>5. /\ fd \in [Nodes -> Nodes \cup {Null}] /\ bk \in [Nodes -> Nodes \cup {Null}] /\ P \in Nodes
      /\ fd[T] = c[n] /\ T \in Nodes /\ fd[T] \in Nodes
  BY <1>2, <1>3 DEF Links, Nodes, IsRing
<1>6. PICK c2 : c2 = [i \in m .. n + 1 |-> IF i = n + 1 THEN P ELSE c[i]]
  OBVIOUS
<1>7. /\ IsRing(c2, m, n + 1, fd', bk')
      /\ \A y \in Nodes : y # P /\ (\A i \in m .. n : c[i] # y) => fd'[y] = fd[y] /\ bk'[y] = bk[y]
  <2>1. m \in Nat
    BY <1>2
  <2>2. /\ fd' = [fd EXCEPT ![c[m]] = P, ![P] = fd[c[m]]]
        /\ bk' = [bk EXCEPT ![fd[c[m]]] = P, ![P] = c[m]]
    BY <1>3
  <2>3. PICK V : V = Nodes \cup {Null}
    OBVIOUS
  <2>4. fd \in [Nodes -> V] /\ bk \in [Nodes -> V]
    BY <1>5, <2>3
  <2>5. QED
    <3>1. PICK f2, b2 : f2 = fd' /\ b2 = bk'
      OBVIOUS
    <3>2. PICK f, b : f = fd /\ b = bk
      OBVIOUS
    <3>3. /\ IsRing(c2, m, n + 1, f2, b2)
          /\ \A y \in Nodes : y # P /\ (\A i \in m .. n : c[i] # y) => f2[y] = f[y] /\ b2[y] = b[y]
      <4>1. /\ f2 = [f EXCEPT ![c[m]] = P, ![P] = f[c[m]]]
            /\ b2 = [b EXCEPT ![f[c[m]]] = P, ![P] = c[m]]
            /\ f \in [Nodes -> V] /\ b \in [Nodes -> V] /\ IsRing(c, m, n, f, b)
        BY <1>3, <2>2, <2>4, <3>1, <3>2
      <4>2. Circle(c, m, n, Nodes, V, f, b)
        BY <1>2, <1>3, <2>1, <4>1 DEF Circle
      <4>3. Joining(P, c, m, n, Nodes, f, b, f2, b2)
        BY <1>4, <1>5, <4>1 DEF Joining
      <4>4. QED
        BY <1>6, <4>2, <4>3, RingGrows
    <3>4. QED
      BY <3>1, <3>2, <3>3
<1>8. /\ DOMAIN L2 = DOMAIN L /\ L2[S] = Append(L[S], P)
      /\ \A U \in DOMAIN L2 : U # S => L2[U] = L[U]
  BY DEF Added
<1>9. /\ Len(L2[S]) = n + 1 /\ L2[S][n + 1] = P
      /\ \A i \in 1 .. n : L2[S][i] = L[S][i]
  BY <1>2, <1>8, ListFacts, AppendProperties
<1>10. NodeAt(L2[S], S) = c2
  <2>1. NodeAt(L2[S], S) = [i \in m .. n + 1 |-> IF i = 0 THEN Bin(S) ELSE L2[S][i]]
    BY <1>2, <1>9 DEF NodeAt
  <2>2. \A i \in m .. n : c[i] = IF i = 0 THEN Bin(S) ELSE L[S][i]
    BY <1>1, <1>2 DEF NodeAt
  <2>3. \A i \in m .. n + 1 : (IF i = 0 THEN Bin(S) ELSE L2[S][i]) = IF i = n + 1 THEN P ELSE c[i]
    <3> SUFFICES ASSUME NEW i \in m .. n + 1
                 PROVE  (IF i = 0 THEN Bin(S) ELSE L2[S][i]) = IF i = n + 1 THEN P ELSE c[i]
      OBVIOUS
    <3>1. CASE i = n + 1
      BY <1>2, <1>9, <3>1
    <3>2. CASE i = 0
      BY <1>2, <2>2, <3>2
    <3>3. CASE i # 0 /\ i # n + 1
      <4>1. i \in 1 .. n /\ i \in m .. n
        BY <1>2, <3>3
      <4>2. QED
        BY <1>9, <2>2, <3>3, <4>1
    <3>4. QED
      BY <3>1, <3>2, <3>3
  <2>4. QED
    BY <1>6, <2>1, <2>3
<1>11. ASSUME NEW U \in DOMAIN L2
       PROVE  IsRing(NodeAt(L2[U], U), First(U), Len(L2[U]), fd', bk')
  <2>1. CASE U = S
    BY <1>2, <1>7, <1>9, <1>10, <2>1
  <2>2. CASE U # S
    <3> DEFINE Y == {P} \cup {c[i] : i \in m .. n}
    <3>1. U \in DOMAIN L /\ L2[U] = L[U]
      BY <1>8, <2>2
    <3>2. ASSUME NEW i \in First(U) .. Len(L[U])
          PROVE  NodeAt(L[U], U)[i] \notin Y
      <4>1. U # 0
        BY <3>1, ListFacts, SizeFacts
      <4>2. NodeAt(L[U], U)[i] # P
        BY <3>1, <4>1, NotInRing
      <4>3. \A j \in m .. n : NodeAt(L[U], U)[i] # c[j]
        BY <1>1, <1>2, <2>2, <3>1, NodesDiffer
      <4>4. QED
        BY <4>2, <4>3
    <3>3. \A y \in Nodes \ Y : fd'[y] = fd[y] /\ bk'[y] = bk[y]
      BY <1>7
    <3> HIDE DEF Y
    <3>4. QED
      BY <3>1, <3>2, <3>3, OtherRings
  <2>3. QED
    BY <2>1, <2>2
<1>12. fd' \in [Nodes -> Nodes \cup {Null}] /\ bk' \in [Nodes -> Nodes \cup {Null}]
  BY <1>5
<1>13. QED
  BY <1>5, <1>11, <1>12 DEF Links, RingsOK

(* The first chunk of a size makes a ring, with its bin or alone. *)
LEMMA StartKeepsLinks ==
  ASSUME NEW L, Lists(L), Links(L), NEW P \in Chunks, size[P] = 0, NEW S \in AllSizes \ DOMAIN L,
         NEW A, A = IF is_small(S) THEN Bin(S) ELSE P,
         fd' = [fd EXCEPT ![A] = P, ![P] = A],
         bk' = [bk EXCEPT ![A] = P, ![P] = A],
         NEW L2, L2 = Added(L, P, S)
  PROVE  Links(L2)'
<1>1. /\ fd \in [Nodes -> Nodes \cup {Null}] /\ bk \in [Nodes -> Nodes \cup {Null}] /\ P \in Nodes
      /\ A \in Nodes /\ (is_small(S) => S \in SmallSizes /\ A # P)
  BY SizeFacts, SmallSizeFacts DEF Links, Nodes
<1>2. /\ fd'[A] = P /\ fd'[P] = A /\ bk'[A] = P /\ bk'[P] = A
      /\ \A y \in Nodes \ {A, P} : fd'[y] = fd[y] /\ bk'[y] = bk[y]
  BY <1>1
<1>3. /\ DOMAIN L2 = DOMAIN L \cup {S} /\ L2[S] = <<P>>
      /\ \A U \in DOMAIN L2 : U # S => U \in DOMAIN L /\ L2[U] = L[U]
  BY DEF Added
<1>4. ASSUME NEW U \in DOMAIN L2
      PROVE  IsRing(NodeAt(L2[U], U), First(U), Len(L2[U]), fd', bk')
  <2>1. CASE U = S
    <3>1. Len(L2[U]) = 1 /\ L2[U][1] = P
      BY <1>3, <2>1
    <3>2. NodeAt(L2[U], U) = [i \in First(U) .. 1 |-> IF i = 0 THEN Bin(S) ELSE L2[U][i]]
      BY <2>1, <3>1 DEF NodeAt
    <3>3. CASE is_small(S)
      BY <1>1, <1>2, <2>1, <3>1, <3>2, <3>3 DEF IsRing, First
    <3>4. CASE ~is_small(S)
      BY <1>1, <1>2, <2>1, <3>1, <3>2, <3>4 DEF IsRing, First
    <3>5. QED
      BY <3>3, <3>4
  <2>2. CASE U # S
    <3>1. U \in DOMAIN L /\ L2[U] = L[U]
      BY <1>3, <2>2
    <3>2. ASSUME NEW i \in First(U) .. Len(L[U])
          PROVE  NodeAt(L[U], U)[i] \notin {A, P}
      <4>1. U # 0
        BY <3>1, ListFacts, SizeFacts
      <4>2. NodeAt(L[U], U)[i] # P
        BY <3>1, <4>1, NotInRing
      <4>3. is_small(S) => NodeAt(L[U], U)[i] # Bin(S)
        BY <1>1, <2>2, <3>1, NotTheBin
      <4>4. QED
        BY <4>2, <4>3
    <3>3. QED
      BY <1>2, <3>1, <3>2, OtherRings
  <2>3. QED
    BY <2>1, <2>2
<1>5. fd' \in [Nodes -> Nodes \cup {Null}] /\ bk' \in [Nodes -> Nodes \cup {Null}]
  BY <1>1
<1>6. QED
  BY <1>4, <1>5 DEF Links, RingsOK

(* Who stands next to a chunk in a bin. *)
LEMMA Neighbours ==
  ASSUME NEW L, Lists(L), Links(L), NEW S \in DOMAIN L, NEW k \in 1 .. Len(L[S]), NEW P, P = L[S][k],
         NEW F, F = fd[P], NEW B, B = bk[P]
  PROVE  /\ P \in Chunks /\ F \in Nodes /\ B \in Nodes /\ bk[F] = P /\ fd[B] = P
         /\ ~is_small(S) => F \in Chunks /\ B \in Chunks
         /\ is_small(S) => (B = F <=> Len(L[S]) = 1) /\ (B = F => F = Bin(S)) /\ B # P
         /\ ~is_small(S) /\ Len(L[S]) = 1 => B = P /\ F = P
         /\ Len(L[S]) # 1 => B # P
         /\ B = IF k < Len(L[S]) THEN L[S][k + 1] ELSE Ends(S, L[S])
         /\ F = IF k > 1 THEN L[S][k - 1] ELSE IF is_small(S) THEN Bin(S) ELSE L[S][Len(L[S])]
<1>1. PICK c : c = NodeAt(L[S], S)
  OBVIOUS
<1>2. PICK m \in 0 .. 1, n \in Nat : m = First(S) /\ n = Len(L[S]) /\ m <= n /\ n >= 1
  BY NodeFacts, ListFacts
<1>3. /\ c \in [m .. n -> Nodes]
      /\ \A i, j \in m .. n : c[i] = c[j] => i = j
      /\ IsRing(c, m, n, fd, bk)
      /\ \A i \in m .. n : c[i] = IF i = 0 THEN Bin(S) ELSE L[S][i]
      /\ c[m] = Ends(S, L[S])
  <2>1. c \in [m .. n -> Nodes] /\ \A i, j \in m .. n : c[i] = c[j] => i = j
    BY <1>1, <1>2, NodeFacts
  <2>2. IsRing(c, m, n, fd, bk)
    BY <1>1, <1>2 DEF Links, RingsOK
  <2>3. \A i \in m .. n : c[i] = IF i = 0 THEN Bin(S) ELSE L[S][i]
    BY <1>1, <1>2 DEF NodeAt
  <2>4. c[m] = Ends(S, L[S])
    BY <1>1, <1>2 DEF Ends
  <2>5. QED
    BY <2>1, <2>2, <2>3, <2>4
<1>4. k \in 1 .. n /\ k \in m .. n /\ c[k] = P /\ P \in Chunks
  BY <1>2, <1>3, ListFacts
<1>5. PICK i, j \in m .. n : i = (IF k = n THEN m ELSE k + 1) /\ j = IF k = m THEN n ELSE k - 1
  BY <1>2, <1>4
<1>6. B = c[i] /\ F = c[j] /\ B \in Nodes /\ F \in Nodes
  BY <1>3, <1>4, <1>5 DEF IsRing
<1>7. bk[F] = P /\ fd[B] = P
  <2>1. bk[c[j]] = c[IF j = n THEN m ELSE j + 1] /\ fd[c[i]] = c[IF i = m THEN n ELSE i - 1]
    BY <1>3, <1>5 DEF IsRing
  <2>2. (IF j = n THEN m ELSE j + 1) = k /\ (IF i = m THEN n ELSE i - 1) = k
    BY <1>2, <1>4, <1>5
  <2>3. QED
    BY <1>4, <1>6, <2>1, <2>2
<1>8. ~is_small(S) => m = 1 /\ F \in Chunks /\ B \in Chunks
  <2>1. ~is_small(S) => m = 1 /\ i \in 1 .. n /\ j \in 1 .. n
    BY <1>2, <1>5 DEF First
  <2>2. QED
    BY <1>2, <1>3, <1>5, <1>6, <2>1, ListFacts
<1>9. is_small(S) => (B = F <=> n = 1) /\ (B = F => F = Bin(S)) /\ B # P
  <2> SUFFICES ASSUME is_small(S)
               PROVE  (B = F <=> n = 1) /\ (B = F => F = Bin(S)) /\ B # P
    OBVIOUS
  <2>1. m = 0 /\ (i = j <=> n = 1) /\ (n = 1 => j = 0) /\ i # k
    BY <1>2, <1>4, <1>5 DEF First
  <2>2. (B = F <=> i = j) /\ (B = P <=> i = k)
    BY <1>3, <1>4, <1>5, <1>6
  <2>3. j = 0 => F = Bin(S)
    BY <1>3, <1>5, <1>6
  <2>4. QED
    BY <2>1, <2>2, <2>3
<1>10. ~is_small(S) /\ n = 1 => B = P /\ F = P
  BY <1>2, <1>4, <1>5, <1>6, <1>8
<1>11. n # 1 => B # P
  <2>1. n # 1 => i # k
    BY <1>2, <1>4, <1>5
  <2>2. B = P <=> i = k
    BY <1>3, <1>4, <1>5, <1>6
  <2>3. QED
    BY <2>1, <2>2
<1>12. B = IF k < n THEN L[S][k + 1] ELSE Ends(S, L[S])
  <2>1. CASE k < n
    <3>1. i = k + 1 /\ i # 0
      BY <1>4, <1>5, <2>1
    <3>2. QED
      BY <1>3, <1>5, <1>6, <2>1, <3>1
  <2>2. CASE ~(k < n)
    BY <1>3, <1>4, <1>5, <1>6, <2>2
  <2>3. QED
    BY <2>1, <2>2
<1>13. F = IF k > 1 THEN L[S][k - 1] ELSE IF is_small(S) THEN Bin(S) ELSE L[S][n]
  <2>1. CASE k > 1
    <3>1. j = k - 1 /\ j # 0
      BY <1>2, <1>4, <1>5, <2>1
    <3>2. QED
      BY <1>3, <1>5, <1>6, <2>1, <3>1
  <2>2. CASE ~(k > 1) /\ is_small(S)
    <3>1. j = 0
      BY <1>2, <1>4, <1>5, <2>2 DEF First
    <3>2. QED
      BY <1>3, <1>5, <1>6, <2>2, <3>1
  <2>3. CASE ~(k > 1) /\ ~is_small(S)
    <3>1. j = n /\ j # 0
      BY <1>2, <1>4, <1>5, <2>3 DEF First
    <3>2. QED
      BY <1>3, <1>5, <1>6, <2>3, <3>1
  <2>4. QED
    BY <2>1, <2>2, <2>3
<1>14. QED
  BY <1>2, <1>4, <1>6, <1>7, <1>8, <1>9, <1>10, <1>11, <1>12, <1>13

(* A chunk that is not the last of its size leaves a ring. *)
LEMMA LeaveKeepsLinks ==
  ASSUME NEW L, Lists(L), Links(L), NEW S \in DOMAIN L, NEW k \in 1 .. Len(L[S]), NEW P, P = L[S][k],
         Len(L[S]) # 1,
         fd' = [fd EXCEPT ![bk[P]] = fd[P], ![P] = Null],
         bk' = [bk EXCEPT ![fd[P]] = bk[P], ![P] = Null],
         NEW L2, L2 = Removed(L, S, k)
  PROVE  Links(L2)'
<1>1. PICK c : c = NodeAt(L[S], S)
  OBVIOUS
<1>2. PICK m \in 0 .. 1, n \in Nat : m = First(S) /\ n = Len(L[S]) /\ m < n /\ n > 1
  <2>1. PICK m \in 0 .. 1, n \in Nat : m = First(S) /\ n = Len(L[S]) /\ n >= 1
    BY NodeFacts, ListFacts
  <2>2. QED
    BY <2>1
<1>3. /\ c \in [m .. n -> Nodes]
      /\ \A i, j \in m .. n : c[i] = c[j] => i = j
      /\ IsRing(c, m, n, fd, bk)
      /\ \A i \in m .. n : c[i] = IF i = 0 THEN Bin(S) ELSE L[S][i]
  <2>1. c \in [m .. n -> Nodes] /\ \A i, j \in m .. n : c[i] = c[j] => i = j
    BY <1>1, <1>2, NodeFacts
  <2>2. IsRing(c, m, n, fd, bk)
    BY <1>1, <1>2 DEF Links, RingsOK
  <2>3. \A i \in m .. n : c[i] = IF i = 0 THEN Bin(S) ELSE L[S][i]
    BY <1>1, <1>2 DEF NodeAt
  <2>4. QED
    BY <2>1, <2>2, <2>3
<1>4. k \in 1 .. n /\ k \in m .. n /\ c[k] = P /\ P \in Chunks
  BY <1>2, <1>3, ListFacts
<1>5. /\ fd \in [Nodes -> Nodes \cup {Null}] /\ bk \in [Nodes -> Nodes \cup {Null}] /\ P \in Nodes
      /\ fd[P] \in Nodes /\ bk[P] \in Nodes
  <2>1. fd[P] \in Nodes /\ bk[P] \in Nodes
    BY Neighbours
  <2>2. QED
    BY <1>4, <2>1 DEF Links, Nodes
<1>6. PICK c2 : c2 = [i \in m .. n - 1 |-> IF i < k THEN c[i] ELSE c[i + 1]]
  OBVIOUS
<1>7. /\ IsRing(c2, m, n - 1, fd', bk')
      /\ \A y \in Nodes : (\A i \in m .. n : c[i] # y) => fd'[y] = fd[y] /\ bk'[y] = bk[y]
  <2>1. m \in Nat
    BY <1>2
  <2>2. /\ fd' = [fd EXCEPT ![bk[c[k]]] = fd[c[k]], ![c[k]] = Null]
        /\ bk' = [bk EXCEPT ![fd[c[k]]] = bk[c[k]], ![c[k]] = Null]
    BY <1>4
  <2>3. PICK V : V = Nodes \cup {Null}
    OBVIOUS
  <2>4. fd \in [Nodes -> V] /\ bk \in [Nodes -> V]
    BY <1>5, <2>3
  <2>5. QED
    <3>1. PICK f2, b2 : f2 = fd' /\ b2 = bk'
      OBVIOUS
    <3>2. PICK f, b : f = fd /\ b = bk
      OBVIOUS
    <3>3. /\ IsRing(c2, m, n - 1, f2, b2)
          /\ \A y \in Nodes : (\A i \in m .. n : c[i] # y) => f2[y] = f[y] /\ b2[y] = b[y]
      <4>1. /\ f2 = [f EXCEPT ![b[c[k]]] = f[c[k]], ![c[k]] = Null]
            /\ b2 = [b EXCEPT ![f[c[k]]] = b[c[k]], ![c[k]] = Null]
            /\ f \in [Nodes -> V] /\ b \in [Nodes -> V] /\ IsRing(c, m, n, f, b)
        BY <1>3, <2>2, <2>4, <3>1, <3>2
      <4>2. Circle(c, m, n, Nodes, V, f, b)
        BY <1>2, <1>3, <2>1, <4>1 DEF Circle
      <4>3. Leaving(k, c, m, n, Null, f, b, f2, b2)
        BY <1>2, <1>4, <4>1 DEF Leaving
      <4>4. QED
        BY <1>6, <4>2, <4>3, RingShrinks
    <3>4. QED
      BY <3>1, <3>2, <3>3
<1>8. /\ DOMAIN L2 = DOMAIN L /\ L2[S] = Without(L[S], k)
      /\ \A U \in DOMAIN L2 : U # S => L2[U] = L[U]
  BY DEF Removed
<1>9. /\ Len(L2[S]) = n - 1
      /\ \A i \in 1 .. n - 1 : L2[S][i] = IF i < k THEN L[S][i] ELSE L[S][i + 1]
  <2>1. PICK q : q = Without(L[S], k)
    OBVIOUS
  <2>a. Len(L[S]) # 1 /\ k \in 1 .. Len(L[S]) /\ S \in DOMAIN L
    OBVIOUS
  <2>b. Len(q) = Len(L[S]) - 1 /\ \A i \in 1 .. Len(q) : q[i] = IF i < k THEN L[S][i] ELSE L[S][i + 1]
    <3>1. Shortened(q, L[S], k)
      BY <2>a, <2>1, WithoutIs, Zenon
    <3>2. QED
      BY <3>1 DEF Shortened
  <2>2. Len(q) = n - 1 /\ \A i \in 1 .. Len(q) : q[i] = IF i < k THEN L[S][i] ELSE L[S][i + 1]
    BY <1>2, <2>b
  <2>3. QED
    BY <1>8, <2>1, <2>2
<1>10. NodeAt(L2[S], S) = c2
  <2>1. NodeAt(L2[S], S) = [i \in m .. n - 1 |-> IF i = 0 THEN Bin(S) ELSE L2[S][i]]
    BY <1>2, <1>9 DEF NodeAt
  <2>2. \A i \in m .. n - 1 : (IF i = 0 THEN Bin(S) ELSE L2[S][i]) = IF i < k THEN c[i] ELSE c[i + 1]
    <3> SUFFICES ASSUME NEW i \in m .. n - 1
                 PROVE  (IF i = 0 THEN Bin(S) ELSE L2[S][i]) = IF i < k THEN c[i] ELSE c[i + 1]
      OBVIOUS
    <3>1. CASE i = 0
      <4>1. i < k /\ i \in m .. n
        BY <1>2, <1>4, <3>1
      <4>2. QED
        BY <1>3, <3>1, <4>1
    <3>2. CASE i # 0 /\ i < k
      <4>1. i \in 1 .. n - 1 /\ i \in m .. n
        BY <1>2, <3>2
      <4>2. QED
        BY <1>3, <1>9, <3>2, <4>1
    <3>3. CASE i # 0 /\ ~(i < k)
      <4>1. i \in 1 .. n - 1 /\ i + 1 \in m .. n /\ i + 1 # 0
        BY <1>2, <3>3
      <4>2. QED
        BY <1>3, <1>9, <3>3, <4>1
    <3>4. QED
      BY <3>1, <3>2, <3>3
  <2>3. QED
    BY <1>6, <2>1, <2>2
<1>11. ASSUME NEW U \in DOMAIN L2
       PROVE  IsRing(NodeAt(L2[U], U), First(U), Len(L2[U]), fd', bk')
  <2>1. CASE U = S
    BY <1>2, <1>7, <1>9, <1>10, <2>1
  <2>2. CASE U # S
    <3> DEFINE Y == {c[i] : i \in m .. n}
    <3>1. U \in DOMAIN L /\ L2[U] = L[U]
      BY <1>8, <2>2
    <3>2. ASSUME NEW i \in First(U) .. Len(L[U])
          PROVE  NodeAt(L[U], U)[i] \notin Y
      BY <1>1, <1>2, <2>2, <3>1, NodesDiffer
    <3>3. \A y \in Nodes \ Y : fd'[y] = fd[y] /\ bk'[y] = bk[y]
      BY <1>7
    <3> HIDE DEF Y
    <3>4. QED
      BY <3>1, <3>2, <3>3, OtherRings
  <2>3. QED
    BY <2>1, <2>2
<1>12. fd' \in [Nodes -> Nodes \cup {Null}] /\ bk' \in [Nodes -> Nodes \cup {Null}]
  BY <1>5
<1>13. QED
  BY <1>11, <1>12 DEF Links, RingsOK

(* The last chunk of a size takes its ring along. *)
LEMMA LastKeepsLinks ==
  ASSUME NEW L, Lists(L), Links(L), NEW S \in DOMAIN L, Len(L[S]) = 1, NEW P, P = L[S][1],
         fd' \in [Nodes -> Nodes \cup {Null}], bk' \in [Nodes -> Nodes \cup {Null}],
         \A y \in Nodes \ {P} : fd'[y] = fd[y] /\ bk'[y] = bk[y],
         NEW L2, L2 = Removed(L, S, 1)
  PROVE  Links(L2)'
<1>1. DOMAIN L2 = DOMAIN L \ {S} /\ \A U \in DOMAIN L2 : L2[U] = L[U]
  BY DEF Removed
<1>2. P \in Chunks /\ size[P] = S
  BY ListFacts DEF Lists
<1>3. ASSUME NEW U \in DOMAIN L2
      PROVE  IsRing(NodeAt(L2[U], U), First(U), Len(L2[U]), fd', bk')
  <2>1. U \in DOMAIN L /\ L2[U] = L[U] /\ U # S
    BY <1>1
  <2>2. \A i \in First(U) .. Len(L[U]) : NodeAt(L[U], U)[i] \notin {P}
    BY <1>2, <2>1, NotInRing
  <2>3. QED
    BY <2>1, <2>2, OtherRings
<1>4. QED
  BY <1>3 DEF Links, RingsOK

-----------------------------------------------------------------------------
(* Everything together.                                                    *)

(* The marks of the small bins. *)
Marks(L) == smallmap = {small_index(S) : S \in DOMAIN L \cap SmallSizes}

(* The nodes of the tries. *)
BasesOf(L) == {L[S][1] : S \in DOMAIN L \cap LargeSizes}

(* The other chunks of a large size are in no trie. *)
Chained(L) ==
  \A S \in DOMAIN L \cap LargeSizes : \A i \in 2 .. Len(L[S]) :
    parent[L[S][i]] = Null /\ child[L[S][i]] = Large!NoChild

(* The bins hold the lists L, and the tries of the large sizes have the    *)
(* depths dp.                                                              *)
Good(L, dp) ==
  /\ Lists(L)
  /\ Links(L)
  /\ Marks(L)
  /\ Chained(L)
  /\ Trie(BasesOf(L), dp)
  /\ workload \in Workloads
  /\ ~aborted

(* The first chunk of a large size, and no other, is a node of a trie. *)
LEMMA BasesAre ==
  ASSUME NEW L, Lists(L), NEW S \in DOMAIN L, NEW i \in 1 .. Len(L[S])
  PROVE  L[S][i] \in BasesOf(L) <=> S \in LargeSizes /\ i = 1
<1>1. size[L[S][i]] = S /\ 1 \in 1 .. Len(L[S])
  BY ListFacts DEF Lists
<1>2. ASSUME L[S][i] \in BasesOf(L)
      PROVE  S \in LargeSizes /\ i = 1
  <2>1. PICK U \in DOMAIN L \cap LargeSizes : L[U][1] = L[S][i]
    BY <1>2 DEF BasesOf
  <2>2. 1 \in 1 .. Len(L[U])
    BY ListFacts
  <2>3. size[L[U][1]] = U
    BY <2>2 DEF Lists
  <2>4. U = S
    BY <1>1, <2>1, <2>3
  <2>5. QED
    BY <1>1, <2>1, <2>4 DEF Lists
<1>3. QED
  BY <1>2 DEF BasesOf

(* What the two kinds of change do to the lists. *)
IsAdded(L, P, S, L2) ==
  /\ DOMAIN L2 = DOMAIN L \cup {S}
  /\ \A U \in DOMAIN L : U # S => L2[U] = L[U]
  /\ (S \notin DOMAIN L => (Len(L2[S]) = 1 /\ L2[S][1] = P))
  /\ (S \in DOMAIN L => (Len(L2[S]) = Len(L[S]) + 1 /\ L2[S][Len(L[S]) + 1] = P))
  /\ (S \in DOMAIN L => (\A i \in 1 .. Len(L[S]) : L2[S][i] = L[S][i]))

IsRemoved(L, S, k, L2) ==
  /\ (Len(L[S]) = 1 => DOMAIN L2 = DOMAIN L \ {S})
  /\ (Len(L[S]) # 1 => DOMAIN L2 = DOMAIN L)
  /\ \A U \in DOMAIN L : U # S => L2[U] = L[U]
  /\ (Len(L[S]) # 1 => (Len(L2[S]) = Len(L[S]) - 1 /\ Len(L2[S]) >= 1))
  /\ (Len(L[S]) # 1 => (\A i \in 1 .. Len(L2[S]) : L2[S][i] = IF i < k THEN L[S][i] ELSE L[S][i + 1]))

(* What Added does to the lists. *)
LEMMA AddedParts ==
  ASSUME NEW L, Lists(L), NEW P \in Chunks, NEW S \in AllSizes, NEW L2, L2 = Added(L, P, S)
  PROVE  IsAdded(L, P, S, L2)
<1>1. /\ DOMAIN L2 = DOMAIN L \cup {S}
      /\ \A U \in DOMAIN L : U # S => L2[U] = L[U]
      /\ S \notin DOMAIN L => L2[S] = <<P>>
      /\ S \in DOMAIN L => L2[S] = Append(L[S], P)
  BY DEF Added
<1>2. CASE S \in DOMAIN L
  <2>1. L[S] \in Seq(Chunks)
    BY <1>2, ListFacts
  <2>2. /\ Len(L2[S]) = Len(L[S]) + 1 /\ L2[S][Len(L[S]) + 1] = P
        /\ \A i \in 1 .. Len(L[S]) : L2[S][i] = L[S][i]
    BY <1>1, <1>2, <2>1, AppendProperties
  <2>3. QED
    BY <1>1, <1>2, <2>2 DEF IsAdded
<1>3. CASE S \notin DOMAIN L
  <2>a. PICK q : q = <<P>>
    OBVIOUS
  <2>b. Len(q) = 1 /\ q[1] = P
    BY <2>a
  <2>1. Len(L2[S]) = 1 /\ L2[S][1] = P
    BY <1>1, <1>3, <2>a, <2>b
  <2>2. QED
    BY <1>1, <1>3, <2>1 DEF IsAdded
<1>4. QED
  BY <1>2, <1>3

(* What Removed does to the lists. *)
LEMMA RemovedParts ==
  ASSUME NEW L, Lists(L), NEW S \in DOMAIN L, NEW k \in 1 .. Len(L[S]), NEW L2, L2 = Removed(L, S, k)
  PROVE  IsRemoved(L, S, k, L2)
<1>1. CASE Len(L[S]) = 1
  <2>1. L2 = [U \in DOMAIN L \ {S} |-> L[U]]
    BY <1>1 DEF Removed
  <2>2. DOMAIN L2 = DOMAIN L \ {S} /\ \A U \in DOMAIN L : U # S => L2[U] = L[U]
    BY <2>1
  <2>3. QED
    BY <1>1, <2>2 DEF IsRemoved
<1>2. CASE Len(L[S]) # 1
  <2>1. PICK q : q = Without(L[S], k)
    OBVIOUS
  <2>2. L2 = [L EXCEPT ![S] = q]
    BY <1>2, <2>1 DEF Removed
  <2>a. Len(L[S]) # 1 /\ k \in 1 .. Len(L[S]) /\ S \in DOMAIN L
    BY <1>2
  <2>3. /\ Len(q) = Len(L[S]) - 1 /\ Len(q) >= 1
        /\ \A i \in 1 .. Len(q) : q[i] = IF i < k THEN L[S][i] ELSE L[S][i + 1]
    <3>1. Shortened(q, L[S], k)
      BY <2>a, <2>1, WithoutIs, Zenon
    <3>2. PICK n \in Nat : n = Len(L[S]) /\ n >= 1 /\ n # 1
      BY <2>a, ListFacts
    <3>3. QED
      BY <3>1, <3>2 DEF Shortened
  <2>4. L2[S] = q /\ DOMAIN L2 = DOMAIN L /\ \A U \in DOMAIN L : U # S => L2[U] = L[U]
    BY <2>2
  <2>5. QED
    BY <1>2, <2>3, <2>4 DEF IsRemoved
<1>3. QED
  BY <1>1, <1>2

(* The nodes of the tries when a chunk is added. *)
LEMMA BasesAdded ==
  ASSUME NEW L, Lists(L), NEW P \in Chunks, NEW S \in AllSizes, NEW L2, L2 = Added(L, P, S)
  PROVE  BasesOf(L2) = IF S \in LargeSizes /\ S \notin DOMAIN L THEN BasesOf(L) \cup {P} ELSE BasesOf(L)
<1>1. IsAdded(L, P, S, L2)
  BY AddedParts
<1>2. S \in DOMAIN L => L2[S][1] = L[S][1]
  <2>1. S \in DOMAIN L => 1 \in 1 .. Len(L[S])
    BY ListFacts
  <2>2. QED
    BY <1>1, <2>1 DEF IsAdded
<1>3. /\ DOMAIN L2 = DOMAIN L \cup {S}
      /\ \A U \in DOMAIN L : L2[U][1] = L[U][1]
      /\ S \notin DOMAIN L => L2[S][1] = P
  BY <1>1, <1>2 DEF IsAdded
<1>4. QED
  BY <1>3 DEF BasesOf

(* The nodes of the tries when one is removed: the next of its size takes  *)
(* over.                                                                   *)
LEMMA BasesRemoved ==
  ASSUME NEW L, Lists(L), NEW S \in DOMAIN L, NEW k \in 1 .. Len(L[S]), NEW L2, L2 = Removed(L, S, k)
  PROVE  /\ S \notin LargeSizes \/ k # 1 => BasesOf(L2) = BasesOf(L)
         /\ S \in LargeSizes /\ k = 1 /\ Len(L[S]) = 1 => BasesOf(L2) = BasesOf(L) \ {L[S][1]}
         /\ S \in LargeSizes /\ k = 1 /\ Len(L[S]) # 1 =>
              BasesOf(L2) = (BasesOf(L) \ {L[S][1]}) \cup {L[S][2]}
<1>1. IsRemoved(L, S, k, L2)
  BY RemovedParts
<1>2. /\ Len(L[S]) = 1 => DOMAIN L2 = DOMAIN L \ {S}
      /\ Len(L[S]) # 1 => DOMAIN L2 = DOMAIN L
      /\ \A U \in DOMAIN L : U # S => L2[U] = L[U]
  BY <1>1 DEF IsRemoved
<1>3. ASSUME Len(L[S]) # 1
      PROVE  L2[S][1] = IF k = 1 THEN L[S][2] ELSE L[S][1]
  <2>1. /\ Len(L2[S]) >= 1 /\ Len(L2[S]) = Len(L[S]) - 1
        /\ \A i \in 1 .. Len(L2[S]) : L2[S][i] = IF i < k THEN L[S][i] ELSE L[S][i + 1]
    BY <1>1, <1>3 DEF IsRemoved
  <2>2. PICK n \in Nat : n = Len(L[S])
    BY ListFacts
  <2>3. 1 \in 1 .. Len(L2[S])
    BY <2>1, <2>2
  <2>4. L2[S][1] = IF 1 < k THEN L[S][1] ELSE L[S][1 + 1]
    BY <2>1, <2>3
  <2>5. 1 < k <=> k # 1
    BY <2>2
  <2>6. QED
    BY <2>4, <2>5
<1>4. k # 1 => Len(L[S]) # 1
  <2>1. PICK n \in Nat : n = Len(L[S])
    BY ListFacts
  <2>2. QED
    BY <2>1
<1>5. \A U \in DOMAIN L : U # S => L[U][1] # L[S][1]
  <2>1. \A U \in DOMAIN L : size[L[U][1]] = U
    BY ListFacts DEF Lists
  <2>2. QED
    BY <2>1
<1>6. \A y : y \in BasesOf(L2) <=> \E U \in DOMAIN L2 \cap LargeSizes : y = L2[U][1]
  BY DEF BasesOf
<1>7. \A y : y \in BasesOf(L) <=> \E U \in DOMAIN L \cap LargeSizes : y = L[U][1]
  BY DEF BasesOf
<1>8. ASSUME S \notin LargeSizes \/ k # 1
      PROVE  BasesOf(L2) = BasesOf(L)
  <2>1. CASE S \notin LargeSizes
    <3>1. \A U \in LargeSizes : (U \in DOMAIN L2 <=> U \in DOMAIN L) /\ (U \in DOMAIN L => L2[U] = L[U])
      BY <1>2, <2>1
    <3>2. \A y : y \in BasesOf(L2) <=> y \in BasesOf(L)
      BY <1>6, <1>7, <3>1
    <3>3. QED
      BY <3>2
  <2>2. CASE k # 1
    <3>1. DOMAIN L2 = DOMAIN L /\ L2[S][1] = L[S][1]
      BY <1>2, <1>3, <1>4, <2>2
    <3>2. \A U \in DOMAIN L : L2[U][1] = L[U][1]
      BY <1>2, <3>1
    <3>3. \A y : y \in BasesOf(L2) <=> y \in BasesOf(L)
      BY <1>6, <1>7, <3>1, <3>2
    <3>4. QED
      BY <3>3
  <2>3. QED
    BY <1>8, <2>1, <2>2
<1>9. ASSUME S \in LargeSizes, k = 1, Len(L[S]) = 1
      PROVE  BasesOf(L2) = BasesOf(L) \ {L[S][1]}
  <2>1. DOMAIN L2 = DOMAIN L \ {S}
    BY <1>2, <1>9
  <2>2. QED
    BY <1>2, <1>5, <1>6, <1>7, <2>1
<1>10. ASSUME S \in LargeSizes, k = 1, Len(L[S]) # 1
       PROVE  BasesOf(L2) = (BasesOf(L) \ {L[S][1]}) \cup {L[S][2]}
  <2>1. DOMAIN L2 = DOMAIN L /\ L2[S][1] = L[S][2]
    BY <1>2, <1>3, <1>10
  <2>2. QED
    BY <1>2, <1>5, <1>6, <1>7, <1>10, <2>1
<1>11. QED
  BY <1>8, <1>9, <1>10

(* A chunk that is added to a ring is no node of a trie. *)
LEMMA ChainedAdded ==
  ASSUME NEW L, Lists(L), Chained(L), NEW P \in Chunks, size[P] = 0, NEW S \in AllSizes,
         OnlyNodes(BasesOf(L), P),
         S \in DOMAIN L \cap LargeSizes => parent'[P] = Null /\ child'[P] = Large!NoChild,
         NEW L2, L2 = Added(L, P, S)
  PROVE  Chained(L2)'
<1> SUFFICES ASSUME NEW U \in DOMAIN L2 \cap LargeSizes, NEW i \in 2 .. Len(L2[U])
             PROVE  parent'[L2[U][i]] = Null /\ child'[L2[U][i]] = Large!NoChild
  BY DEF Chained
<1>1. ASSUME U \in DOMAIN L \cap LargeSizes, i \in 2 .. Len(L[U]), L2[U][i] = L[U][i]
      PROVE  parent'[L2[U][i]] = Null /\ child'[L2[U][i]] = Large!NoChild
  <2>1. i \in 1 .. Len(L[U]) /\ i # 1
    BY <1>1
  <2>2. PICK y \in Chunks : y = L[U][i]
    BY <1>1, <2>1, ListFacts
  <2>3. y \notin BasesOf(L) /\ y # P
    <3>a. U \in AllSizes
      BY <1>1, ListFacts
    <3>1. size[y] = U /\ U # 0
      BY <1>1, <2>1, <2>2, <3>a, SizeFacts DEF Lists
    <3>2. QED
      BY <1>1, <2>1, <2>2, <3>1, BasesAre
  <2>4. child'[y] = child[y] /\ parent'[y] = parent[y]
    BY <2>3 DEF OnlyNodes
  <2>5. QED
    BY <1>1, <2>2, <2>4 DEF Chained
<1>a. IsAdded(L, P, S, L2)
  BY AddedParts
<1>2. CASE U # S
  <2>1. U \in DOMAIN L /\ L2[U] = L[U]
    BY <1>a, <1>2 DEF IsAdded
  <2>2. QED
    BY <1>1, <2>1
<1>3. CASE U = S
  <2>1. U \in DOMAIN L
    <3>1. ASSUME U \notin DOMAIN L
          PROVE  FALSE
      <4>1. Len(L2[U]) = 1
        BY <1>a, <1>3, <3>1 DEF IsAdded
      <4>2. QED
        BY <4>1
    <3>2. QED
      BY <3>1
  <2>2. PICK n \in Nat : n = Len(L[U]) /\ Len(L2[U]) = n + 1 /\ L2[U][n + 1] = P
    <3>1. Len(L2[U]) = Len(L[U]) + 1 /\ L2[U][Len(L[U]) + 1] = P
      BY <1>a, <1>3, <2>1 DEF IsAdded
    <3>2. QED
      BY <2>1, <3>1, ListFacts
  <2>3. CASE i = n + 1
    BY <1>3, <2>1, <2>2, <2>3
  <2>4. CASE i # n + 1
    <3>1. i \in 2 .. Len(L[U]) /\ i \in 1 .. Len(L[U])
      BY <2>2, <2>4
    <3>2. L2[U][i] = L[U][i]
      BY <1>a, <1>3, <2>1, <3>1 DEF IsAdded
    <3>3. QED
      BY <1>1, <2>1, <3>1, <3>2
  <2>5. QED
    BY <2>3, <2>4
<1>4. QED
  BY <1>2, <1>3

(* Chained chunks stay chained when another chunk leaves. *)
LEMMA ChainedRemoved ==
  ASSUME NEW L, Lists(L), Chained(L), NEW S \in DOMAIN L, NEW k \in 1 .. Len(L[S]), NEW P, P = L[S][k],
         NEW Y, OnlyNodes(Y, P),
         \A y \in Y : y \in BasesOf(L) \/ (k = 1 /\ Len(L[S]) # 1 /\ y = L[S][2]),
         NEW L2, L2 = Removed(L, S, k)
  PROVE  Chained(L2)'
<1> SUFFICES ASSUME NEW U \in DOMAIN L2 \cap LargeSizes, NEW i \in 2 .. Len(L2[U])
             PROVE  parent'[L2[U][i]] = Null /\ child'[L2[U][i]] = Large!NoChild
  BY DEF Chained
<1>a. IsRemoved(L, S, k, L2)
  BY RemovedParts
<1>b. U \in DOMAIN L
  BY <1>a DEF IsRemoved
<1>1. PICK j \in 2 .. Len(L[U]) : /\ U \in DOMAIN L /\ L2[U][i] = L[U][j]
                                  /\ U = S => j # k /\ (k = 1 => j # 2)
  <2>1. CASE U # S
    <3>1. U \in DOMAIN L /\ L2[U] = L[U]
      BY <1>a, <1>b, <2>1 DEF IsRemoved
    <3>2. QED
      BY <2>1, <3>1
  <2>2. CASE U = S
    <3>1. Len(L[S]) # 1
      BY <1>a, <2>2 DEF IsRemoved
    <3>2. PICK n \in Nat : /\ n = Len(L[S]) /\ Len(L2[S]) = n - 1
                           /\ \A d \in 1 .. Len(L2[S]) : L2[S][d] = IF d < k THEN L[S][d] ELSE L[S][d + 1]
      BY <1>a, <3>1, ListFacts DEF IsRemoved
    <3>3. i \in 1 .. Len(L2[S]) /\ i \in 2 .. n - 1 /\ k \in 1 .. n
      BY <2>2, <3>2
    <3>4. L2[S][i] = IF i < k THEN L[S][i] ELSE L[S][i + 1]
      BY <3>2, <3>3
    <3>5. PICK j \in 2 .. n : j = IF i < k THEN i ELSE i + 1
      BY <3>3
    <3>6. QED
      BY <2>2, <3>2, <3>3, <3>4, <3>5
  <2>3. QED
    BY <2>1, <2>2
<1>2. j \in 1 .. Len(L[U]) /\ j # 1 /\ U \in DOMAIN L \cap LargeSizes
  BY <1>1, ListFacts
<1>3. PICK y \in Chunks : y = L[U][j]
  BY <1>1, <1>2, ListFacts
<1>4. y \notin BasesOf(L)
  BY <1>2, <1>3, BasesAre
<1>5. size[y] = U /\ size[P] = S
  BY <1>2, <1>3 DEF Lists
<1>6. y # P
  BY <1>1, <1>2, <1>3, <1>5 DEF Lists
<1>7. k = 1 /\ Len(L[S]) # 1 => y # L[S][2]
  <2> SUFFICES ASSUME k = 1, Len(L[S]) # 1, y = L[S][2]
               PROVE  FALSE
    OBVIOUS
  <2>a. PICK n \in Nat : n = Len(L[S]) /\ n >= 1 /\ n # 1
    BY ListFacts
  <2>1. 2 \in 1 .. Len(L[S])
    BY <2>a
  <2>2. size[L[S][2]] = S
    BY <2>1 DEF Lists
  <2>3. U = S
    BY <1>5, <2>2
  <2>4. j \in 1 .. Len(L[S]) /\ L[S][j] = L[S][2] /\ j # 2
    BY <1>1, <1>2, <1>3, <2>3
  <2>5. QED
    BY <2>1, <2>4 DEF Lists
<1>8. child'[y] = child[y] /\ parent'[y] = parent[y]
  BY <1>4, <1>6, <1>7 DEF OnlyNodes
<1>9. QED
  BY <1>1, <1>2, <1>3, <1>8 DEF Chained

-----------------------------------------------------------------------------
(* Each change of the bins. *)

LEMMA GoodFacts ==
  ASSUME NEW L, NEW dp, Good(L, dp)
  PROVE  /\ TrieTypes /\ size \in [Chunks -> AllSizes \cup {0}]
         /\ BasesOf(L) \subseteq Chunks
         /\ \A x \in BasesOf(L) : size[x] \in LargeSizes /\ size[x] # 0
         /\ fd \in [Nodes -> Nodes \cup {Null}] /\ bk \in [Nodes -> Nodes \cup {Null}]
<1>1. TrieTypes /\ IsBases(BasesOf(L))
  BY DEF Good, Trie
<1>2. ASSUME NEW x \in BasesOf(L)
      PROVE  size[x] \in LargeSizes /\ size[x] # 0
  <2>1. size[x] \in LargeSizes
    BY <1>1 DEF IsBases
  <2>2. size[x] \in AllSizes
    BY <2>1 DEF LargeSizes
  <2>3. QED
    BY <2>1, <2>2, SizeFacts
<1>3. QED
  BY <1>1, <1>2 DEF TrieTypes, IsBases, Good, Links

(* A small bin is marked when it has a list. *)
LEMMA MarkOf ==
  ASSUME NEW L, NEW dp, Good(L, dp), NEW S \in SmallSizes
  PROVE  small_index(S) \in smallmap <=> S \in DOMAIN L
<1>1. \A U \in SmallSizes : small_index(U) = small_index(S) => U = S
  BY SmallSizeFacts
<1>2. QED
  BY <1>1 DEF Good, Marks

(* The bin of an added chunk is marked. *)
LEMMA MarksAdded ==
  ASSUME NEW L, NEW dp, Good(L, dp), NEW P \in Chunks, NEW S \in AllSizes, NEW L2, L2 = Added(L, P, S),
         smallmap' = IF is_small(S) THEN smallmap \cup {small_index(S)} ELSE smallmap
  PROVE  Marks(L2)'
<1>1. IsAdded(L, P, S, L2)
  BY AddedParts DEF Good
<1>2. DOMAIN L2 = DOMAIN L \cup {S} /\ (is_small(S) <=> S \in SmallSizes)
  BY <1>1, SizeFacts DEF IsAdded
<1>3. smallmap = {small_index(U) : U \in DOMAIN L \cap SmallSizes}
  BY DEF Good, Marks
<1>4. smallmap' = {small_index(U) : U \in DOMAIN L2 \cap SmallSizes}
  BY <1>2, <1>3
<1>5. QED
  BY <1>4 DEF Marks

(* The mark of a bin goes with its last chunk. *)
LEMMA MarksRemoved ==
  ASSUME NEW L, NEW dp, Good(L, dp), NEW S \in DOMAIN L, NEW k \in 1 .. Len(L[S]), NEW L2, L2 = Removed(L, S, k),
         smallmap' = IF is_small(S) /\ Len(L[S]) = 1 THEN smallmap \ {small_index(S)} ELSE smallmap
  PROVE  Marks(L2)'
<1>1. /\ (Len(L[S]) = 1 => DOMAIN L2 = DOMAIN L \ {S})
      /\ (Len(L[S]) # 1 => DOMAIN L2 = DOMAIN L)
  <2>1. IsRemoved(L, S, k, L2)
    BY RemovedParts DEF Good
  <2>2. QED
    BY <2>1 DEF IsRemoved
<1>2. smallmap = {small_index(U) : U \in DOMAIN L \cap SmallSizes}
  BY DEF Good, Marks
<1>3. S \in AllSizes /\ (is_small(S) <=> S \in SmallSizes)
  BY ListFacts, SizeFacts DEF Good
<1>4. smallmap' = {small_index(U) : U \in DOMAIN L2 \cap SmallSizes}
  <2>1. CASE is_small(S) /\ Len(L[S]) = 1
    <3>1. \A U \in SmallSizes : small_index(U) = small_index(S) <=> U = S
      BY <1>3, <2>1, SmallSizeFacts
    <3>2. QED
      BY <1>1, <1>2, <1>3, <2>1, <3>1
  <2>2. CASE ~is_small(S) /\ Len(L[S]) = 1
    <3>1. DOMAIN L2 \cap SmallSizes = DOMAIN L \cap SmallSizes
      BY <1>1, <1>3, <2>2
    <3>2. QED
      BY <1>2, <2>2, <3>1
  <2>3. CASE Len(L[S]) # 1
    BY <1>1, <1>2, <2>3
  <2>4. QED
    BY <2>1, <2>2, <2>3
<1>5. QED
  BY <1>4 DEF Marks

(* What an insertion has to keep. *)
LEMMA AddedIsGood ==
  ASSUME NEW L, NEW dp, Good(L, dp), NEW P \in Chunks, NEW S \in AllSizes, size[P] = 0,
         size' = [size EXCEPT ![P] = S], NEW L2, L2 = Added(L, P, S),
         Links(L2)', smallmap' = (IF is_small(S) THEN smallmap \cup {small_index(S)} ELSE smallmap),
         OnlyNodes(BasesOf(L), P),
         S \in DOMAIN L \cap LargeSizes => parent'[P] = Null /\ child'[P] = Large!NoChild,
         \E dp2 : Trie(BasesOf(L2), dp2)',
         workload' = workload, ~aborted'
  PROVE  \E dp2 : Good(L2, dp2)'
<1>1. PICK dp2 : Trie(BasesOf(L2), dp2)'
  OBVIOUS
<1>2. Lists(L2)'
  BY GoodFacts, AddedKeepsLists DEF Good
<1>3. Marks(L2)'
  BY MarksAdded
<1>4. Chained(L2)'
  BY ChainedAdded DEF Good
<1>5. QED
  BY <1>1, <1>2, <1>3, <1>4 DEF Good

(* What a removal has to keep. *)
LEMMA RemovedIsGood ==
  ASSUME NEW L, NEW dp, Good(L, dp), NEW S \in DOMAIN L, NEW k \in 1 .. Len(L[S]), NEW P, P = L[S][k],
         size' = [size EXCEPT ![P] = 0], NEW L2, L2 = Removed(L, S, k), Links(L2)',
         smallmap' = (IF is_small(S) /\ Len(L[S]) = 1 THEN smallmap \ {small_index(S)} ELSE smallmap),
         NEW Y, OnlyNodes(Y, P),
         \A y \in Y : y \in BasesOf(L) \/ (k = 1 /\ Len(L[S]) # 1 /\ y = L[S][2]),
         \E dp2 : Trie(BasesOf(L2), dp2)',
         workload' = workload, ~aborted'
  PROVE  \E dp2 : Good(L2, dp2)'
<1>1. PICK dp2 : Trie(BasesOf(L2), dp2)'
  OBVIOUS
<1>2. Lists(L2)'
  BY GoodFacts, RemovedKeepsLists DEF Good
<1>3. Marks(L2)'
  BY MarksRemoved
<1>4. Chained(L2)'
  BY ChainedRemoved DEF Good
<1>5. QED
  BY <1>1, <1>2, <1>3, <1>4 DEF Good

(* Small bins leave the tries alone. *)
LEMMA TreesUntouched ==
  ASSUME NEW L, NEW dp, Good(L, dp), UNCHANGED trees, NEW P \in Chunks \ BasesOf(L),
         NEW s \in AllSizes \cup {0}, size' = [size EXCEPT ![P] = s]
  PROVE  Trie(BasesOf(L), dp)' /\ \A Y : OnlyNodes(Y, P)
<1>1. /\ root' = root /\ treemap' = treemap /\ child' = child /\ parent' = parent
  BY DEF trees
<1>2. TrieTypes'
  BY <1>1, GoodFacts DEF TrieTypes
<1>3. \A y \in BasesOf(L) : size'[y] = size[y] /\ child'[y] = child[y] /\ parent'[y] = parent[y]
  BY <1>1, GoodFacts
<1>4. Trie(BasesOf(L), dp)
  BY DEF Good
<1>5. QED
  BY <1>1, <1>2, <1>3, <1>4, UntouchedKeepsTrie DEF OnlyNodes

(* insert_small_chunk adds a chunk to its list. *)
LEMMA SmallInsertIsGood ==
  ASSUME NEW L, NEW dp, Good(L, dp), NEW P \in Chunks, NEW S \in SmallSizes,
         Small!insert_small_chunk(P, S), UNCHANGED trees, workload' = workload,
         NEW L2, L2 = Added(L, P, S)
  PROVE  size[P] = 0 /\ \E dp2 : Good(L2, dp2)'
<1> DEFINE b == Bin(S)
<1>1. /\ S \in AllSizes /\ is_small(S) /\ b \in Nodes /\ b # Null /\ P \in Nodes /\ S \notin LargeSizes
  BY SmallSizeFacts DEF Nodes, LargeSizes
<1>2. PICK F : /\ F = (IF small_index(S) \in smallmap THEN fd[b] ELSE b)
               /\ size[P] = 0 /\ size' = [size EXCEPT ![P] = S]
               /\ smallmap' = smallmap \cup {small_index(S)}
               /\ fd' = [fd EXCEPT ![b] = P, ![P] = F]
               /\ bk' = [bk EXCEPT ![F] = P, ![P] = b]
               /\ aborted' = (aborted \/ F = Null)
  BY SmallIndex DEF Small!insert_small_chunk, Small!FirstOf, Small!smallmap_is_marked, Small!mark_smallmap,
       Small!NotBinned, Small!ok_address, Small!Payload, Bin
<1>3. small_index(S) \in smallmap <=> S \in DOMAIN L
  BY MarkOf
<1>4. Links(L2)' /\ F # Null
  <2>1. CASE S \in DOMAIN L
    <3>1. Ends(S, L[S]) = b
      <4>1. Len(L[S]) \in Nat
        BY <2>1, ListFacts DEF Good
      <4>2. QED
        BY <1>1, <4>1 DEF Ends, NodeAt, First
    <3>2. Links(L2)' /\ fd[b] \in Nodes
      BY <1>2, <1>3, <2>1, <3>1, JoinKeepsLinks DEF Good
    <3>3. QED
      BY <1>2, <1>3, <2>1, <3>2, NullIsNoNode
  <2>2. CASE S \notin DOMAIN L
    <3>1. F = b /\ b = IF is_small(S) THEN Bin(S) ELSE P
      BY <1>1, <1>2, <1>3, <2>2
    <3>2. Links(L2)'
      BY <1>1, <1>2, <2>2, <3>1, StartKeepsLinks DEF Good
    <3>3. QED
      BY <1>1, <3>1, <3>2
  <2>3. QED
    BY <2>1, <2>2
<1>5. P \notin BasesOf(L)
  BY <1>2, GoodFacts
<1>6. Trie(BasesOf(L), dp)' /\ OnlyNodes(BasesOf(L), P)
  BY <1>1, <1>2, <1>5, TreesUntouched
<1>7. BasesOf(L2) = BasesOf(L)
  BY <1>1, BasesAdded DEF Good
<1>8. \E dp2 : Trie(BasesOf(L2), dp2)'
  BY <1>6, <1>7
<1>9. ~aborted'
  BY <1>2, <1>4 DEF Good
<1>10. smallmap' = IF is_small(S) THEN smallmap \cup {small_index(S)} ELSE smallmap
  BY <1>1, <1>2
<1>11. QED
  BY <1>1, <1>2, <1>4, <1>6, <1>8, <1>9, <1>10, AddedIsGood

(* A chunk that leaves a small bin is removed from its list. *)
LEMMA SmallLeavesIsGood ==
  ASSUME NEW L, NEW dp, Good(L, dp), NEW S \in DOMAIN L \cap SmallSizes, NEW k \in 1 .. Len(L[S]),
         NEW P, P = L[S][k], size' = [size EXCEPT ![P] = 0],
         \/ /\ bk[P] = fd[P] /\ smallmap' = smallmap \ {small_index(S)}
            /\ fd' = [fd EXCEPT ![P] = Null] /\ bk' = [bk EXCEPT ![P] = Null]
         \/ /\ bk[P] # fd[P] /\ smallmap' = smallmap
            /\ fd' = [fd EXCEPT ![bk[P]] = fd[P], ![P] = Null]
            /\ bk' = [bk EXCEPT ![fd[P]] = bk[P], ![P] = Null],
         UNCHANGED trees, workload' = workload, ~aborted', NEW L2, L2 = Removed(L, S, k)
  PROVE  \E dp2 : Good(L2, dp2)'
<1>1. /\ S \in AllSizes /\ is_small(S) /\ P \in Chunks /\ P \in Nodes /\ S \notin LargeSizes
      /\ (bk[P] = fd[P] <=> Len(L[S]) = 1)
  BY SmallSizeFacts, Neighbours DEF Good, Nodes, LargeSizes
<1>2. P \notin BasesOf(L)
  BY <1>1, BasesAre DEF Good
<1>3. Trie(BasesOf(L), dp)' /\ OnlyNodes(BasesOf(L), P)
  BY <1>1, <1>2, TreesUntouched
<1>4. BasesOf(L2) = BasesOf(L)
  BY <1>1, BasesRemoved DEF Good
<1>5. \E dp2 : Trie(BasesOf(L2), dp2)'
  BY <1>3, <1>4
<1>6. smallmap' = IF is_small(S) /\ Len(L[S]) = 1 THEN smallmap \ {small_index(S)} ELSE smallmap
  BY <1>1
<1>7. Links(L2)'
  <2>1. CASE Len(L[S]) = 1
    <3>1. fd' = [fd EXCEPT ![P] = Null] /\ bk' = [bk EXCEPT ![P] = Null]
      BY <1>1, <2>1
    <3>2. /\ fd' \in [Nodes -> Nodes \cup {Null}] /\ bk' \in [Nodes -> Nodes \cup {Null}]
          /\ \A y \in Nodes \ {P} : fd'[y] = fd[y] /\ bk'[y] = bk[y]
      BY <3>1, <1>1, GoodFacts
    <3>3. k = 1
      BY <2>1
    <3>4. QED
      BY <2>1, <3>2, <3>3, LastKeepsLinks DEF Good
  <2>2. CASE Len(L[S]) # 1
    <3>1. /\ fd' = [fd EXCEPT ![bk[P]] = fd[P], ![P] = Null]
          /\ bk' = [bk EXCEPT ![fd[P]] = bk[P], ![P] = Null]
      BY <1>1, <2>2
    <3>2. QED
      BY <2>2, <3>1, LeaveKeepsLinks DEF Good
  <2>3. QED
    BY <2>1, <2>2
<1>8. \A y \in BasesOf(L) : y \in BasesOf(L) \/ (k = 1 /\ Len(L[S]) # 1 /\ y = L[S][2])
  OBVIOUS
<1>9. QED
  BY <1>3, <1>5, <1>6, <1>7, <1>8, RemovedIsGood

(* Where a chunk of a bin stands. *)
LEMMA PlaceOf ==
  ASSUME NEW L, Lists(L), NEW P \in Chunks, size[P] # 0
  PROVE  size[P] \in DOMAIN L /\ \E k \in 1 .. Len(L[size[P]]) : L[size[P]][k] = P
BY DEF Lists

(* unlink_small_chunk removes a chunk from its list. *)
LEMMA SmallUnlinkIsGood ==
  ASSUME NEW L, NEW dp, Good(L, dp), NEW P \in Chunks, NEW s, s = size[P], is_small(s),
         Small!unlink_small_chunk(P), UNCHANGED trees, workload' = workload
  PROVE  /\ s \in DOMAIN L
         /\ \E k \in 1 .. Len(L[s]) : L[s][k] = P /\ \E dp2 : Good(Removed(L, s, k), dp2)'
<1>1. size[P] # 0
  BY DEF Small!unlink_small_chunk, Small!NotBinned
<1>2. PICK S \in DOMAIN L : S = size[P] /\ S = s
  BY <1>1, PlaceOf DEF Good
<1>3. PICK k \in 1 .. Len(L[S]) : L[S][k] = P
  BY <1>1, <1>2, PlaceOf DEF Good
<1>4. S \in DOMAIN L \cap SmallSizes
  BY <1>2, ListFacts, SizeFacts DEF Good
<1>5. PICK F, B, b : F = fd[P] /\ B = bk[P] /\ b = Bin(S)
  OBVIOUS
<1>6. /\ size' = [size EXCEPT ![P] = 0]
      /\ aborted' = (aborted \/ ~(/\ F = b \/ (F # Null /\ bk[F] = P)
                                  /\ B = F \/ B = b \/ (B # Null /\ fd[B] = P)))
      /\ \/ /\ B = F
            /\ smallmap' = smallmap \ {small_index(S)}
            /\ fd' = [fd EXCEPT ![P] = Null] /\ bk' = [bk EXCEPT ![P] = Null]
         \/ /\ B # F
            /\ smallmap' = smallmap
            /\ fd' = [fd EXCEPT ![B] = F, ![P] = Null]
            /\ bk' = [bk EXCEPT ![F] = B, ![P] = Null]
  BY <1>2, <1>5, SmallIndex DEF Small!unlink_small_chunk, Small!UnlinkBetween, Small!OnlyChunk, Small!Bypass,
       Small!NotBinned, Small!ok_address, Small!Payload, Bin
<1>7. F \in Nodes /\ B \in Nodes /\ bk[F] = P /\ fd[B] = P
  BY <1>3, <1>5, Neighbours DEF Good
<1>8. ~aborted'
  BY <1>6, <1>7, NullIsNoNode DEF Good
<1>9. PICK L2 : L2 = Removed(L, S, k)
  OBVIOUS
<1>10. \E dp2 : Good(L2, dp2)'
  BY <1>3, <1>4, <1>5, <1>6, <1>8, <1>9, SmallLeavesIsGood
<1>11. QED
  BY <1>2, <1>3, <1>9, <1>10

(* The links of a bin that is in use. *)
LEMMA BinLinks ==
  ASSUME NEW L, Lists(L), Links(L), NEW S \in DOMAIN L \cap SmallSizes
  PROVE  fd[Bin(S)] = L[S][Len(L[S])] /\ bk[Bin(S)] = L[S][1]
<1>1. PICK n \in Nat : n = Len(L[S]) /\ n >= 1
  BY ListFacts
<1>2. PICK c : c = NodeAt(L[S], S)
  OBVIOUS
<1>3. First(S) = 0
  BY SmallSizeFacts DEF First
<1>4. IsRing(c, 0, n, fd, bk) /\ 0 \in 0 .. n /\ 1 \in 0 .. n /\ n \in 0 .. n
  BY <1>1, <1>2, <1>3 DEF Links, RingsOK
<1>5. \A i \in 0 .. n : c[i] = IF i = 0 THEN Bin(S) ELSE L[S][i]
  BY <1>1, <1>2, <1>3 DEF NodeAt
<1>6. bk[c[0]] = c[0 + 1] /\ fd[c[0]] = c[n]
  BY <1>1, <1>4 DEF IsRing
<1>7. QED
  BY <1>1, <1>4, <1>5, <1>6

(* unlink_first_small_chunk removes the last chunk of a list: the          *)
(* youngest first.                                                         *)
LEMMA MallocSmallIsGood ==
  ASSUME NEW L, NEW dp, Good(L, dp), NEW S \in DOMAIN L \cap SmallSizes,
         Small!unlink_first_small_chunk(small_index(S)), UNCHANGED trees, workload' = workload
  PROVE  Len(L[S]) \in 1 .. Len(L[S]) /\ \E dp2 : Good(Removed(L, S, Len(L[S])), dp2)'
<1>1. PICK n \in Nat : n = Len(L[S]) /\ n >= 1 /\ n \in 1 .. Len(L[S])
  BY ListFacts DEF Good
<1>2. PICK P, F, B : P = fd[Bin(S)] /\ F = fd[P] /\ B = Bin(S)
  OBVIOUS
<1>3. P = L[S][n] /\ size[P] = S
  <2>1. P = L[S][n]
    BY <1>1, <1>2, BinLinks DEF Good
  <2>2. QED
    BY <1>1, <2>1 DEF Good, Lists
<1>4. bk[P] = B /\ F \in Nodes /\ bk[F] = P
  <2>1. bk[P] = (IF n < Len(L[S]) THEN L[S][n + 1] ELSE Ends(S, L[S])) /\ F \in Nodes /\ bk[F] = P
    BY <1>1, <1>2, <1>3, Neighbours DEF Good
  <2>2. Ends(S, L[S]) = B
    BY <1>1, <1>2, SmallSizeFacts DEF Ends, NodeAt, First
  <2>3. QED
    BY <1>1, <2>1, <2>2
<1>5. /\ size' = [size EXCEPT ![P] = 0]
      /\ aborted' = (aborted \/ ~(B = F \/ (F # Null /\ bk[F] = P)))
      /\ \/ /\ B = F
            /\ smallmap' = smallmap \ {small_index(S)}
            /\ fd' = [fd EXCEPT ![P] = Null] /\ bk' = [bk EXCEPT ![P] = Null]
         \/ /\ B # F
            /\ smallmap' = smallmap
            /\ fd' = [fd EXCEPT ![B] = F, ![P] = Null]
            /\ bk' = [bk EXCEPT ![F] = B, ![P] = Null]
  BY <1>2, <1>3, SmallIndex DEF Small!unlink_first_small_chunk, Small!UnlinkBetween, Small!OnlyChunk, Small!Bypass,
       Small!NotBinned, Small!ok_address, Small!Payload, Bin
<1>6. ~aborted'
  BY <1>4, <1>5, NullIsNoNode DEF Good
<1>7. PICK L2 : L2 = Removed(L, S, n)
  OBVIOUS
<1>8. \E dp2 : Good(L2, dp2)'
  BY <1>1, <1>2, <1>3, <1>4, <1>5, <1>6, <1>7, SmallLeavesIsGood
<1>9. QED
  BY <1>1, <1>7, <1>8

(* insert_large_chunk adds a chunk to its list. *)
LEMMA LargeInsertIsGood ==
  ASSUME NEW L, NEW dp, Good(L, dp), NEW P \in Chunks, NEW S \in LargeSizes,
         Large!insert_large_chunk(P, S), smallmap' = smallmap, workload' = workload,
         NEW L2, L2 = Added(L, P, S)
  PROVE  size[P] = 0 /\ \E dp2 : Good(L2, dp2)'
<1>1. /\ S \in AllSizes /\ ~is_small(S) /\ P \in Nodes
  BY SizeFacts DEF LargeSizes, Nodes
<1>2. /\ size[P] = 0 /\ size' = [size EXCEPT ![P] = S] /\ aborted' = aborted
      /\ Large!InsertRoot(P, S) \/ Large!InsertLeaf(P, S) \/ Large!InsertChained(P, S)
  BY DEF Large!insert_large_chunk, Large!NotBinned
<1>3. PICK B : B = BasesOf(L)
  OBVIOUS
<1>4. Trie(B, dp) /\ P \in Chunks \ B
  BY <1>2, <1>3, GoodFacts DEF Good
<1>5. S \in DOMAIN L <=> \E y \in B : size[y] = S
  <2>1. ASSUME S \in DOMAIN L
        PROVE  L[S][1] \in B /\ size[L[S][1]] = S
    <3>1. 1 \in 1 .. Len(L[S])
      BY <2>1, ListFacts DEF Good
    <3>2. QED
      BY <1>3, <2>1, <3>1 DEF Good, Lists, BasesOf
  <2>2. ASSUME NEW y \in B, size[y] = S
        PROVE  S \in DOMAIN L
    <3>1. y \in Chunks /\ size[y] # 0
      BY <1>3, GoodFacts
    <3>2. QED
      BY <2>2, <3>1, PlaceOf DEF Good
  <2>3. QED
    BY <2>1, <2>2
<1>6. smallmap' = IF is_small(S) THEN smallmap \cup {small_index(S)} ELSE smallmap
  BY <1>1
<1>7. ~aborted'
  BY <1>2 DEF Good
<1>8. CASE Large!InsertRoot(P, S) \/ Large!InsertLeaf(P, S)
  <2>1. (\E dp2 : Trie(B \cup {P}, dp2)') /\ OnlyNodes(B, P) /\ \A y \in B : size[y] # S
    BY <1>2, <1>4, <1>8, InsertRootBuilds, InsertLeafBuilds
  <2>2. S \notin DOMAIN L
    BY <1>5, <2>1
  <2>3. BasesOf(L2) = B \cup {P}
    BY <1>1, <1>3, <2>2, BasesAdded DEF Good
  <2>4. \E dp2 : Trie(BasesOf(L2), dp2)'
    BY <2>1, <2>3
  <2>5. fd' = [fd EXCEPT ![P] = P] /\ bk' = [bk EXCEPT ![P] = P]
    BY <1>8 DEF Large!InsertRoot, Large!InsertLeaf, Large!NewRing
  <2>6. Links(L2)'
    <3>1. P = IF is_small(S) THEN Bin(S) ELSE P
      BY <1>1
    <3>2. fd' = [fd EXCEPT ![P] = P, ![P] = P] /\ bk' = [bk EXCEPT ![P] = P, ![P] = P]
      BY <2>5
    <3>3. QED
      BY <1>1, <1>2, <2>2, <3>1, <3>2, StartKeepsLinks DEF Good
  <2>7. QED
    BY <1>1, <1>2, <1>3, <1>6, <1>7, <2>1, <2>2, <2>4, <2>6, AddedIsGood
<1>9. CASE Large!InsertChained(P, S)
  <2>1. PICK T \in B : size[T] = S /\ Large!JoinRing(P, T)
    BY <1>2, <1>4, <1>9, InsertChainedBuilds
  <2>2. Trie(B, dp)' /\ OnlyNodes(B, P) /\ parent'[P] = Null /\ child'[P] = Large!NoChild
    BY <1>2, <1>4, <1>9, InsertChainedBuilds
  <2>3. S \in DOMAIN L
    BY <1>5, <2>1
  <2>4. BasesOf(L2) = B
    BY <1>1, <1>3, <2>3, BasesAdded DEF Good
  <2>5. \E dp2 : Trie(BasesOf(L2), dp2)'
    BY <2>2, <2>4
  <2>6. T = Ends(S, L[S])
    <3>1. PICK n \in Nat : n = Len(L[S]) /\ n >= 1
      BY <2>3, ListFacts DEF Good
    <3>2. Ends(S, L[S]) = L[S][1]
      BY <1>1, <3>1 DEF Ends, NodeAt, First
    <3>3. 1 \in 1 .. Len(L[S])
      BY <3>1
    <3>4. L[S][1] \in B /\ size[L[S][1]] = S
      BY <1>3, <2>3, <3>3 DEF Good, Lists, BasesOf
    <3>5. QED
      BY <1>4, <2>1, <3>2, <3>4 DEF Trie, IsBases
  <2>7. Links(L2)'
    <3>1. fd' = [fd EXCEPT ![T] = P, ![P] = fd[T]] /\ bk' = [bk EXCEPT ![fd[T]] = P, ![P] = T]
      BY <2>1 DEF Large!JoinRing
    <3>2. QED
      BY <1>2, <2>3, <2>6, <3>1, JoinKeepsLinks DEF Good
  <2>8. QED
    BY <1>1, <1>2, <1>3, <1>6, <1>7, <2>2, <2>5, <2>7, AddedIsGood
<1>10. QED
  BY <1>2, <1>8, <1>9

(* A node has a parent, or a bin for one. *)
LEMMA NodesHaveParents ==
  ASSUME NEW B, NEW dp, Trie(B, dp), NEW X \in B
  PROVE  parent[X] # Null
<1>1. Null \in MaybeChunk /\ Large!treebin_at(Index(X)) \notin MaybeChunk /\ \A p \in B : p # Null
  BY BaseFacts DEF Trie, MaybeChunk
<1>2. QED
  BY <1>1 DEF Trie, ParentsOK, IsRoot, Hangs

(* unlink_large_chunk removes a chunk from its list. *)
LEMMA LargeUnlinkIsGood ==
  ASSUME NEW L, NEW dp, Good(L, dp), NEW P \in Chunks, NEW s, s = size[P], ~is_small(s),
         Large!unlink_large_chunk(P), smallmap' = smallmap, workload' = workload
  PROVE  /\ s \in DOMAIN L
         /\ \E k \in 1 .. Len(L[s]) : L[s][k] = P /\ \E dp2 : Good(Removed(L, s, k), dp2)'
<1>1. /\ size[P] # 0 /\ size' = [size EXCEPT ![P] = 0]
      /\ Large!UnlinkFromRing(P) \/ Large!UnlinkLast(P) \/ Large!UnlinkReplaced(P)
      /\ fd' = [fd EXCEPT ![bk[P]] = fd[P], ![P] = Null]
      /\ bk' = [bk EXCEPT ![fd[P]] = bk[P], ![P] = Null]
      /\ aborted' = (aborted \/ (bk[P] # P /\ ~(bk[fd[P]] = P /\ fd[bk[P]] = P)))
  BY DEF Large!unlink_large_chunk, Large!NotBinned
<1>2. PICK S \in DOMAIN L : S = size[P] /\ S = s
  BY <1>1, PlaceOf DEF Good
<1>3. PICK k \in 1 .. Len(L[S]) : L[S][k] = P
  BY <1>1, <1>2, PlaceOf DEF Good
<1>4. S \in DOMAIN L \cap LargeSizes /\ S \notin SmallSizes
  BY <1>2, ListFacts, SizeFacts DEF Good
<1>5. PICK n \in Nat : n = Len(L[S]) /\ n >= 1 /\ k \in 1 .. n
  BY ListFacts DEF Good
<1>6. /\ bk[P] \in Chunks /\ fd[P] \in Chunks /\ bk[fd[P]] = P /\ fd[bk[P]] = P
      /\ n = 1 => bk[P] = P /\ fd[P] = P
      /\ n # 1 => bk[P] # P
      /\ bk[P] = IF k < n THEN L[S][k + 1] ELSE Ends(S, L[S])
  BY <1>2, <1>3, <1>5, Neighbours DEF Good
<1>7. ~aborted'
  BY <1>1, <1>6 DEF Good
<1>8. smallmap' = IF is_small(S) /\ Len(L[S]) = 1 THEN smallmap \ {small_index(S)} ELSE smallmap
  BY <1>2
<1>9. PICK L2 : L2 = Removed(L, S, k)
  OBVIOUS
<1>10. Links(L2)'
  <2>1. CASE n = 1
    <3>1. fd' = [fd EXCEPT ![P] = P, ![P] = Null] /\ bk' = [bk EXCEPT ![P] = P, ![P] = Null]
      BY <1>1, <1>6, <2>1
    <3>2. P \in Nodes /\ fd \in [Nodes -> Nodes \cup {Null}] /\ bk \in [Nodes -> Nodes \cup {Null}]
      BY GoodFacts DEF Nodes
    <3>3. /\ fd' \in [Nodes -> Nodes \cup {Null}] /\ bk' \in [Nodes -> Nodes \cup {Null}]
          /\ \A y \in Nodes \ {P} : fd'[y] = fd[y] /\ bk'[y] = bk[y]
      BY <3>1, <3>2
    <3>4. k = 1 /\ Len(L[S]) = 1
      BY <1>5, <2>1
    <3>5. QED
      BY <1>3, <1>9, <3>3, <3>4, LastKeepsLinks DEF Good
  <2>2. CASE n # 1
    BY <1>1, <1>3, <1>5, <1>9, <2>2, LeaveKeepsLinks DEF Good
  <2>3. QED
    BY <2>1, <2>2
<1>11. PICK B : B = BasesOf(L)
  OBVIOUS
<1>12. Trie(B, dp) /\ (P \in B <=> k = 1) /\ TrieTypes
  BY <1>3, <1>4, <1>11, BasesAre, GoodFacts DEF Good
<1>13. parent[P] = Null <=> k # 1
  <2>1. k = 1 => parent[P] # Null
    BY <1>12, NodesHaveParents
  <2>2. k # 1 => parent[P] = Null
    <3>1. k # 1 => k \in 2 .. Len(L[S])
      BY <1>5
    <3>2. QED
      BY <1>3, <1>4, <3>1 DEF Good, Chained
  <2>3. QED
    BY <2>1, <2>2
<1>14. /\ S \notin LargeSizes \/ k # 1 => BasesOf(L2) = B
       /\ S \in LargeSizes /\ k = 1 /\ Len(L[S]) = 1 => BasesOf(L2) = B \ {L[S][1]}
       /\ S \in LargeSizes /\ k = 1 /\ Len(L[S]) # 1 => BasesOf(L2) = (B \ {L[S][1]}) \cup {L[S][2]}
  BY <1>9, <1>11, BasesRemoved DEF Good
<1>15. CASE Large!UnlinkFromRing(P)
  <2>1. k # 1 /\ root' = root /\ treemap' = treemap /\ child' = child /\ parent' = parent
    BY <1>13, <1>15 DEF Large!UnlinkFromRing
  <2>2. P \in Chunks \ B
    BY <1>12, <2>1
  <2>3. Trie(B, dp)' /\ OnlyNodes(B, P)
    <3>1. UNCHANGED trees
      BY <2>1 DEF trees
    <3>2. QED
      BY <1>1, <1>11, <2>2, <3>1, TreesUntouched
  <2>4. \E dp2 : Trie(BasesOf(L2), dp2)'
    BY <1>14, <2>1, <2>3
  <2>5. \A y \in B : y \in BasesOf(L) \/ (k = 1 /\ Len(L[S]) # 1 /\ y = L[S][2])
    BY <1>11
  <2>6. \E dp2 : Good(L2, dp2)'
    BY <1>1, <1>3, <1>7, <1>8, <1>9, <1>10, <2>3, <2>4, <2>5, RemovedIsGood
  <2>7. QED
    BY <1>2, <1>3, <1>9, <2>6
<1>16. CASE Large!UnlinkLast(P)
  <2>1. k = 1 /\ P \in B
    BY <1>12, <1>13, <1>16 DEF Large!UnlinkLast
  <2>2. bk[P] # Null
    BY <1>6, BinsAssumption
  <2>3. bk[P] = P /\ (\E dp2 : Trie(B \ {P}, dp2)') /\ OnlyNodes(B, P)
    BY <1>1, <1>12, <1>16, <2>1, <2>2, UnlinkLastBuilds
  <2>4. n = 1
    BY <1>6, <2>3
  <2>5. BasesOf(L2) = B \ {P}
    BY <1>3, <1>4, <1>5, <1>14, <2>1, <2>4
  <2>6. \E dp2 : Trie(BasesOf(L2), dp2)'
    BY <2>3, <2>5
  <2>7. \A y \in B : y \in BasesOf(L) \/ (k = 1 /\ Len(L[S]) # 1 /\ y = L[S][2])
    BY <1>11
  <2>8. \E dp2 : Good(L2, dp2)'
    BY <1>1, <1>3, <1>7, <1>8, <1>9, <1>10, <2>3, <2>6, <2>7, RemovedIsGood
  <2>9. QED
    BY <1>2, <1>3, <1>9, <2>8
<1>17. CASE Large!UnlinkReplaced(P)
  <2>1. k = 1 /\ P \in B
    BY <1>12, <1>13, <1>17 DEF Large!UnlinkReplaced
  <2>2. PICK R : R = Large!Replacement(P)
    OBVIOUS
  <2>3. ASSUME bk[P] # P
        PROVE  n # 1 /\ 2 \in 1 .. n /\ 2 \in 2 .. n /\ R = L[S][2]
    <3>1. n # 1 /\ k < n
      BY <1>5, <1>6, <2>1, <2>3
    <3>2. R = bk[P]
      BY <2>2, <2>3 DEF Large!Replacement
    <3>3. QED
      BY <1>5, <1>6, <2>1, <3>1, <3>2
  <2>4. bk[P] # P => R \in Chunks \ B /\ size[R] = size[P] /\ child[R] = Large!NoChild
    <3> SUFFICES ASSUME bk[P] # P
                 PROVE  R \in Chunks \ B /\ size[R] = size[P] /\ child[R] = Large!NoChild
      OBVIOUS
    <3>1. R = L[S][2] /\ 2 \in 1 .. Len(L[S]) /\ 2 \in 2 .. Len(L[S])
      BY <1>5, <2>3
    <3>2. R \in Chunks /\ size[R] = S
      BY <3>1, ListFacts DEF Good, Lists
    <3>3. R \notin B
      BY <1>11, <3>1, BasesAre DEF Good
    <3>4. child[R] = Large!NoChild
      BY <1>4, <3>1 DEF Good, Chained
    <3>5. QED
      BY <1>2, <3>2, <3>3, <3>4
  <2>5. /\ \E dp2 : Trie((B \ {P}) \cup {R}, dp2)'
        /\ OnlyNodes(B \cup {R}, P)
        /\ bk[P] # P \/ R \in B
    BY <1>1, <1>12, <1>17, <2>1, <2>2, <2>4, UnlinkReplacedBuilds
  <2>6. BasesOf(L2) = (B \ {P}) \cup {R}
    <3>1. CASE bk[P] # P
      BY <1>3, <1>4, <1>5, <1>14, <2>1, <2>3, <3>1
    <3>2. CASE bk[P] = P
      <4>1. R \in B /\ n = 1
        BY <1>6, <2>5, <3>2
      <4>2. R # P
        <5>1. R = Large!ReplacementLeaf(P) /\ R # Null
          BY <1>17, <2>2, <3>2 DEF Large!Replacement, Large!UnlinkReplaced
        <5>2. QED
          BY <1>12, <2>1, <5>1, ReplacementIs
      <4>3. QED
        BY <1>3, <1>4, <1>5, <1>14, <2>1, <4>1, <4>2
    <3>3. QED
      BY <3>1, <3>2
  <2>7. \E dp2 : Trie(BasesOf(L2), dp2)'
    BY <2>5, <2>6
  <2>8. \A y \in B \cup {R} : y \in BasesOf(L) \/ (k = 1 /\ Len(L[S]) # 1 /\ y = L[S][2])
    BY <1>5, <1>11, <2>1, <2>3, <2>5
  <2>9. \E dp2 : Good(L2, dp2)'
    BY <1>1, <1>3, <1>7, <1>8, <1>9, <1>10, <2>5, <2>7, <2>8, RemovedIsGood
  <2>10. QED
    BY <1>2, <1>3, <1>9, <2>9
<1>18. QED
  BY <1>1, <1>15, <1>16, <1>17

-----------------------------------------------------------------------------
(* What the lists make of lists, rings, tries and maps.                    *)

LEMMA SmallNames ==
  /\ Small!Bins = {Bin(S) : S \in SmallSizes}
  /\ Small!Binned = {p \in Chunks : size[p] \in SmallSizes}
  /\ \A x : Small!BinOf(x) = IF x \in {Bin(S) : S \in SmallSizes} THEN x
                             ELSE Small!smallbin_at(small_index(size[x]))
<1>1. Small!Bins = {Bin(S) : S \in SmallSizes}
  BY SmallIndex DEF Small!Bins, Bin
<1>2. QED
  BY <1>1, SmallIndex DEF Small!Binned, Small!BinOf

(* The bins whose bit is set are those with a list. *)
LEMMA MarkedAre ==
  ASSUME NEW L, Marks(L)
  PROVE  Small!Marked = {Bin(S) : S \in DOMAIN L \cap SmallSizes}
BY DEF Small!Marked, Marks, Bin

(* What is linked into the list of a small bin, and what the list it is    *)
(* linked into is.                                                         *)
LEMMA SmallPlace ==
  ASSUME NEW L, Lists(L), Marks(L), size \in [Chunks -> AllSizes \cup {0}],
         NEW x \in Small!Binned \cup Small!Marked
  PROVE  \E S \in DOMAIN L \cap SmallSizes : \E i \in 0 .. Len(L[S]) : NodeAt(L[S], S)[i] = x
<1>1. CASE x \in Small!Binned
  <2>1. x \in Chunks /\ size[x] \in SmallSizes
    BY <1>1, SmallNames
  <2>2. PICK S \in SmallSizes : S = size[x]
    BY <2>1
  <2>3. S # 0 /\ is_small(S)
    BY SizeFacts, SmallSizeFacts
  <2>4. S \in DOMAIN L /\ \E k \in 1 .. Len(L[S]) : L[S][k] = x
    BY <2>1, <2>2, <2>3, PlaceOf
  <2>5. PICK k \in 1 .. Len(L[S]) : L[S][k] = x
    BY <2>4
  <2>6. PICK n \in Nat : n = Len(L[S])
    BY <2>4, ListFacts
  <2>7. k \in 0 .. n /\ First(S) = 0 /\ k # 0
    BY <2>3, <2>6 DEF First
  <2>8. NodeAt(L[S], S)[k] = x
    BY <2>5, <2>6, <2>7 DEF NodeAt
  <2>9. QED
    BY <2>4, <2>6, <2>7, <2>8
<1>2. CASE x \in Small!Marked
  <2>1. PICK S \in DOMAIN L \cap SmallSizes : x = Bin(S)
    BY <1>2, MarkedAre
  <2>2. PICK n \in Nat : n = Len(L[S])
    BY ListFacts
  <2>3. 0 \in 0 .. n /\ First(S) = 0
    BY SmallSizeFacts DEF First
  <2>4. NodeAt(L[S], S)[0] = x
    BY <2>1, <2>2, <2>3 DEF NodeAt
  <2>5. QED
    BY <2>2, <2>3, <2>4
<1>3. QED
  BY <1>1, <1>2

(* What stands in the ring of a small bin is linked into it. *)
LEMMA PlaceIsSmall ==
  ASSUME NEW L, Lists(L), Marks(L), NEW S \in DOMAIN L \cap SmallSizes, NEW i \in 0 .. Len(L[S]),
         NEW x, x = NodeAt(L[S], S)[i]
  PROVE  x \in Small!Binned \cup Small!Marked /\ Small!BinOf(x) = Bin(S)
<1>1. PICK n \in Nat : n = Len(L[S])
  BY ListFacts
<1>2. First(S) = 0
  BY SmallSizeFacts DEF First
<1>3. x = IF i = 0 THEN Bin(S) ELSE L[S][i]
  BY <1>1, <1>2 DEF NodeAt
<1>4. CASE i = 0
  BY <1>3, <1>4, MarkedAre, SmallNames
<1>5. CASE i # 0
  <2>1. i \in 1 .. Len(L[S]) /\ x = L[S][i]
    BY <1>1, <1>3, <1>5
  <2>2. x \in Chunks /\ size[x] = S
    BY <2>1, ListFacts DEF Lists
  <2>3. x \notin {Bin(U) : U \in SmallSizes}
    BY <2>2, SmallSizeFacts
  <2>4. QED
    BY <2>2, <2>3, SmallNames DEF Bin
<1>6. QED
  BY <1>4, <1>5

(* The lists of the small bins are linked both ways. *)
LEMMA GoodIsLinked ==
  ASSUME NEW L, NEW dp, Good(L, dp)
  PROVE  Small!Linked
<1> SUFFICES ASSUME NEW x \in Small!Binned \cup Small!Marked
             PROVE  /\ fd[x] \in Small!Binned \cup Small!Marked /\ bk[fd[x]] = x
                    /\ Small!BinOf(fd[x]) = Small!BinOf(x)
                    /\ bk[x] \in Small!Binned \cup Small!Marked /\ fd[bk[x]] = x
                    /\ Small!BinOf(bk[x]) = Small!BinOf(x)
  BY DEF Small!Linked
<1>1. Lists(L) /\ Marks(L) /\ size \in [Chunks -> AllSizes \cup {0}]
  BY GoodFacts DEF Good
<1>2. PICK S \in DOMAIN L \cap SmallSizes : \E i \in 0 .. Len(L[S]) : NodeAt(L[S], S)[i] = x
  BY <1>1, SmallPlace
<1>3. PICK n \in Nat : n = Len(L[S])
  BY <1>1, ListFacts
<1>4. PICK i \in 0 .. n : NodeAt(L[S], S)[i] = x
  BY <1>2, <1>3
<1>5. First(S) = 0
  BY SmallSizeFacts DEF First
<1>6. PICK c : c = NodeAt(L[S], S)
  OBVIOUS
<1>7. IsRing(c, 0, n, fd, bk)
  BY <1>3, <1>5, <1>6 DEF Good, Links, RingsOK
<1>8. PICK j \in 0 .. n : j = IF i = n THEN 0 ELSE i + 1
  OBVIOUS
<1>9. PICK k \in 0 .. n : k = IF i = 0 THEN n ELSE i - 1
  OBVIOUS
<1>10. bk[x] = c[j] /\ fd[x] = c[k]
  BY <1>4, <1>6, <1>7, <1>8, <1>9 DEF IsRing
<1>11. i = (IF k = n THEN 0 ELSE k + 1) /\ i = (IF j = 0 THEN n ELSE j - 1)
  BY <1>8, <1>9
<1>12. bk[c[k]] = x /\ fd[c[j]] = x
  BY <1>4, <1>6, <1>7, <1>11 DEF IsRing
<1>13. /\ c[k] \in Small!Binned \cup Small!Marked /\ Small!BinOf(c[k]) = Bin(S)
       /\ c[j] \in Small!Binned \cup Small!Marked /\ Small!BinOf(c[j]) = Bin(S)
       /\ Small!BinOf(x) = Bin(S)
  BY <1>1, <1>3, <1>4, <1>6, PlaceIsSmall
<1>14. QED
  BY <1>10, <1>12, <1>13

(* The bit of a small bin is set when a chunk is in it. *)
LEMMA GoodIsMarked ==
  ASSUME NEW L, NEW dp, Good(L, dp)
  PROVE  Small!MarkedIffUsed
<1>1. Lists(L) /\ Marks(L) /\ size \in [Chunks -> AllSizes \cup {0}]
  BY GoodFacts DEF Good
<1>2. ASSUME NEW x \in Small!Marked
      PROVE  \E p \in Small!Binned : x = Small!BinOf(p)
  <2>1. PICK S \in DOMAIN L \cap SmallSizes : x = Bin(S)
    BY <1>1, MarkedAre
  <2>2. PICK n \in Nat : n = Len(L[S]) /\ 1 \in 0 .. n /\ 1 \in 1 .. n
    BY <1>1, ListFacts
  <2>3. PICK p : p = NodeAt(L[S], S)[1]
    OBVIOUS
  <2>4. Small!BinOf(p) = Bin(S)
    BY <1>1, <2>2, <2>3, PlaceIsSmall
  <2>5. First(S) = 0
    BY SmallSizeFacts DEF First
  <2>6. p = L[S][1]
    BY <2>2, <2>3, <2>5 DEF NodeAt
  <2>7. p \in Chunks /\ size[p] = S
    BY <1>1, <2>2, <2>6, ListFacts DEF Lists
  <2>8. QED
    BY <2>1, <2>4, <2>7, SmallNames
<1>3. ASSUME NEW p \in Small!Binned
      PROVE  Small!BinOf(p) \in Small!Marked
  <2>1. PICK S \in DOMAIN L \cap SmallSizes : \E i \in 0 .. Len(L[S]) : NodeAt(L[S], S)[i] = p
    BY <1>1, SmallPlace
  <2>2. Small!BinOf(p) = Bin(S)
    BY <1>1, <2>1, PlaceIsSmall
  <2>3. QED
    BY <1>1, <2>2, MarkedAre
<1>4. \A x : x \in Small!Marked <=> x \in {Small!BinOf(p) : p \in Small!Binned}
  BY <1>2, <1>3
<1>5. QED
  BY <1>4 DEF Small!MarkedIffUsed

(* The chunks that are nodes of tries are the first of the lists. *)
LEMMA GoodBases ==
  ASSUME NEW L, NEW dp, Good(L, dp)
  PROVE  /\ Large!Binned = {x \in Chunks : size[x] \in LargeSizes}
         /\ Large!Bases = BasesOf(L)
<1>1. Lists(L) /\ Chained(L) /\ Trie(BasesOf(L), dp)
  BY DEF Good
<1>2. Large!Binned = {x \in Chunks : size[x] \in LargeSizes}
  BY DEF Large!Binned
<1>3. ASSUME NEW x \in BasesOf(L)
      PROVE  x \in Chunks /\ size[x] \in LargeSizes /\ parent[x] # Null
  BY <1>1, GoodFacts, NodesHaveParents
<1>4. ASSUME NEW x \in Chunks, size[x] \in LargeSizes, parent[x] # Null
      PROVE  x \in BasesOf(L)
  <2>1. PICK S \in LargeSizes : S = size[x]
    BY <1>4
  <2>2. S # 0
    BY SizeFacts DEF LargeSizes
  <2>3. S \in DOMAIN L /\ \E k \in 1 .. Len(L[S]) : L[S][k] = x
    BY <1>1, <2>1, <2>2, PlaceOf
  <2>4. PICK k \in 1 .. Len(L[S]) : L[S][k] = x
    BY <2>3
  <2>5. PICK n \in Nat : n = Len(L[S])
    BY <1>1, <2>3, ListFacts
  <2>6. k = 1
    <3>1. k # 1 => k \in 2 .. Len(L[S])
      BY <2>5
    <3>2. QED
      BY <1>1, <1>4, <2>3, <2>4, <3>1 DEF Chained
  <2>7. QED
    BY <2>3, <2>4, <2>6 DEF BasesOf
<1>5. \A x : x \in Large!Bases <=> x \in BasesOf(L)
  BY <1>2, <1>3, <1>4 DEF Large!Bases
<1>6. QED
  BY <1>2, <1>5

(* The chunks of a large size are a ring of Chunks, and one is its base. *)
LEMMA GoodRings ==
  ASSUME NEW L, NEW dp, Good(L, dp), NEW x \in Large!Binned
  PROVE  /\ fd[x] \in Large!Binned /\ bk[fd[x]] = x /\ size[fd[x]] = size[x]
         /\ size[x] \in DOMAIN L
         /\ {y \in Large!Bases : size[y] = size[x]} = {L[size[x]][1]}
         /\ x \notin Large!Bases => child[x] = Large!NoChild
<1>1. Lists(L) /\ Links(L) /\ Chained(L) /\ Trie(BasesOf(L), dp)
  BY DEF Good
<1>2. x \in Chunks /\ size[x] \in LargeSizes
  BY GoodBases
<1>3. PICK S \in LargeSizes : S = size[x]
  BY <1>2
<1>4. S # 0 /\ S \in AllSizes /\ ~is_small(S)
  BY SizeFacts DEF LargeSizes
<1>5. S \in DOMAIN L /\ \E k \in 1 .. Len(L[S]) : L[S][k] = x
  BY <1>1, <1>2, <1>3, <1>4, PlaceOf
<1>6. PICK k \in 1 .. Len(L[S]) : L[S][k] = x
  BY <1>5
<1>7. PICK n \in Nat : n = Len(L[S]) /\ n >= 1 /\ n \in 1 .. n /\ 1 \in 1 .. n
  BY <1>1, <1>5, ListFacts
<1>8. PICK F : F = fd[x]
  OBVIOUS
<1>9. bk[F] = x /\ F = IF k > 1 THEN L[S][k - 1] ELSE L[S][n]
  BY <1>1, <1>4, <1>5, <1>6, <1>7, <1>8, Neighbours
<1>10. F \in Chunks /\ size[F] = S
  <2>1. PICK j \in 1 .. n : F = L[S][j]
    BY <1>7, <1>9
  <2>2. QED
    BY <1>1, <1>5, <1>7, <2>1, ListFacts DEF Lists
<1>11. \A y : y \in {z \in Large!Bases : size[z] = S} <=> y = L[S][1]
  <2>1. L[S][1] \in BasesOf(L) /\ size[L[S][1]] = S
    BY <1>1, <1>3, <1>5, <1>7, BasesAre DEF Lists
  <2>2. \A y \in BasesOf(L) : size[y] = S => y = L[S][1]
    BY <1>1, <2>1 DEF Trie, IsBases
  <2>3. QED
    BY <2>1, <2>2, GoodBases
<1>12. x \notin Large!Bases => child[x] = Large!NoChild
  <2>1. k = 1 => x \in Large!Bases
    BY <1>1, <1>5, <1>6, GoodBases, BasesAre
  <2>2. k # 1 => k \in 2 .. Len(L[S])
    BY <1>7
  <2>3. k # 1 => child[x] = Large!NoChild
    BY <1>1, <1>5, <1>6, <2>2 DEF Chained
  <2>4. QED
    BY <2>1, <2>3
<1>13. {z \in Large!Bases : size[z] = S} = {L[S][1]}
  BY <1>11
<1>14. QED
  BY <1>3, <1>5, <1>8, <1>9, <1>10, <1>12, <1>13, GoodBases

(* Parents and children point at each other, and the left child is smaller. *)
LEMMA GoodTries ==
  ASSUME NEW L, NEW dp, Good(L, dp), NEW x \in Large!Bases
  PROVE  /\ \A c \in 0 .. 1 : child[x][c] # Null =>
              child[x][c] \in Large!Bases /\ parent[child[x][c]] = x
         /\ IF parent[x] = Large!treebin_at(Large!index(x)) THEN root[Large!index(x)] = x
            ELSE parent[x] \in Large!Bases /\ x \in {child[parent[x]][0], child[parent[x]][1]}
         /\ Null \notin {child[x][0], child[x][1]} => size[child[x][0]] < size[child[x][1]]
<1>1. PICK B : B = Large!Bases /\ Trie(B, dp)
  BY GoodBases DEF Good
<1>2. x \in B /\ IsBases(B) /\ TrieTypes
  BY <1>1 DEF Trie
<1>3. Large!index(x) = Index(x)
  BY TreeIndex DEF Large!index, Index
<1>4. \A c \in 0 .. 1 : child[x][c] # Null => child[x][c] \in B /\ parent[child[x][c]] = x
  BY <1>1, <1>2 DEF Trie, ChildrenOK
<1>5. IF parent[x] = Large!treebin_at(Index(x)) THEN root[Index(x)] = x
      ELSE parent[x] \in B /\ x \in {child[parent[x]][0], child[parent[x]][1]}
  <2>1. CASE IsRoot(x, dp)
    BY <2>1 DEF IsRoot
  <2>2. CASE Hangs(x, B, dp)
    <3>1. PICK p \in B : p = parent[x]
      BY <2>2 DEF Hangs
    <3>2. p # Large!treebin_at(Index(x))
      <4>1. p \in MaybeChunk
        BY <1>2 DEF IsBases, MaybeChunk
      <4>2. Large!treebin_at(Index(x)) \notin MaybeChunk
        BY <1>2, BaseFacts
      <4>3. QED
        BY <4>1, <4>2
    <3>3. child[p][Turn(size[x], dp[p])] = x /\ dp[p] \in Nat
      BY <1>1, <2>2, <3>1, AtDepth DEF Hangs
    <3>4. Turn(size[x], dp[p]) \in 0 .. 1
      BY <1>2, <3>3, BaseFacts, TurnIsABit
    <3>5. Turn(size[x], dp[p]) = 0 \/ Turn(size[x], dp[p]) = 1
      BY <3>4
    <3>6. QED
      BY <3>1, <3>2, <3>3, <3>5
  <2>3. QED
    BY <1>1, <1>2, <2>1, <2>2 DEF Trie, ParentsOK
<1>6. ASSUME child[x][0] # Null, child[x][1] # Null
      PROVE  size[child[x][0]] < size[child[x][1]]
  <2>1. PICK y, z : y = child[x][0] /\ z = child[x][1]
    OBVIOUS
  <2>2. /\ y \in B /\ Index(y) = Index(x) /\ Agree(y, x, dp[x]) /\ Turn(size[y], dp[x]) = 0
        /\ z \in B /\ Index(z) = Index(x) /\ Agree(z, x, dp[x]) /\ Turn(size[z], dp[x]) = 1
    <3>1. 0 \in 0 .. 1 /\ 1 \in 0 .. 1
      OBVIOUS
    <3>2. QED
      BY <1>1, <1>2, <1>6, <2>1, <3>1, ChildFacts
  <2>3. dp[x] \in Nat /\ IsLarge(size[y]) /\ IsLarge(size[z])
    BY <1>1, <1>2, <2>2, AtDepth, BaseFacts
  <2>4. \A e \in 0 .. dp[x] - 1 : Turn(size[y], e) = Turn(size[z], e)
    BY <2>2 DEF Agree
  <2>5. compute_tree_index(size[y]) = compute_tree_index(size[z])
    BY <2>2 DEF Index
  <2>6. QED
    BY <2>1, <2>2, <2>3, <2>4, <2>5, TurnsOrderSizes
<1>7. QED
  BY <1>1, <1>3, <1>4, <1>5, <1>6

(* A bin is marked exactly when a chunk is in it. *)
LEMMA GoodMap ==
  ASSUME NEW L, NEW dp, Good(L, dp)
  PROVE  /\ treemap = {i \in Large!TreeIndices : root[i] # Null}
         /\ treemap = {Large!index(x) : x \in Large!Binned}
         /\ treemap = {Index(x) : x \in BasesOf(L)}
<1>1. PICK B : B = BasesOf(L) /\ Trie(B, dp)
  BY DEF Good
<1>2. IsBases(B) /\ TrieTypes
  BY <1>1 DEF Trie
<1>3. treemap = {i \in Indices : root[i] # Null} /\ Large!TreeIndices = Indices
  BY <1>2, TreeIndex DEF TrieTypes, Large!TreeIndices, Indices
<1>4. \A i \in Indices : root[i] # Null => root[i] \in B /\ Index(root[i]) = i
  BY <1>1 DEF Trie, RootsOK
<1>5. ASSUME NEW x \in B
      PROVE  Index(x) \in Indices /\ root[Index(x)] # Null
  <2>1. 0 \in 0 .. dp[x]
    BY <1>1, AtDepth
  <2>2. PICK a \in B : Index(a) = Index(x) /\ dp[a] = 0
    BY <1>1, <2>1, AncestorAt
  <2>3. root[Index(a)] = a /\ a # Null /\ Index(a) \in Indices
    BY <1>1, <1>2, <2>2, AtDepth, BaseFacts DEF IsRoot
  <2>4. QED
    BY <2>2, <2>3
<1>6. \A i : i \in treemap <=> i \in {Index(x) : x \in B}
  BY <1>3, <1>4, <1>5
<1>7. B \subseteq Large!Binned
  BY <1>1, <1>2, GoodBases DEF IsBases
<1>8. ASSUME NEW x \in Large!Binned
      PROVE  \E b \in B : size[b] = size[x]
  <2>1. {y \in Large!Bases : size[y] = size[x]} = {L[size[x]][1]}
    BY GoodRings
  <2>2. QED
    BY <1>1, <2>1, GoodBases
<1>9. \A i : i \in {Index(x) : x \in B} <=> i \in {Index(x) : x \in Large!Binned}
  BY <1>7, <1>8 DEF Index
<1>10. {Large!index(x) : x \in Large!Binned} = {Index(x) : x \in Large!Binned}
  BY TreeIndex DEF Large!index, Index
<1>11. treemap = {Index(x) : x \in B} /\ treemap = {Index(x) : x \in Large!Binned}
  BY <1>6, <1>9
<1>12. QED
  BY <1>1, <1>3, <1>10, <1>11

(* do_check_tree finds nothing wrong. *)
LEMMA GoodIsWellFormed ==
  ASSUME NEW L, NEW dp, Good(L, dp)
  PROVE  Large!WellFormed
<1>1. ASSUME NEW x \in Large!Binned
      PROVE  Large!Cardinality({y \in Large!Bases : size[y] = size[x]}) = 1
  <2>1. PICK z : {y \in Large!Bases : size[y] = size[x]} = {z}
    <3>1. {y \in Large!Bases : size[y] = size[x]} = {L[size[x]][1]}
      BY GoodRings, Zenon
    <3>2. QED
      BY <3>1, Zenon
  <2>2. Cardinality({z}) = 1
    BY FS_Singleton
  <2>3. QED
    BY <2>1, <2>2 DEF Cardinality, Large!Cardinality
<1>2. QED
  BY <1>1, GoodRings, GoodTries, GoodMap DEF Large!WellFormed

(* The bits of every size lead to its node: Path finds it. *)
LEMMA GoodIsFindable ==
  ASSUME NEW L, NEW dp, Good(L, dp)
  PROVE  Large!Findable
<1> SUFFICES ASSUME NEW x \in Large!Binned,
                    NEW at, at = Large!Path(size[x])
             PROVE  size[at[Large!LastDepth(at)]] = size[x]
  BY DEF Large!Findable
<1>1. {y \in Large!Bases : size[y] = size[x]} = {L[size[x]][1]}
  BY GoodRings
<1>2. PICK b \in BasesOf(L) : size[b] = size[x]
  BY <1>1, GoodBases
<1>3. Trie(BasesOf(L), dp)
  BY DEF Good
<1>4. PICK S \in LargeSizes : S = size[x]
  BY GoodBases
<1>5. compute_tree_index(S) \in treemap
  BY <1>2, <1>4, GoodMap DEF Index
<1>6. PICK d, t : d = Large!LastDepth(at) /\ t = at[d]
  OBVIOUS
<1>7. \A y \in BasesOf(L) : size[y] = S => y = t
  BY <1>3, <1>4, <1>5, <1>6, PathEnds
<1>8. QED
  BY <1>2, <1>4, <1>6, <1>7

(* Bins that hold lists are as do_check_smallbin and do_check_treebin want them. *)
LEMMA GoodIsWellLinked ==
  ASSUME NEW L, NEW dp, Good(L, dp)
  PROVE  WellLinked
BY GoodIsLinked, GoodIsMarked, GoodIsWellFormed, GoodIsFindable DEF WellLinked, Good

(* Empty bins hold no lists. *)
LEMMA EmptyIsGood ==
  ASSUME Init
  PROVE  \E L, dp : Good(L, dp) /\ DOMAIN L = {}
<1> DEFINE L == [S \in {} |-> <<>>]
           dp == [x \in Chunks |-> 0]
<1>1. DOMAIN L = {} /\ BasesOf(L) = {}
  BY DEF BasesOf
<1>2. /\ fd = Small!init_bins /\ bk = Small!init_bins /\ smallmap = {} /\ Large!treebins_empty
      /\ size = [x \in Chunks |-> 0] /\ workload \in Workloads /\ ~aborted
  BY DEF Init
<1>3. Lists(L)
  BY <1>1, <1>2 DEF Lists
<1>4. fd \in [Nodes -> Nodes \cup {Null}] /\ bk \in [Nodes -> Nodes \cup {Null}]
  <2>1. Small!Nodes = Nodes
    BY SmallNames DEF Small!Nodes, Nodes
  <2>2. Small!init_bins \in [Nodes -> Nodes \cup {Null}]
    BY <2>1 DEF Small!init_bins, Small!Payload
  <2>3. QED
    BY <1>2, <2>2
<1>5. Links(L) /\ Marks(L) /\ Chained(L)
  BY <1>1, <1>2, <1>4 DEF Links, RingsOK, Marks, Chained
<1>6. Trie(BasesOf(L), dp)
  <2>1. Large!TreeIndices = Indices
    BY TreeIndex DEF Large!TreeIndices, Indices
  <2>2. /\ root = [i \in Indices |-> Null] /\ treemap = {}
        /\ child = [x \in Chunks |-> Large!NoChild] /\ parent = [x \in Chunks |-> Null]
    BY <1>2, <2>1 DEF Large!treebins_empty
  <2>3. Large!NoChild \in [0 .. 1 -> MaybeChunk]
    BY DEF Large!NoChild, MaybeChunk
  <2>4. TrieTypes
    BY <1>2, <2>2, <2>3 DEF TrieTypes, MaybeChunk
  <2>5. QED
    BY <1>1, <2>2, <2>4 DEF Trie, IsBases, ParentsOK, ChildrenOK, RootsOK
<1>7. Good(L, dp)
  BY <1>2, <1>3, <1>5, <1>6 DEF Good
<1>8. QED
  BY <1>1, <1>7

-----------------------------------------------------------------------------
(* The searches of the tries.                                              *)

(* A function defined by its previous value takes the steps of a loop.     *)
LEMMA WalkIs ==
  ASSUME NEW N \in Nat, NEW V, NEW v \in V, NEW step \in [1 .. N -> [V -> V]],
         NEW g, g = [n \in 0 .. N |-> g[n]], g[0] = v,
         \A n \in 1 .. N : g[n - 1] \in V => g[n] = step[n][g[n - 1]]
  PROVE  Walks(g, N, V, v, step)
<1> DEFINE T == {n \in Nat : n <= N => g[n] \in V}
<1>1. 0 \in T
  OBVIOUS
<1>2. ASSUME NEW n \in Nat, n \in T
      PROVE  n + 1 \in T
  <2> SUFFICES ASSUME n + 1 <= N
               PROVE  g[n + 1] \in V
    OBVIOUS
  <2>1. n + 1 \in 1 .. N /\ (n + 1) - 1 = n /\ g[n] \in V
    BY <1>2
  <2>2. g[n + 1] = step[n + 1][g[n]]
    BY <2>1
  <2>3. QED
    BY <2>1, <2>2
<1>3. Nat \subseteq T
  <2> HIDE DEF T
  <2>1. QED
    BY <1>1, <1>2, Induction
<1>4. \A n \in 0 .. N : g[n] \in V
  BY <1>3
<1>5. \A n \in 1 .. N : n - 1 \in 0 .. N
  OBVIOUS
<1>6. g \in [0 .. N -> V]
  <2> HIDE DEF T
  <2>1. QED
    BY <1>4
<1>7. \A n \in 1 .. N : g[n] = step[n][g[n - 1]]
  <2> HIDE DEF T
  <2>1. QED
    BY <1>4, <1>5
<1>8. QED
  BY <1>6, <1>7 DEF Walks

(* What a search knows: where it stands, the best chunk so far and how     *)
(* much of it would be left over, and the subtree it may come back to.     *)
State == [t : MaybeChunk, v : MaybeChunk, rsize : Nat, rst : MaybeChunk, found : BOOLEAN]

(* The best so far is a node that fits, and rsize is what it would leave. *)
Sound(s, nb, B) ==
  \/ s.v = Null /\ s.rsize = WordSize - nb
  \/ s.v \in B /\ size[s.v] >= nb /\ s.rsize = size[s.v] - nb

(* z is no better than what has been found. *)
Beaten(s, z, nb) == size[z] >= nb => (s.v # Null /\ size[s.v] <= size[z])

(* Differences of sizes as size_t. *)
LEMMA WordOfDifference ==
  ASSUME NEW a \in Nat, a < WordSize, NEW b \in Nat, b < WordSize, b > 0
  PROVE  /\ Large!Word(a - b) = IF a >= b THEN a - b ELSE a - b + WordSize
         /\ Large!Word(-b) = WordSize - b
         /\ WordSize \in Nat
<1>1. WordSize \in Nat /\ \A x : Large!Word(x) = x % WordSize
  BY WordAssumption DEF Large!Word
<1>2. ASSUME a >= b
      PROVE  (a - b) % WordSize = a - b
  BY <1>1, <1>2
<1>3. ASSUME a < b
      PROVE  (a - b) % WordSize = a - b + WordSize
  BY <1>1, <1>3
<1>4. (-b) % WordSize = WordSize - b
  BY <1>1
<1>5. QED
  BY <1>1, <1>2, <1>3, <1>4

(* The fields of what a search knows. *)
LEMMA StateFields ==
  ASSUME NEW s \in State
  PROVE  /\ s.t \in MaybeChunk /\ s.v \in MaybeChunk /\ s.rsize \in Nat
         /\ s.rst \in MaybeChunk /\ s.found \in BOOLEAN
BY DEF State

(* A node that leaves less than the best so far is the new best.           *)
LEMMA BetterIs ==
  ASSUME NEW B, NEW dp, Trie(B, dp), NEW nb, IsChunkSize(nb), NEW s \in State, s.t \in B,
         Sound(s, nb, B), NEW r, r = Large!Better(s, nb)
  PROVE  /\ r \in State /\ r.t = s.t /\ r.rst = s.rst /\ r.found = s.found
         /\ Sound(r, nb, B) /\ Beaten(r, s.t, nb)
         /\ \A z \in B : Beaten(s, z, nb) => Beaten(r, z, nb)
         /\ r.v = s.v \/ r.v = s.t
         /\ r.rsize = 0 => r.v \in B /\ size[r.v] = nb
<1>1. /\ nb \in Nat /\ nb > 0 /\ nb < WordSize /\ WordSize \in Nat
      /\ \A y \in B : size[y] \in Nat /\ size[y] < WordSize /\ size[y] > 0 /\ y # Null /\ y \in MaybeChunk
  <2>1. \A y \in B : IsLarge(size[y]) /\ y \in Chunks /\ y # Null
    BY BaseFacts DEF Trie
  <2>2. QED
    BY <2>1, WordAssumption DEF IsLarge, IsChunkSize, MaybeChunk
<1>2. PICK t, v : t = s.t /\ v = s.v /\ t \in B /\ t # Null
  BY <1>1
<1>3. PICK x \in Nat : x = size[t] /\ x < WordSize
  BY <1>1, <1>2
<1>4. PICK trem : trem = IF x >= nb THEN x - nb ELSE x - nb + WordSize
  OBVIOUS
<1>5. trem \in Nat
  BY <1>1, <1>3, <1>4
<1>6. r = IF trem < s.rsize THEN [[s EXCEPT !.v = t] EXCEPT !.rsize = trem] ELSE s
  <2>1. Large!Word(x - nb) = trem
    BY <1>1, <1>3, <1>4, WordOfDifference
  <2>2. r = IF trem < s.rsize THEN [s EXCEPT !.v = t, !.rsize = trem] ELSE s
    BY <1>2, <1>3, <2>1 DEF Large!Better
  <2>3. QED
    BY <2>2 DEF State
<1>7. CASE trem < s.rsize
  <2>1. r \in State /\ r.t = s.t /\ r.rst = s.rst /\ r.found = s.found /\ r.v = t /\ r.rsize = trem
    BY <1>1, <1>2, <1>5, <1>6, <1>7 DEF State
  <2>2. x >= nb
    <3>1. CASE s.v = Null /\ s.rsize = WordSize - nb
      BY <1>1, <1>3, <1>4, <1>7, <3>1
    <3>2. CASE s.v \in B /\ size[s.v] >= nb /\ s.rsize = size[s.v] - nb
      BY <1>1, <1>3, <1>4, <1>7, <3>2
    <3>3. QED
      BY <3>1, <3>2 DEF Sound
  <2>3. trem = x - nb
    BY <1>4, <2>2
  <2>4. Sound(r, nb, B)
    BY <1>2, <1>3, <2>1, <2>2, <2>3 DEF Sound
  <2>5. ASSUME NEW z \in B, Beaten(s, z, nb)
        PROVE  Beaten(r, z, nb)
    <3> SUFFICES ASSUME size[z] >= nb
                 PROVE  x <= size[z]
      BY <1>2, <1>3, <2>1 DEF Beaten
    <3>1. s.v # Null /\ size[s.v] <= size[z]
      BY <2>5 DEF Beaten
    <3>2. s.v \in B /\ s.rsize = size[s.v] - nb
      BY <3>1 DEF Sound
    <3>3. QED
      BY <1>1, <1>3, <1>7, <2>3, <3>1, <3>2
  <2>6. Beaten(r, s.t, nb)
    BY <1>2, <1>3, <2>1 DEF Beaten
  <2>7. r.rsize = 0 => size[r.v] = nb
    BY <1>1, <1>3, <2>1, <2>3
  <2>8. QED
    BY <1>2, <2>1, <2>4, <2>5, <2>6, <2>7
<1>8. CASE ~(trem < s.rsize)
  <2>1. r = s
    BY <1>6, <1>8
  <2>2. Beaten(s, t, nb)
    <3> SUFFICES ASSUME x >= nb
                 PROVE  s.v # Null /\ size[s.v] <= x
      BY <1>3 DEF Beaten
    <3>1. trem = x - nb /\ s.rsize \in Nat /\ s.rsize <= trem
      BY <1>4, <1>5, <1>8, StateFields
    <3>2. CASE s.v = Null /\ s.rsize = WordSize - nb
      BY <1>1, <1>3, <3>1, <3>2
    <3>3. CASE s.v \in B /\ size[s.v] >= nb /\ s.rsize = size[s.v] - nb
      BY <1>1, <1>3, <3>1, <3>3
    <3>4. QED
      BY <3>2, <3>3 DEF Sound
  <2>3. r.rsize = 0 => r.v \in B /\ size[r.v] = nb
    BY <1>1, <2>1 DEF Sound
  <2>4. QED
    BY <1>2, <2>1, <2>2, <2>3
<1>9. QED
  BY <1>7, <1>8

(* No chunk below t is larger than z. *)
NoLarger(t, z, B, dp) == \A y \in B : Under(t, y, B, dp) => size[y] <= size[z]

(* All chunks below t are large enough. *)
Fits(t, nb, B, dp) == \A y \in B : Under(t, y, B, dp) => size[y] >= nb

(* The search for the leftmost has still to see z, or something as small.  *)
Ahead(t, z, B, dp) == t # Null /\ (Under(t, z, B, dp) \/ NoLarger(t, z, B, dp))

(* What the walk to the left maintains: no node is better than the best    *)
(* so far, unless it is still ahead.                                       *)
Trying(s, nb, B, dp) ==
  /\ Sound(s, nb, B)
  /\ (s.t # Null => s.t \in B)
  /\ \/ \A z \in B : Beaten(s, z, nb)
     \/ /\ (s.t # Null => Fits(s.t, nb, B, dp))
        /\ \A z \in B : Beaten(s, z, nb) \/ Ahead(s.t, z, B, dp)

(* A node is in its own subtree. *)
LEMMA UnderItself ==
  ASSUME NEW B, NEW dp, Trie(B, dp), NEW x \in B
  PROVE  Under(x, x, B, dp)
<1>1. dp[x] \in Nat
  BY AtDepth
<1>2. QED
  BY <1>1 DEF Under, Agree

(* Everything below the left child is smaller than all below the right one. *)
LEMMA LeftIsSmaller ==
  ASSUME NEW B, NEW dp, Trie(B, dp), NEW x \in B, NEW y, Under(x, y, B, dp), NEW z, Under(x, z, B, dp),
         Turn(size[y], dp[x]) = 0, Turn(size[z], dp[x]) = 1
  PROVE  size[y] < size[z]
<1>1. /\ y \in B /\ z \in B /\ dp[x] \in Nat /\ Index(y) = Index(z)
      /\ Agree(y, x, dp[x]) /\ Agree(z, x, dp[x])
  BY AtDepth DEF Under
<1>2. IsLarge(size[y]) /\ IsLarge(size[z])
  BY <1>1, BaseFacts DEF Trie
<1>3. \A e \in 0 .. dp[x] - 1 : Turn(size[y], e) = Turn(size[z], e)
  BY <1>1 DEF Agree
<1>4. QED
  BY <1>1, <1>2, <1>3, TurnsOrderSizes DEF Index

(* The turn of the size of a node at the depth of another. *)
LEMMA TurnOfNode ==
  ASSUME NEW B, NEW dp, Trie(B, dp), NEW x \in B, NEW z \in B
  PROVE  /\ Turn(size[z], dp[x]) = 0 \/ Turn(size[z], dp[x]) = 1
         /\ Turn(size[z], dp[x]) \in 0 .. 1
         /\ size[z] \in Nat
<1>1. IsLarge(size[z]) /\ dp[x] \in Nat
  BY AtDepth, BaseFacts DEF Trie
<1>2. Turn(size[z], dp[x]) \in 0 .. 1
  BY <1>1, TurnIsABit
<1>3. QED
  BY <1>1, <1>2 DEF IsLarge, IsChunkSize

(* The left child, or else the right one. *)
FirstChild(x) == IF child[x][0] # Null THEN child[x][0] ELSE child[x][1]

(* The child that the descent to the smallest takes. *)
LEMMA FirstChildFacts ==
  ASSUME TrieTypes, NEW x \in Chunks
  PROVE  /\ Large!leftmost_child(x) = FirstChild(x)
         /\ FirstChild(x) \in MaybeChunk
         /\ FirstChild(x) = Null => child[x][0] = Null /\ child[x][1] = Null
         /\ FirstChild(x) # Null => \E c \in 0 .. 1 : child[x][c] = FirstChild(x)
         /\ child[x][0] # Null => FirstChild(x) = child[x][0]
         /\ child[x][0] = Null => FirstChild(x) = child[x][1]
<1>1. child[x][0] \in MaybeChunk /\ child[x][1] \in MaybeChunk /\ 0 \in 0 .. 1 /\ 1 \in 0 .. 1
  BY DEF TrieTypes
<1>2. QED
  BY <1>1 DEF FirstChild, Large!leftmost_child

(* What lies below x is x, or ahead of the walk that goes to its leftmost child. *)
LEMMA GoingLeft ==
  ASSUME NEW B, NEW dp, Trie(B, dp), NEW x \in B, NEW z, Under(x, z, B, dp), z # x
  PROVE  Ahead(FirstChild(x), z, B, dp)
<1>1. PICK u : u = child[x][Turn(size[z], dp[x])] /\ u # Null /\ u \in B /\ Under(u, z, B, dp)
  BY BelowChild
<1>2. z \in B /\ x \in Chunks /\ TrieTypes
  BY BaseFacts DEF Under, Trie
<1>3. Turn(size[z], dp[x]) = 0 \/ Turn(size[z], dp[x]) = 1
  BY <1>2, TurnOfNode
<1>4. CASE u = FirstChild(x)
  BY <1>1, <1>4 DEF Ahead
<1>5. CASE u # FirstChild(x)
  <2>1. child[x][0] # Null /\ FirstChild(x) = child[x][0] /\ Turn(size[z], dp[x]) = 1
    BY <1>1, <1>2, <1>3, <1>5, FirstChildFacts
  <2>2. 0 \in 0 .. 1
    OBVIOUS
  <2>3. ASSUME NEW y \in B, Under(FirstChild(x), y, B, dp)
        PROVE  size[y] <= size[z]
    <3>1. Under(child[x][0], y, B, dp)
      BY <2>1, <2>3
    <3>2. Under(x, y, B, dp) /\ Turn(size[y], dp[x]) = 0
      BY <2>1, <2>2, <3>1, UnderChild
    <3>3. size[y] < size[z] /\ size[y] \in Nat /\ size[z] \in Nat
      BY <1>2, <2>1, <3>2, LeftIsSmaller, TurnOfNode
    <3>4. QED
      BY <3>3
  <2>4. QED
    BY <2>1, <2>3 DEF Ahead, NoLarger
<1>6. QED
  BY <1>4, <1>5

(* A step to the left loses nothing that may be the best. *)
LEMMA LeftStep ==
  ASSUME NEW B, NEW dp, Trie(B, dp), NEW nb, IsChunkSize(nb), NEW s \in State,
         Trying(s, nb, B, dp), NEW r, r = Large!FollowLeft(s, nb)
  PROVE  /\ r \in State /\ Trying(r, nb, B, dp)
         /\ s.t = Null => r = s
         /\ s.t # Null /\ r.t # Null => dp[r.t] = dp[s.t] + 1
<1>1. CASE s.t = Null
  BY <1>1 DEF Large!FollowLeft
<1>2. CASE s.t # Null
  <2>1. PICK t : t = s.t /\ t \in B /\ t \in Chunks /\ t # Null
    BY <1>2, BaseFacts DEF Trying, Trie
  <2>2. PICK b : b = Large!Better(s, nb)
    OBVIOUS
  <2>3. /\ b \in State /\ b.t = t /\ Sound(b, nb, B) /\ Beaten(b, t, nb)
        /\ \A z \in B : Beaten(s, z, nb) => Beaten(b, z, nb)
    BY <2>1, <2>2, BetterIs DEF Trying
  <2>4. PICK u : u = FirstChild(t)
    OBVIOUS
  <2>5. /\ u \in MaybeChunk /\ u = Large!leftmost_child(t)
        /\ u # Null => \E c \in 0 .. 1 : child[t][c] = u
    BY <2>1, <2>4, FirstChildFacts DEF Trie
  <2>6. r = [b EXCEPT !.t = u]
    BY <1>2, <2>1, <2>2, <2>5 DEF Large!FollowLeft
  <2>7. r \in State /\ r.t = u /\ r.v = b.v /\ r.rsize = b.rsize
    BY <2>3, <2>5, <2>6 DEF State
  <2>8. Sound(r, nb, B) /\ \A z : Beaten(b, z, nb) => Beaten(r, z, nb)
    BY <2>3, <2>7 DEF Sound, Beaten
  <2>9. ASSUME u # Null
        PROVE  u \in B /\ dp[u] = dp[t] + 1 /\ \A y : Under(u, y, B, dp) => Under(t, y, B, dp)
    <3>1. PICK c \in 0 .. 1 : child[t][c] = u
      BY <2>5, <2>9
    <3>2. QED
      BY <2>1, <2>9, <3>1, ChildFacts, UnderChild
  <2>10. CASE \A z \in B : Beaten(s, z, nb)
    <3>1. \A z \in B : Beaten(r, z, nb)
      BY <2>3, <2>8, <2>10
    <3>2. QED
      BY <1>2, <2>1, <2>7, <2>8, <2>9, <3>1 DEF Trying
  <2>11. CASE Fits(t, nb, B, dp) /\ \A z \in B : Beaten(s, z, nb) \/ Ahead(t, z, B, dp)
    <3>1. u # Null => Fits(u, nb, B, dp)
      BY <2>9, <2>11 DEF Fits
    <3>2. ASSUME NEW z \in B, ~Beaten(r, z, nb)
          PROVE  Ahead(u, z, B, dp)
      <4>1. ~Beaten(b, z, nb) /\ ~Beaten(s, z, nb)
        BY <2>3, <2>8, <3>2
      <4>2. Ahead(t, z, B, dp) /\ z # t
        BY <2>3, <2>11, <4>1
      <4>3. CASE Under(t, z, B, dp)
        BY <2>1, <2>4, <4>2, <4>3, GoingLeft
      <4>4. CASE NoLarger(t, z, B, dp)
        <5>1. Under(t, t, B, dp)
          BY <2>1, UnderItself
        <5>2. size[t] >= nb /\ size[t] <= size[z]
          BY <2>1, <2>11, <4>4, <5>1 DEF Fits, NoLarger
        <5>3. b.v # Null /\ size[b.v] <= size[t]
          BY <2>3, <5>2 DEF Beaten
        <5>4. b.v \in B
          BY <2>3, <5>3 DEF Sound
        <5>5. size[b.v] \in Nat /\ size[t] \in Nat /\ size[z] \in Nat
          BY <2>1, <5>4, TurnOfNode
        <5>6. size[b.v] <= size[z]
          BY <5>2, <5>3, <5>5
        <5>7. Beaten(b, z, nb)
          BY <5>3, <5>6 DEF Beaten
        <5>8. QED
          BY <4>1, <5>7
      <4>5. QED
        BY <4>2, <4>3, <4>4 DEF Ahead
    <3>3. QED
      BY <1>2, <2>1, <2>7, <2>8, <2>9, <3>1, <3>2 DEF Trying
  <2>12. Trying(r, nb, B, dp)
    BY <2>1, <2>10, <2>11 DEF Trying
  <2>13. QED
    BY <1>2, <2>1, <2>7, <2>9, <2>12
<1>3. QED
  BY <1>1, <1>2

(* FollowLeft is a function of what the search knows. *)
LEMMA LeftStepType ==
  ASSUME TrieTypes, NEW nb, IsChunkSize(nb), NEW s \in State
  PROVE  Large!FollowLeft(s, nb) \in State
<1>1. CASE s.t = Null
  BY <1>1 DEF Large!FollowLeft
<1>2. CASE s.t # Null
  <2>1. s.t \in Chunks
    BY <1>2, StateFields DEF MaybeChunk
  <2>2. PICK trem : trem = Large!Word(size[s.t] - nb)
    OBVIOUS
  <2>3. trem \in Nat
    <3>1. size[s.t] \in Nat /\ nb \in Nat
      BY <2>1, SizeFacts DEF TrieTypes, IsChunkSize
    <3>2. WordSize \in Nat /\ WordSize > 0 /\ trem = (size[s.t] - nb) % WordSize
      BY <2>2, WordAssumption DEF Large!Word
    <3>3. QED
      BY <3>1, <3>2
  <2>4. PICK b : b = Large!Better(s, nb)
    OBVIOUS
  <2>5. b = s \/ b = [s EXCEPT !.v = s.t, !.rsize = trem]
    BY <2>2, <2>4 DEF Large!Better
  <2>6. [s EXCEPT !.v = s.t, !.rsize = trem] \in State
    BY <2>3 DEF State
  <2>7. b \in State
    BY <2>5, <2>6
  <2>8. PICK u \in MaybeChunk : u = Large!leftmost_child(s.t)
    BY <2>1, FirstChildFacts
  <2>9. Large!FollowLeft(s, nb) = [b EXCEPT !.t = u]
    BY <1>2, <2>4, <2>8 DEF Large!FollowLeft
  <2>10. QED
    BY <2>7, <2>9 DEF State
<1>3. QED
  BY <1>1, <1>2

(* Leftmost is a walk along first children. *)
LEMMA LeftmostSteps ==
  ASSUME TrieTypes, NEW nb, IsChunkSize(nb), NEW s0 \in State
  PROVE  \E w \in [0 .. Count + 1 -> State] :
           /\ w[0] = s0
           /\ \A d \in 1 .. Count + 1 : w[d] = Large!FollowLeft(w[d - 1], nb)
           /\ w[Count + 1] = Large!Leftmost(s0, nb)
<1> DEFINE N == Count + 1
           step == [d \in 1 .. N |-> [s \in State |-> Large!FollowLeft(s, nb)]]
           Step(f, d) == IF d = 0 THEN s0 ELSE Large!FollowLeft(f[d - 1], nb)
           chosen == CHOOSE f : f = [d \in 0 .. N |-> Step(f, d)]
<1>1. N \in Nat /\ N # 0 /\ \A d \in 1 .. N : d \in 0 .. N /\ d # 0
  BY CountIsNat
<1>2. step \in [1 .. N -> [State -> State]]
  BY LeftStepType
<1>3. \A d \in 1 .. N : \A s \in State : step[d][s] = Large!FollowLeft(s, nb)
  OBVIOUS
<1> HIDE DEF N, step
<1>4. PICK w : Walks(w, N, State, s0, step)
  BY <1>1, <1>2, Iteration
<1>5. ASSUME NEW d \in 0 .. N
      PROVE  w[d] = Step(w, d)
  <2>1. CASE d = 0
    BY <1>4, <2>1 DEF Walks
  <2>2. CASE d # 0
    <3>1. d \in 1 .. N /\ d - 1 \in 0 .. N
      BY <1>1, <2>2
    <3>2. w[d] = step[d][w[d - 1]] /\ w[d - 1] \in State
      BY <1>4, <3>1 DEF Walks
    <3>3. QED
      BY <1>3, <2>2, <3>1, <3>2
  <2>3. QED
    BY <2>1, <2>2
<1>6. w = [d \in 0 .. N |-> Step(w, d)]
  <2> HIDE DEF Step
  <2>1. w = [d \in 0 .. N |-> w[d]]
    BY <1>4 DEF Walks
  <2>2. QED
    BY <1>5, <2>1
<1>7. chosen = [d \in 0 .. N |-> Step(chosen, d)]
  <2> HIDE DEF Step
  <2>1. QED
    BY <1>6
<1>8. Large!Leftmost(s0, nb) = chosen[N]
  BY DEF Large!Leftmost, N, Count, Large!Cardinality, Cardinality
<1> HIDE DEF chosen
<1>9. \A d \in 0 .. N : chosen[d] = Step(chosen, d)
  <2> HIDE DEF Step
  <2>1. QED
    BY <1>7
<1>10. chosen = [d \in 0 .. N |-> chosen[d]]
  <2> HIDE DEF Step
  <2>1. QED
    BY <1>7, <1>9
<1>11. chosen[0] = s0 /\ \A d \in 1 .. N : chosen[d] = Large!FollowLeft(chosen[d - 1], nb)
  BY <1>1, <1>9
<1> HIDE DEF Step
<1>12. Walks(chosen, N, State, s0, step)
  BY <1>1, <1>2, <1>3, <1>10, <1>11, WalkIs
<1>13. chosen \in [0 .. N -> State]
  BY <1>12 DEF Walks
<1>14. QED
  BY <1>8, <1>11, <1>13 DEF N

(* "leftmost_child": the walk sees the smallest of what lies ahead of it. *)
LEMMA LeftmostFinds ==
  ASSUME NEW B, NEW dp, Trie(B, dp), NEW nb, IsChunkSize(nb), NEW s \in State,
         Trying(s, nb, B, dp), NEW r, r = Large!Leftmost(s, nb)
  PROVE  r \in State /\ Sound(r, nb, B) /\ \A z \in B : Beaten(r, z, nb)
<1>1. PICK w \in [0 .. Count + 1 -> State] :
           /\ w[0] = s
           /\ \A d \in 1 .. Count + 1 : w[d] = Large!FollowLeft(w[d - 1], nb)
           /\ w[Count + 1] = r
  BY LeftmostSteps DEF Trie
<1> DEFINE P(n) == Trying(w[n], nb, B, dp) /\ (w[n].t # Null => dp[w[n].t] >= n)
           T == {n \in Nat : n <= Count + 1 => P(n)}
<1>2. 0 \in T
  <2>1. s.t # Null => dp[s.t] \in Nat
    BY AtDepth DEF Trying
  <2>2. QED
    BY <1>1, <2>1
<1>3. ASSUME NEW n \in Nat, n \in T
      PROVE  n + 1 \in T
  <2> SUFFICES ASSUME n + 1 <= Count + 1
               PROVE  P(n + 1)
    OBVIOUS
  <2>1. n + 1 \in 1 .. Count + 1 /\ (n + 1) - 1 = n /\ n \in 0 .. Count + 1
    BY CountIsNat
  <2>2. PICK a, b \in State : a = w[n] /\ b = w[n + 1]
    BY <1>1, <2>1
  <2>3. Trying(a, nb, B, dp) /\ (a.t # Null => dp[a.t] >= n)
    BY <1>3, <2>1, <2>2
  <2>4. b = Large!FollowLeft(a, nb)
    BY <1>1, <2>1, <2>2
  <2>5. /\ b \in State /\ Trying(b, nb, B, dp)
        /\ a.t = Null => b = a
        /\ a.t # Null /\ b.t # Null => dp[b.t] = dp[a.t] + 1
    BY <2>3, <2>4, LeftStep
  <2>6. a.t # Null => dp[a.t] \in Nat
    BY <2>3, AtDepth DEF Trying
  <2>7. b.t # Null => dp[b.t] >= n + 1
    BY <2>3, <2>5, <2>6
  <2>8. QED
    BY <2>2, <2>5, <2>7
<1>4. P(Count + 1)
  <2> HIDE DEF P
  <2>1. Nat \subseteq T
    <3> HIDE DEF T
    <3>1. QED
      BY <1>2, <1>3, Induction
  <2>2. QED
    BY <2>1, CountIsNat
<1>5. r \in State /\ Trying(r, nb, B, dp) /\ (r.t # Null => dp[r.t] >= Count + 1)
  BY <1>1, <1>4, CountIsNat
<1>6. r.t = Null
  <2> SUFFICES ASSUME r.t # Null
               PROVE  FALSE
    OBVIOUS
  <2>1. r.t \in B
    BY <1>5 DEF Trying
  <2>2. dp[r.t] \in Nat /\ dp[r.t] < Count
    BY <2>1, DepthIsBounded DEF Count
  <2>3. QED
    BY <1>5, <2>2, CountIsNat
<1>7. QED
  BY <1>5, <1>6 DEF Trying, Ahead

(* x stands where the bits of nb lead to. *)
OnPathOf(x, nb, d, dp) ==
  /\ Index(x) = compute_tree_index(nb) /\ dp[x] = d
  /\ \A e \in 0 .. d - 1 : Turn(size[x], e) = Turn(nb, e)

(* What parts from the bits of nb is smaller or larger than nb. *)
LEMMA PartingFrom ==
  ASSUME NEW B, NEW dp, Trie(B, dp), NEW nb, IsLarge(nb), NEW x \in B, NEW d \in Nat,
         OnPathOf(x, nb, d, dp), NEW y, Under(x, y, B, dp)
  PROVE  /\ Turn(nb, d) = 0 \/ Turn(nb, d) = 1
         /\ Turn(size[y], d) = 0 \/ Turn(size[y], d) = 1
         /\ Turn(size[y], d) = 0 /\ Turn(nb, d) = 1 => size[y] < nb
         /\ Turn(size[y], d) = 1 /\ Turn(nb, d) = 0 => nb < size[y]
<1>1. y \in B /\ Index(y) = compute_tree_index(nb) /\ Agree(y, x, d)
  BY DEF Under, OnPathOf
<1>2. IsLarge(size[y])
  BY <1>1, BaseFacts DEF Trie
<1>3. \A e \in 0 .. d - 1 : Turn(size[y], e) = Turn(nb, e)
  BY <1>1 DEF Agree, OnPathOf
<1>4. Turn(nb, d) \in 0 .. 1 /\ Turn(size[y], d) \in 0 .. 1
  BY <1>2, TurnIsABit
<1>5. Turn(size[y], d) = 0 /\ Turn(nb, d) = 1 => size[y] < nb
  BY <1>1, <1>2, <1>3, TurnsOrderSizes DEF Index
<1>6. Turn(size[y], d) = 1 /\ Turn(nb, d) = 0 => nb < size[y]
  BY <1>1, <1>2, <1>3, TurnsOrderSizes DEF Index
<1>7. QED
  BY <1>4, <1>5, <1>6

(* z is in the bin that requests of nb belong to. *)
InBinOf(z, nb) == Index(z) = compute_tree_index(nb)

(* The loop over the bits has ended, and the search goes on to the left.   *)
Settled(s, nb, B, dp) ==
  /\ s.found \/ s.t = Null
  /\ \/ \A z \in B : Beaten(s, z, nb)
     \/ /\ (s.t # Null => Fits(s.t, nb, B, dp))
        /\ \A z \in B : InBinOf(z, nb) => Beaten(s, z, nb) \/ Ahead(s.t, z, B, dp)

(* All below x is smaller than what is below y. *)
Precedes(x, y, B, dp) ==
  \A a, b \in B : Under(x, a, B, dp) /\ Under(y, b, B, dp) => size[a] < size[b]

(* rst holds larger sizes than the subtree the loop is in, and all fit.    *)
Restful(s, nb, B, dp) ==
  s.rst # Null =>
    (s.rst \in B /\ InBinOf(s.rst, nb) /\ Fits(s.rst, nb, B, dp) /\ Precedes(s.t, s.rst, B, dp))

(* The loop over the bits is on its way: what may be better is below t,    *)
(* or below rst.                                                           *)
Looking(s, d, nb, B, dp) ==
  /\ ~s.found /\ s.t # Null
  /\ OnPathOf(s.t, nb, d, dp)
  /\ Restful(s, nb, B, dp)
  /\ \A z \in B : InBinOf(z, nb) => Beaten(s, z, nb) \/ Under(s.t, z, B, dp) \/ Ahead(s.rst, z, B, dp)

(* What the loop over the bits maintains. *)
Following(s, d, nb, B, dp) ==
  /\ Sound(s, nb, B)
  /\ (s.t # Null => (s.t \in B /\ InBinOf(s.t, nb)))
  /\ (s.v # Null => InBinOf(s.v, nb))
  /\ Settled(s, nb, B, dp) \/ Looking(s, d, nb, B, dp)

(* rst after the turn: the right child, where the left one is taken.       *)
LEMMA RememberIs ==
  ASSUME NEW B, NEW dp, Trie(B, dp), NEW nb, IsLarge(nb), NEW d \in Nat,
         NEW s \in State, s.t \in B, OnPathOf(s.t, nb, d, dp),
         NEW next, next = child[s.t][Turn(nb, d)], NEW rst, rst = Large!RememberRight(s, next)
  PROVE  /\ next \in MaybeChunk /\ rst \in MaybeChunk
         /\ \/ rst = s.rst /\ (Turn(nb, d) = 1 \/ child[s.t][1] = Null)
            \/ rst # Null /\ Turn(nb, d) = 0 /\ rst = child[s.t][1]
<1>1. PICK t \in B : t = s.t /\ t \in Chunks
  BY BaseFacts DEF Trie
<1>2. Under(t, t, B, dp)
  BY UnderItself
<1>3. Turn(nb, d) = 0 \/ Turn(nb, d) = 1
  BY <1>1, <1>2, PartingFrom
<1>4. child[t][0] \in MaybeChunk /\ child[t][1] \in MaybeChunk /\ 0 \in 0 .. 1 /\ 1 \in 0 .. 1
  BY <1>1 DEF Trie, TrieTypes
<1>5. child[t][0] # Null => child[t][0] # child[t][1]
  <2>1. ASSUME child[t][0] # Null, child[t][0] = child[t][1]
        PROVE  FALSE
    <3>1. Turn(size[child[t][0]], dp[t]) = 0 /\ Turn(size[child[t][1]], dp[t]) = 1
      BY <1>4, <2>1, ChildFacts
    <3>2. QED
      BY <2>1, <3>1
  <2>2. QED
    BY <2>1
<1>6. PICK rt : rt = child[t][1]
  OBVIOUS
<1>7. rst = IF rt # Null /\ rt # next THEN rt ELSE s.rst
  BY <1>1, <1>6 DEF Large!RememberRight
<1>8. s.rst \in MaybeChunk
  BY StateFields
<1>9. CASE Turn(nb, d) = 1
  BY <1>1, <1>4, <1>6, <1>7, <1>8, <1>9
<1>10. CASE Turn(nb, d) = 0
  <2>1. next = child[t][0] /\ (rt # Null => rt # next)
    BY <1>1, <1>5, <1>6, <1>10
  <2>2. QED
    BY <1>1, <1>4, <1>6, <1>7, <1>8, <1>10, <2>1
<1>11. QED
  BY <1>3, <1>9, <1>10

(* The part of the subtree that the turn leaves behind.                    *)
LEMMA LeftBehind ==
  ASSUME NEW B, NEW dp, Trie(B, dp), NEW nb, IsLarge(nb), NEW d \in Nat,
         NEW s \in State, s.t \in B, Looking(s, d, nb, B, dp),
         NEW next, next = child[s.t][Turn(nb, d)], NEW rst, rst = Large!RememberRight(s, next)
  PROVE  /\ rst # Null => rst \in B /\ InBinOf(rst, nb) /\ Fits(rst, nb, B, dp)
         /\ rst # Null /\ next # Null => Precedes(next, rst, B, dp)
         /\ \A z \in B : Under(s.t, z, B, dp) /\ z # s.t /\ size[z] >= nb =>
              (next # Null /\ Under(next, z, B, dp)) \/ Ahead(rst, z, B, dp)
         /\ \A z \in B : Ahead(s.rst, z, B, dp) => Ahead(rst, z, B, dp)
<1>1. PICK t \in B : t = s.t /\ t # Null
  BY BaseFacts DEF Trie
<1>2. OnPathOf(t, nb, d, dp) /\ dp[t] = d /\ Index(t) = compute_tree_index(nb)
  BY <1>1 DEF Looking, OnPathOf
<1>3. \/ rst = s.rst /\ (Turn(nb, d) = 1 \/ child[t][1] = Null)
      \/ rst # Null /\ Turn(nb, d) = 0 /\ rst = child[t][1]
  BY <1>1, <1>2, RememberIs
<1>4. Turn(nb, d) \in 0 .. 1 /\ (Turn(nb, d) = 0 \/ Turn(nb, d) = 1)
  BY TurnIsABit
<1>5. \A y : next # Null /\ Under(next, y, B, dp) => Under(t, y, B, dp) /\ Turn(size[y], d) = Turn(nb, d)
  BY <1>1, <1>2, <1>4, UnderChild
<1>6. \A z \in B : size[z] \in Nat
  BY TurnOfNode
<1>7. ASSUME NEW z \in B, Under(t, z, B, dp), z # t, size[z] >= nb
      PROVE  (next # Null /\ Under(next, z, B, dp)) \/ Ahead(rst, z, B, dp)
  <2>1. PICK u : u = child[t][Turn(size[z], d)] /\ u # Null /\ u \in B /\ Under(u, z, B, dp)
    BY <1>2, <1>7, BelowChild
  <2>2. CASE Turn(size[z], d) = Turn(nb, d)
    BY <1>1, <2>1, <2>2
  <2>3. CASE Turn(size[z], d) # Turn(nb, d)
    <3>1. nb \in Nat
      BY DEF IsLarge, IsChunkSize
    <3>2. Turn(size[z], d) = 1 /\ Turn(nb, d) = 0
      BY <1>2, <1>6, <1>7, <2>3, <3>1, PartingFrom
    <3>3. rst = u
      BY <1>3, <2>1, <3>2
    <3>4. QED
      BY <2>1, <3>3 DEF Ahead
  <2>4. QED
    BY <2>2, <2>3
<1>8. CASE rst = s.rst
  <2>1. Restful(s, nb, B, dp)
    BY DEF Looking
  <2>2. rst # Null => rst \in B /\ InBinOf(rst, nb) /\ Fits(rst, nb, B, dp) /\ Precedes(t, rst, B, dp)
    BY <1>1, <1>8, <2>1 DEF Restful
  <2>3. rst # Null /\ next # Null => Precedes(next, rst, B, dp)
    BY <1>5, <2>2 DEF Precedes
  <2>4. QED
    BY <1>1, <1>7, <1>8, <2>2, <2>3
<1>9. CASE rst # Null /\ Turn(nb, d) = 0 /\ rst = child[t][1]
  <2>1. 1 \in 0 .. 1
    OBVIOUS
  <2>2. rst \in B /\ Index(rst) = Index(t)
    BY <1>9, <2>1, ChildFacts
  <2>3. \A y : Under(rst, y, B, dp) => Under(t, y, B, dp) /\ Turn(size[y], d) = 1
    BY <1>2, <1>9, <2>1, UnderChild
  <2>4. Fits(rst, nb, B, dp)
    <3> SUFFICES ASSUME NEW y \in B, Under(rst, y, B, dp)
                 PROVE  size[y] >= nb
      BY DEF Fits
    <3>1. nb < size[y] /\ nb \in Nat
      BY <1>2, <1>9, <2>3, PartingFrom DEF IsLarge, IsChunkSize
    <3>2. QED
      BY <1>6, <3>1
  <2>5. next # Null => Precedes(next, rst, B, dp)
    <3> SUFFICES ASSUME next # Null, NEW a \in B, NEW b \in B, Under(next, a, B, dp), Under(rst, b, B, dp)
                 PROVE  size[a] < size[b]
      BY DEF Precedes
    <3>1. Under(t, a, B, dp) /\ Turn(size[a], d) = 0 /\ Under(t, b, B, dp) /\ Turn(size[b], d) = 1
      BY <1>5, <1>9, <2>3
    <3>2. QED
      BY <1>2, <3>1, LeftIsSmaller
  <2>6. ASSUME NEW z \in B, Ahead(s.rst, z, B, dp)
        PROVE  NoLarger(rst, z, B, dp)
    <3>1. PICK q : q = s.rst /\ q # Null
      BY <2>6 DEF Ahead
    <3>2. q \in B /\ Precedes(t, q, B, dp)
      BY <1>1, <3>1 DEF Looking, Restful
    <3>3. Under(q, q, B, dp)
      BY <3>2, UnderItself
    <3> SUFFICES ASSUME NEW y \in B, Under(rst, y, B, dp)
                 PROVE  size[y] <= size[z]
      BY DEF NoLarger
    <3>4. Under(t, y, B, dp)
      BY <2>3
    <3>5. CASE Under(q, z, B, dp)
      <4>1. size[y] < size[z]
        BY <3>2, <3>4, <3>5 DEF Precedes
      <4>2. QED
        BY <1>6, <4>1
    <3>6. CASE NoLarger(q, z, B, dp)
      <4>1. size[y] < size[q] /\ size[q] <= size[z]
        BY <3>2, <3>3, <3>4, <3>6 DEF Precedes, NoLarger
      <4>2. QED
        BY <1>6, <3>2, <4>1
    <3>7. QED
      BY <2>6, <3>1, <3>5, <3>6 DEF Ahead
  <2>7. InBinOf(rst, nb)
    BY <1>2, <2>2 DEF InBinOf
  <2>8. \A z \in B : Ahead(s.rst, z, B, dp) => Ahead(rst, z, B, dp)
    BY <1>9, <2>6 DEF Ahead
  <2>9. QED
    BY <1>1, <1>7, <2>2, <2>4, <2>5, <2>7, <2>8
<1>10. QED
  BY <1>3, <1>8, <1>9

(* A turn after the bits of nb loses nothing that may be the best. *)
LEMMA BitsStep ==
  ASSUME NEW B, NEW dp, Trie(B, dp), NEW nb, IsLarge(nb), NEW d \in Nat, NEW s \in State,
         Following(s, d, nb, B, dp), NEW r, r = Large!FollowBits(s, nb, d)
  PROVE  r \in State /\ Following(r, d + 1, nb, B, dp)
<1>1. CASE s.found \/ s.t = Null
  <2>1. r = s
    BY <1>1 DEF Large!FollowBits
  <2>2. ~Looking(s, d, nb, B, dp)
    BY <1>1 DEF Looking
  <2>3. QED
    BY <2>1, <2>2 DEF Following
<1>2. CASE ~s.found /\ s.t # Null
  <2>1. Looking(s, d, nb, B, dp)
    BY <1>2 DEF Following, Settled
  <2>2. PICK t \in B : t = s.t /\ t # Null
    BY <1>2 DEF Following
  <2>3. /\ OnPathOf(t, nb, d, dp) /\ InBinOf(t, nb) /\ dp[t] = d /\ IsChunkSize(nb)
        /\ Index(t) = compute_tree_index(nb)
        /\ \A e \in 0 .. d - 1 : Turn(size[t], e) = Turn(nb, e)
    BY <2>1, <2>2 DEF Looking, OnPathOf, InBinOf, IsLarge
  <2>4. PICK b : b = Large!Better(s, nb)
    OBVIOUS
  <2>5. /\ b \in State /\ b.t = t /\ b.rst = s.rst /\ b.found = s.found
        /\ Sound(b, nb, B) /\ Beaten(b, t, nb)
        /\ \A z \in B : Beaten(s, z, nb) => Beaten(b, z, nb)
        /\ b.v = s.v \/ b.v = t
        /\ b.rsize = 0 => b.v \in B /\ size[b.v] = nb
    BY <2>2, <2>3, <2>4, BetterIs DEF Following
  <2>6. b.v # Null => InBinOf(b.v, nb)
    BY <2>3, <2>5 DEF Following
  <2>7. PICK next, rst : next = child[t][Turn(nb, d)] /\ rst = Large!RememberRight(s, next)
    OBVIOUS
  <2>8. next \in MaybeChunk /\ rst \in MaybeChunk
    BY <2>2, <2>3, <2>7, RememberIs
  <2>9. r = IF b.rsize = 0 THEN [b EXCEPT !.found = TRUE]
            ELSE IF next = Null THEN [b EXCEPT !.t = rst, !.rst = rst, !.found = TRUE]
            ELSE [b EXCEPT !.t = next, !.rst = rst]
    BY <1>2, <2>2, <2>4, <2>7, TurnOfTree DEF Large!FollowBits
  <2>10. \A z \in B : size[z] \in Nat /\ z # Null
    BY TurnOfNode, BaseFacts DEF Trie
  <2>11. /\ rst # Null => rst \in B /\ InBinOf(rst, nb) /\ Fits(rst, nb, B, dp)
         /\ rst # Null /\ next # Null => Precedes(next, rst, B, dp)
         /\ \A z \in B : Under(t, z, B, dp) /\ z # t /\ size[z] >= nb =>
              (next # Null /\ Under(next, z, B, dp)) \/ Ahead(rst, z, B, dp)
         /\ \A z \in B : Ahead(s.rst, z, B, dp) => Ahead(rst, z, B, dp)
    BY <2>1, <2>2, <2>7, LeftBehind
  <2>12. ASSUME NEW z \in B, InBinOf(z, nb), ~Beaten(b, z, nb)
         PROVE  (next # Null /\ Under(next, z, B, dp)) \/ Ahead(rst, z, B, dp)
    <3>1. ~Beaten(s, z, nb) /\ z # t /\ size[z] >= nb
      BY <2>5, <2>12 DEF Beaten
    <3>2. Under(t, z, B, dp) \/ Ahead(s.rst, z, B, dp)
      BY <2>1, <2>2, <2>12, <3>1 DEF Looking
    <3>3. QED
      BY <2>11, <3>1, <3>2
  <2>13. CASE b.rsize = 0
    <3>1. r \in State /\ r.t = t /\ r.v = b.v /\ r.rsize = b.rsize /\ r.found
      BY <2>5, <2>9, <2>13 DEF State
    <3>2. Sound(r, nb, B)
      BY <2>5, <3>1 DEF Sound
    <3>3. \A z \in B : Beaten(r, z, nb)
      BY <2>5, <2>10, <2>13, <3>1 DEF Beaten
    <3>4. QED
      BY <2>2, <2>3, <2>6, <3>1, <3>2, <3>3 DEF Following, Settled
  <2>14. CASE b.rsize # 0 /\ next = Null
    <3>1. r \in State /\ r.t = rst /\ r.v = b.v /\ r.rsize = b.rsize /\ r.found
      <4>1. r = [b EXCEPT !.t = rst, !.rst = rst, !.found = TRUE]
        BY <2>9, <2>14
      <4>2. QED
        BY <2>5, <2>8, <4>1 DEF State
    <3>2. Sound(r, nb, B)
      BY <2>5, <3>1 DEF Sound
    <3>3. \A z \in B : InBinOf(z, nb) => Beaten(r, z, nb) \/ Ahead(r.t, z, B, dp)
      <4>1. \A z : Beaten(b, z, nb) => Beaten(r, z, nb)
        BY <3>1 DEF Beaten
      <4>2. QED
        BY <2>12, <2>14, <3>1, <4>1
    <3>4. Settled(r, nb, B, dp)
      BY <2>11, <3>1, <3>3 DEF Settled
    <3>5. QED
      BY <2>6, <2>11, <3>1, <3>2, <3>4 DEF Following
  <2>15. CASE b.rsize # 0 /\ next # Null
    <3>1. r \in State /\ r.t = next /\ r.rst = rst /\ r.v = b.v /\ r.rsize = b.rsize /\ ~r.found
      <4>1. r = [b EXCEPT !.t = next, !.rst = rst]
        BY <2>9, <2>15
      <4>2. QED
        BY <1>2, <2>5, <2>8, <4>1 DEF State
    <3>2. Sound(r, nb, B)
      BY <2>5, <3>1 DEF Sound
    <3>3. Turn(nb, d) \in 0 .. 1
      BY TurnIsABit
    <3>4. /\ next \in B /\ dp[next] = d + 1 /\ Index(next) = Index(t)
          /\ Agree(next, t, d) /\ Turn(size[next], d) = Turn(nb, d)
      BY <2>3, <2>7, <2>15, <3>3, ChildFacts
    <3>5. OnPathOf(next, nb, d + 1, dp) /\ InBinOf(next, nb)
      <4>1. \A e \in 0 .. d : Turn(size[next], e) = Turn(nb, e)
        BY <2>3, <3>4 DEF Agree
      <4>2. (d + 1) - 1 = d
        OBVIOUS
      <4>3. QED
        BY <2>3, <3>4, <4>1, <4>2 DEF OnPathOf, InBinOf
    <3>6. Restful(r, nb, B, dp)
      BY <2>11, <2>15, <3>1 DEF Restful
    <3>7. \A z \in B : InBinOf(z, nb) => Beaten(r, z, nb) \/ Under(r.t, z, B, dp) \/ Ahead(r.rst, z, B, dp)
      <4>1. \A z : Beaten(b, z, nb) => Beaten(r, z, nb)
        BY <3>1 DEF Beaten
      <4>2. QED
        BY <2>12, <3>1, <4>1
    <3>8. Looking(r, d + 1, nb, B, dp)
      BY <2>15, <3>1, <3>5, <3>6, <3>7 DEF Looking
    <3>9. QED
      BY <2>6, <3>1, <3>2, <3>4, <3>5, <3>8 DEF Following
  <2>16. QED
    BY <2>13, <2>14, <2>15
<1>3. QED
  BY <1>1, <1>2

(* FollowBits is a function of what the search knows. *)
LEMMA BetterType ==
  ASSUME TrieTypes, NEW nb, IsChunkSize(nb), NEW s \in State, s.t \in Chunks
  PROVE  Large!Better(s, nb) \in State
<1>1. PICK trem : trem = Large!Word(size[s.t] - nb)
  OBVIOUS
<1>2. trem \in Nat
  <2>1. size[s.t] \in Nat /\ nb \in Nat
    BY SizeFacts DEF TrieTypes, IsChunkSize
  <2>2. WordSize \in Nat /\ WordSize > 0 /\ trem = (size[s.t] - nb) % WordSize
    BY <1>1, WordAssumption DEF Large!Word
  <2>3. QED
    BY <2>1, <2>2
<1>3. Large!Better(s, nb) = s \/ Large!Better(s, nb) = [s EXCEPT !.v = s.t, !.rsize = trem]
  BY <1>1 DEF Large!Better
<1>4. [s EXCEPT !.v = s.t, !.rsize = trem] \in State
  BY <1>2 DEF State
<1>5. QED
  BY <1>3, <1>4

(* FollowBits is a function of what the search knows. *)
LEMMA BitsStepType ==
  ASSUME TrieTypes, NEW nb, IsLarge(nb), NEW d \in Nat, NEW s \in State
  PROVE  Large!FollowBits(s, nb, d) \in State
<1>1. CASE s.found \/ s.t = Null
  BY <1>1 DEF Large!FollowBits
<1>2. CASE ~s.found /\ s.t # Null
  <2>1. PICK t \in Chunks : t = s.t
    BY <1>2, StateFields DEF MaybeChunk
  <2>2. PICK b \in State : b = Large!Better(s, nb)
    BY <2>1, BetterType DEF IsLarge
  <2>3. PICK next \in MaybeChunk : next = child[t][Turn(nb, d)]
    BY TurnIsABit DEF TrieTypes
  <2>4. PICK rst \in MaybeChunk : rst = Large!RememberRight(s, next)
    <3>1. child[t][1] \in MaybeChunk /\ s.rst \in MaybeChunk
      <4>1. 1 \in 0 .. 1
        OBVIOUS
      <4>2. QED
        BY <4>1, StateFields DEF TrieTypes
    <3>2. QED
      BY <2>1, <3>1 DEF Large!RememberRight
  <2>5. \/ Large!FollowBits(s, nb, d) = [b EXCEPT !.found = TRUE]
        \/ Large!FollowBits(s, nb, d) = [b EXCEPT !.t = rst, !.rst = rst, !.found = TRUE]
        \/ Large!FollowBits(s, nb, d) = [b EXCEPT !.t = next, !.rst = rst]
    BY <1>2, <2>1, <2>2, <2>3, <2>4, TurnOfTree DEF Large!FollowBits
  <2>6. /\ [b EXCEPT !.found = TRUE] \in State
        /\ [b EXCEPT !.t = rst, !.rst = rst, !.found = TRUE] \in State
        /\ [b EXCEPT !.t = next, !.rst = rst] \in State
    BY DEF State
  <2>7. QED
    BY <2>5, <2>6
<1>3. QED
  BY <1>1, <1>2

(* The loop over the bits, from s0.                                        *)
FollowedBits(s0, nb) ==
  LET w[d \in 0 .. Large!Cardinality(Chunks) + 1] ==
        IF d = 0 THEN s0 ELSE Large!FollowBits(w[d - 1], nb, d - 1)
  IN  w[Large!Cardinality(Chunks) + 1]

(* What the search knows at its start. *)
StartOf(nb) ==
  LET idx == Large!compute_tree_index(nb)
  IN  [t |-> IF idx \in treemap THEN root[idx] ELSE Null, v |-> Null,
       rsize |-> Large!Word(-nb), rst |-> Null, found |-> FALSE]

(* The loop over the bits is a walk. *)
LEMMA BitsSteps ==
  ASSUME TrieTypes, NEW nb, IsLarge(nb), NEW s0 \in State
  PROVE  \E w \in [0 .. Count + 1 -> State] :
           /\ w[0] = s0
           /\ \A d \in 1 .. Count + 1 : w[d] = Large!FollowBits(w[d - 1], nb, d - 1)
           /\ w[Count + 1] = FollowedBits(s0, nb)
<1> DEFINE N == Count + 1
           step == [d \in 1 .. N |-> [s \in State |-> Large!FollowBits(s, nb, d - 1)]]
           Step(f, d) == IF d = 0 THEN s0 ELSE Large!FollowBits(f[d - 1], nb, d - 1)
           chosen == CHOOSE f : f = [d \in 0 .. N |-> Step(f, d)]
<1>1. N \in Nat /\ N # 0 /\ \A d \in 1 .. N : d \in 0 .. N /\ d # 0 /\ d - 1 \in Nat
  BY CountIsNat
<1>2. step \in [1 .. N -> [State -> State]]
  <2>1. ASSUME NEW d \in 1 .. N
        PROVE  [s \in State |-> Large!FollowBits(s, nb, d - 1)] \in [State -> State]
    <3>1. PICK e \in Nat : e = d - 1
      OBVIOUS
    <3>2. QED
      BY <3>1, BitsStepType
  <2>2. QED
    BY <2>1
<1>3. \A d \in 1 .. N : \A s \in State : step[d][s] = Large!FollowBits(s, nb, d - 1)
  OBVIOUS
<1> HIDE DEF N, step
<1>4. PICK w : Walks(w, N, State, s0, step)
  BY <1>1, <1>2, Iteration
<1>5. ASSUME NEW d \in 0 .. N
      PROVE  w[d] = Step(w, d)
  <2>1. CASE d = 0
    BY <1>4, <2>1 DEF Walks
  <2>2. CASE d # 0
    <3>1. d \in 1 .. N /\ d - 1 \in 0 .. N
      BY <1>1, <2>2
    <3>2. w[d] = step[d][w[d - 1]] /\ w[d - 1] \in State
      BY <1>4, <3>1 DEF Walks
    <3>3. QED
      BY <1>3, <2>2, <3>1, <3>2
  <2>3. QED
    BY <2>1, <2>2
<1>6. w = [d \in 0 .. N |-> Step(w, d)]
  <2> HIDE DEF Step
  <2>1. w = [d \in 0 .. N |-> w[d]]
    BY <1>4 DEF Walks
  <2>2. QED
    BY <1>5, <2>1
<1>7. chosen = [d \in 0 .. N |-> Step(chosen, d)]
  <2> HIDE DEF Step
  <2>1. QED
    BY <1>6
<1>8. FollowedBits(s0, nb) = chosen[N]
  BY DEF FollowedBits, N, Count, Large!Cardinality, Cardinality
<1> HIDE DEF chosen
<1>9. \A d \in 0 .. N : chosen[d] = Step(chosen, d)
  <2> HIDE DEF Step
  <2>1. QED
    BY <1>7
<1>10. chosen = [d \in 0 .. N |-> chosen[d]]
  <2> HIDE DEF Step
  <2>1. QED
    BY <1>7, <1>9
<1>11. chosen[0] = s0 /\ \A d \in 1 .. N : chosen[d] = Large!FollowBits(chosen[d - 1], nb, d - 1)
  BY <1>1, <1>9
<1> HIDE DEF Step
<1>12. Walks(chosen, N, State, s0, step)
  BY <1>1, <1>2, <1>3, <1>10, <1>11, WalkIs
<1>13. chosen \in [0 .. N -> State]
  BY <1>12 DEF Walks
<1>14. QED
  BY <1>8, <1>11, <1>13 DEF N

(* The loop over the bits comes to an end within the trie. *)
LEMMA BitsSettle ==
  ASSUME NEW B, NEW dp, Trie(B, dp), NEW nb, IsLarge(nb), NEW s \in State,
         Following(s, 0, nb, B, dp), NEW r, r = FollowedBits(s, nb)
  PROVE  /\ r \in State /\ Sound(r, nb, B) /\ Settled(r, nb, B, dp)
         /\ r.t # Null => r.t \in B /\ InBinOf(r.t, nb)
         /\ r.v # Null => InBinOf(r.v, nb)
<1>1. PICK w \in [0 .. Count + 1 -> State] :
           /\ w[0] = s
           /\ \A d \in 1 .. Count + 1 : w[d] = Large!FollowBits(w[d - 1], nb, d - 1)
           /\ w[Count + 1] = r
  BY BitsSteps DEF Trie
<1> DEFINE T == {n \in Nat : n <= Count + 1 => Following(w[n], n, nb, B, dp)}
<1>2. 0 \in T
  BY <1>1
<1>3. ASSUME NEW n \in Nat, n \in T
      PROVE  n + 1 \in T
  <2> SUFFICES ASSUME n + 1 <= Count + 1
               PROVE  Following(w[n + 1], n + 1, nb, B, dp)
    OBVIOUS
  <2>1. n + 1 \in 1 .. Count + 1 /\ (n + 1) - 1 = n /\ n \in 0 .. Count + 1
    BY CountIsNat
  <2>2. PICK a, b \in State : a = w[n] /\ b = w[n + 1]
    BY <1>1, <2>1
  <2>3. Following(a, n, nb, B, dp)
    BY <1>3, <2>1, <2>2
  <2>4. b = Large!FollowBits(a, nb, n)
    BY <1>1, <2>1, <2>2
  <2>5. Following(b, n + 1, nb, B, dp)
    BY <2>3, <2>4, BitsStep
  <2>6. QED
    BY <2>2, <2>5
<1>4. Following(r, Count + 1, nb, B, dp) /\ r \in State
  <2>1. Nat \subseteq T
    <3> HIDE DEF T
    <3>1. QED
      BY <1>2, <1>3, Induction
  <2>2. QED
    BY <1>1, <2>1, CountIsNat
<1>5. ~Looking(r, Count + 1, nb, B, dp)
  <2> SUFFICES ASSUME Looking(r, Count + 1, nb, B, dp)
               PROVE  FALSE
    OBVIOUS
  <2>1. r.t \in B /\ dp[r.t] = Count + 1
    BY <1>4 DEF Looking, Following, OnPathOf
  <2>2. dp[r.t] < Count
    BY <2>1, DepthIsBounded DEF Count
  <2>3. QED
    BY <2>1, <2>2, CountIsNat
<1>6. QED
  BY <1>4, <1>5 DEF Following

(* The best fit among the nodes of the tries.                              *)
IsBest(v, nb, B) ==
  \/ v = Null /\ \A z \in B : size[z] < nb
  \/ v \in B /\ size[v] >= nb /\ \A z \in B : size[z] >= nb => size[v] <= size[z]

(* What no node beats is the best fit. *)
LEMMA BeatenIsBest ==
  ASSUME NEW B, NEW dp, Trie(B, dp), NEW nb, IsChunkSize(nb), NEW r,
         Sound(r, nb, B), \A z \in B : Beaten(r, z, nb)
  PROVE  IsBest(r.v, nb, B)
<1>1. \A z \in B : size[z] \in Nat /\ z # Null
  BY TurnOfNode, BaseFacts DEF Trie
<1>2. nb \in Nat
  BY DEF IsChunkSize
<1>3. CASE r.v = Null
  BY <1>1, <1>2, <1>3 DEF Beaten, IsBest
<1>4. CASE r.v # Null
  BY <1>4 DEF Sound, Beaten, IsBest
<1>5. QED
  BY <1>3, <1>4

(* The search of a whole trie, where no lower bin has a chunk that fits. *)
LEMMA TryingRoot ==
  ASSUME NEW B, NEW dp, Trie(B, dp), NEW nb, IsChunkSize(nb), NEW i \in treemap,
         \A z \in B : Index(z) < i => size[z] < nb,
         \A z \in B : Index(z) >= i => size[z] >= nb,
         NEW s \in State, s.t = root[i], s.v = Null, s.rsize = WordSize - nb
  PROVE  Trying(s, nb, B, dp) /\ s.t \in B /\ s.t # Null /\ Index(s.t) = i
<1>1. /\ root[i] \in B /\ Index(root[i]) = i /\ root[i] # Null
      /\ parent[root[i]] = Large!treebin_at(i) /\ i \in Indices
  BY DEF Trie, RootsOK, TrieTypes
<1>2. PICK x \in B : x = root[i]
  BY <1>1
<1>3. dp[x] = 0
  <2>1. parent[x] \notin B
    BY <1>1, <1>2, TreebinsAreDistinct DEF Trie, IsBases, MaybeChunk
  <2>2. QED
    BY <2>1 DEF Trie, ParentsOK, Hangs, IsRoot
<1>4. \A z \in B : /\ dp[z] \in Nat /\ size[z] \in Nat /\ IsLarge(size[z]) /\ Index(z) \in 0 .. 31
  BY AtDepth, TurnOfNode, BaseFacts, IndexInRange DEF Trie, Index
<1>5. \A z \in B : Under(x, z, B, dp) <=> Index(z) = i
  BY <1>1, <1>2, <1>3, <1>4 DEF Under, Agree
<1>6. Sound(s, nb, B)
  BY DEF Sound
<1>7. Fits(x, nb, B, dp)
  BY <1>5, <1>1, <1>2, <1>4 DEF Fits
<1>8. ASSUME NEW z \in B
      PROVE  Beaten(s, z, nb) \/ Ahead(x, z, B, dp)
  <2>1. CASE Index(z) < i
    <3>1. size[z] < nb /\ size[z] \in Nat /\ nb \in Nat
      BY <1>4, <2>1 DEF IsChunkSize
    <3>2. QED
      BY <3>1 DEF Beaten
  <2>2. CASE Index(z) = i
    BY <1>1, <1>2, <1>5, <2>2 DEF Ahead
  <2>3. CASE Index(z) > i
    <3>1. ASSUME NEW y \in B, Under(x, y, B, dp)
          PROVE  size[y] <= size[z]
      <4>1. Index(y) = i
        BY <1>5, <3>1
      <4>2. size[z] <= size[y] => Index(z) <= Index(y)
        BY <1>4, IndexIsMonotone DEF Index
      <4>3. QED
        BY <1>4, <2>3, <4>1, <4>2
    <3>2. QED
      BY <1>1, <1>2, <3>1 DEF Ahead, NoLarger
  <2>4. i \in 0 .. 31
    BY <1>1, IndicesInRange
  <2>5. QED
    BY <1>4, <2>1, <2>2, <2>3, <2>4
<1>9. QED
  BY <1>1, <1>2, <1>6, <1>7, <1>8 DEF Trying

(* Nodes of lower bins are too small, those of higher bins are larger. *)
LEMMA OtherBins ==
  ASSUME NEW B, NEW dp, Trie(B, dp), NEW nb, IsLarge(nb), NEW I, I = compute_tree_index(nb)
  PROVE  /\ I \in 0 .. 31
         /\ \A z \in B : Index(z) \in 0 .. 31 /\ size[z] \in Nat /\ IsLarge(size[z]) /\ z # Null
         /\ \A z \in B : Index(z) < I => size[z] < nb
         /\ \A z \in B : Index(z) > I => size[z] > nb
         /\ \A y, z \in B : Index(y) < Index(z) => size[y] < size[z]
<1>1. \A z \in B : IsLarge(size[z]) /\ size[z] \in Nat /\ z # Null
  BY BaseFacts, TurnOfNode DEF Trie
<1>2. nb \in Nat
  BY DEF IsLarge, IsChunkSize
<1>3. \A z \in B : Index(z) \in 0 .. 31
  BY <1>1, IndexInRange DEF Index
<1>4. I \in 0 .. 31
  BY IndexInRange
<1>5. ASSUME NEW z \in B, Index(z) < I
      PROVE  size[z] < nb
  <2>1. nb <= size[z] => I <= Index(z)
    BY <1>1, IndexIsMonotone DEF Index
  <2>2. QED
    BY <1>1, <1>2, <1>3, <1>4, <1>5, <2>1
<1>6. ASSUME NEW z \in B, Index(z) > I
      PROVE  size[z] > nb
  <2>1. size[z] <= nb => Index(z) <= I
    BY <1>1, IndexIsMonotone DEF Index
  <2>2. QED
    BY <1>1, <1>2, <1>3, <1>4, <1>6, <2>1
<1>7. ASSUME NEW y \in B, NEW z \in B, Index(y) < Index(z)
      PROVE  size[y] < size[z]
  <2>1. size[z] <= size[y] => Index(z) <= Index(y)
    BY <1>1, IndexIsMonotone DEF Index
  <2>2. QED
    BY <1>1, <1>3, <1>7, <2>1
<1>8. QED
  BY <1>1, <1>3, <1>4, <1>5, <1>6, <1>7

(* Something was found in the bin of nb: higher bins have nothing better.  *)
LEMMA SettledIsTrying ==
  ASSUME NEW B, NEW dp, Trie(B, dp), NEW nb, IsLarge(nb), NEW s \in State,
         Sound(s, nb, B), Settled(s, nb, B, dp),
         s.t # Null => s.t \in B /\ InBinOf(s.t, nb),
         s.v # Null => InBinOf(s.v, nb),
         s.t # Null \/ s.v # Null
  PROVE  Trying(s, nb, B, dp)
<1>1. CASE \A z \in B : Beaten(s, z, nb)
  BY <1>1 DEF Trying
<1>2. CASE /\ (s.t # Null => Fits(s.t, nb, B, dp))
           /\ \A z \in B : InBinOf(z, nb) => Beaten(s, z, nb) \/ Ahead(s.t, z, B, dp)
  <2>1. PICK I : I = compute_tree_index(nb)
    OBVIOUS
  <2>2. /\ I \in 0 .. 31 /\ nb \in Nat
        /\ \A z \in B : Index(z) \in 0 .. 31 /\ size[z] \in Nat
        /\ \A z \in B : Index(z) < I => size[z] < nb
        /\ \A y, z \in B : Index(y) < Index(z) => size[y] < size[z]
    BY <2>1, OtherBins DEF IsLarge, IsChunkSize
  <2>3. ASSUME NEW z \in B
        PROVE  Beaten(s, z, nb) \/ Ahead(s.t, z, B, dp)
    <3>1. CASE Index(z) = I
      BY <1>2, <2>1, <3>1 DEF InBinOf
    <3>2. CASE Index(z) < I
      <4>1. ~(size[z] >= nb)
        BY <2>2, <3>2
      <4>2. QED
        BY <4>1 DEF Beaten
    <3>3. CASE Index(z) > I /\ s.v # Null
      <4>1. s.v \in B /\ Index(s.v) = I
        BY <2>1, <3>3 DEF Sound, InBinOf
      <4>2. size[s.v] <= size[z]
        BY <2>2, <3>3, <4>1
      <4>3. QED
        BY <3>3, <4>2 DEF Beaten
    <3>4. CASE Index(z) > I /\ s.t # Null
      <4>1. s.t \in B /\ Index(s.t) = I
        BY <2>1, <3>4 DEF InBinOf
      <4>2. \A y \in B : Under(s.t, y, B, dp) => size[y] <= size[z]
        BY <2>2, <3>4, <4>1 DEF Under
      <4>3. QED
        BY <3>4, <4>2 DEF Ahead, NoLarger
    <3>5. QED
      BY <2>2, <3>1, <3>2, <3>3, <3>4
  <2>4. QED
    BY <1>2, <2>3 DEF Trying
<1>3. QED
  BY <1>1, <1>2 DEF Settled

(* least_bit(left_bits(idx2bit(idx)) & treemap): the next bin in use. *)
LEMMA NextRootIs ==
  ASSUME NEW B, NEW dp, Trie(B, dp), treemap = {Index(x) : x \in B}, NEW I \in Int
  PROVE  \/ Large!NextRoot(I) = Null /\ \A z \in B : Index(z) <= I
         \/ \E i \in treemap : Large!NextRoot(I) = root[i] /\ i > I /\ \A z \in B : Index(z) > I => Index(z) >= i
<1>1. treemap \subseteq Nat
  <2>1. \A z \in B : Index(z) \in 0 .. 31
    BY BaseFacts, IndexInRange DEF Trie, Index
  <2>2. QED
    BY <2>1
<1>2. PICK T : T = {i \in treemap : i > I}
  OBVIOUS
<1>3. T \subseteq Nat
  BY <1>1, <1>2
<1>4. CASE T = {}
  <2>1. Large!NextRoot(I) = Null
    BY <1>2, <1>4 DEF Large!NextRoot
  <2>2. \A z \in B : Index(z) <= I
    BY <1>1, <1>2, <1>4
  <2>3. QED
    BY <2>1, <2>2
<1>5. CASE T # {}
  <2>1. PICK m \in T : \A k \in T : m <= k
    BY <1>3, <1>5, LeastElement
  <2>2. Large!Min(T) = m
    <3>1. T \in SUBSET Int
      BY <1>3
    <3>2. QED
      BY <2>1, <3>1, MinIs
  <2>3. Large!NextRoot(I) = root[m]
    BY <1>2, <1>5, <2>2 DEF Large!NextRoot
  <2>4. QED
    BY <1>2, <2>1, <2>3
<1>6. QED
  BY <1>4, <1>5

(* "allocate a large request from the best fitting chunk in a treebin".    *)
LEMMA BestLargeIs ==
  ASSUME NEW B, NEW dp, Trie(B, dp), treemap = {Index(x) : x \in B}, NEW nb, IsLarge(nb),
         NEW v, v = Large!BestLarge(nb)
  PROVE  IsBest(v, nb, B)
<1>1. IsChunkSize(nb) /\ nb \in Nat /\ nb > 0 /\ nb < WordSize
  BY DEF IsLarge, IsChunkSize
<1>2. PICK I : I = compute_tree_index(nb)
  OBVIOUS
<1>3. /\ I \in 0 .. 31
      /\ \A z \in B : Index(z) \in 0 .. 31 /\ size[z] \in Nat /\ z # Null
      /\ \A z \in B : Index(z) < I => size[z] < nb
      /\ \A z \in B : Index(z) > I => size[z] > nb
  BY <1>2, OtherBins
<1>4. \A i \in treemap : root[i] \in B /\ Index(root[i]) = i /\ root[i] # Null
                         /\ parent[root[i]] = Large!treebin_at(i) /\ i \in Indices
  BY DEF Trie, RootsOK, TrieTypes
<1>5. PICK t0 : t0 = IF I \in treemap THEN root[I] ELSE Null
  OBVIOUS
<1>6. PICK start : start = [t |-> t0, v |-> Null, rsize |-> WordSize - nb, rst |-> Null, found |-> FALSE]
  OBVIOUS
<1>7. PICK s : s = FollowedBits(start, nb)
  OBVIOUS
<1>8. v = IF s.t = Null /\ s.v = Null
          THEN Large!Leftmost([s EXCEPT !.t = Large!NextRoot(I)], nb).v
          ELSE Large!Leftmost(s, nb).v
  <2>1. Large!Word(-nb) = WordSize - nb
    BY <1>1, WordOfDifference
  <2>2. Large!compute_tree_index(nb) = I
    BY <1>2, TreeIndex
  <2>3. StartOf(nb) = start
    BY <1>5, <1>6, <2>1, <2>2 DEF StartOf
  <2>4. v = IF FollowedBits(StartOf(nb), nb).t = Null /\ FollowedBits(StartOf(nb), nb).v = Null
            THEN Large!Leftmost([FollowedBits(StartOf(nb), nb) EXCEPT !.t = Large!NextRoot(Large!compute_tree_index(nb))], nb).v
            ELSE Large!Leftmost(FollowedBits(StartOf(nb), nb), nb).v
    BY DEF Large!BestLarge, FollowedBits, StartOf
  <2>5. QED
    BY <1>7, <2>2, <2>3, <2>4
<1>9. /\ start.t = t0 /\ start.v = Null /\ start.rsize = WordSize - nb /\ start.rst = Null /\ ~start.found
  BY <1>6
<1>10. start \in State
  <2>1. t0 \in MaybeChunk
    BY <1>4, <1>5 DEF Trie, IsBases, MaybeChunk
  <2>2. WordSize - nb \in Nat /\ Null \in MaybeChunk
    BY <1>1, WordAssumption DEF MaybeChunk
  <2>3. QED
    BY <1>6, <2>1, <2>2 DEF State
<1>11. Following(start, 0, nb, B, dp)
  <2>1. Sound(start, nb, B)
    BY <1>9 DEF Sound
  <2>2. CASE I \in treemap
    <3>1. PICK x \in B : x = root[I] /\ x = t0 /\ Index(x) = I /\ x # Null /\ parent[x] = Large!treebin_at(I)
      BY <1>4, <1>5, <2>2
    <3>2. dp[x] = 0
      <4>1. parent[x] \notin B
        BY <1>4, <2>2, <3>1, TreebinsAreDistinct DEF Trie, IsBases, MaybeChunk
      <4>2. QED
        BY <4>1 DEF Trie, ParentsOK, Hangs, IsRoot
    <3>3. OnPathOf(x, nb, 0, dp)
      BY <1>2, <3>1, <3>2 DEF OnPathOf
    <3>4. ASSUME NEW z \in B, InBinOf(z, nb)
          PROVE  Under(x, z, B, dp)
      <4>1. Index(z) = Index(x) /\ dp[z] \in Nat
        BY <1>2, <3>1, <3>4, AtDepth DEF InBinOf
      <4>2. QED
        BY <3>2, <4>1 DEF Under, Agree
    <3>5. Looking(start, 0, nb, B, dp)
      BY <1>9, <3>1, <3>3, <3>4 DEF Looking, Restful
    <3>6. InBinOf(x, nb)
      BY <1>2, <3>1 DEF InBinOf
    <3>7. QED
      BY <1>9, <2>1, <3>1, <3>5, <3>6 DEF Following
  <2>3. CASE I \notin treemap
    <3>1. start.t = Null
      BY <1>5, <1>9, <2>3
    <3>2. \A z \in B : ~InBinOf(z, nb)
      BY <1>2, <2>3 DEF InBinOf
    <3>3. Settled(start, nb, B, dp)
      BY <3>1, <3>2 DEF Settled
    <3>4. QED
      BY <1>9, <2>1, <3>1, <3>3 DEF Following
  <2>4. QED
    BY <2>2, <2>3
<1>12. /\ s \in State /\ Sound(s, nb, B) /\ Settled(s, nb, B, dp)
       /\ s.t # Null => s.t \in B /\ InBinOf(s.t, nb)
       /\ s.v # Null => InBinOf(s.v, nb)
  BY <1>7, <1>10, <1>11, BitsSettle
<1>13. CASE s.t # Null \/ s.v # Null
  <2>1. Trying(s, nb, B, dp)
    BY <1>12, <1>13, SettledIsTrying
  <2>2. PICK r : r = Large!Leftmost(s, nb)
    OBVIOUS
  <2>3. Sound(r, nb, B) /\ \A z \in B : Beaten(r, z, nb)
    BY <1>1, <1>12, <2>1, <2>2, LeftmostFinds
  <2>4. v = r.v
    BY <1>8, <1>13, <2>2
  <2>5. QED
    BY <1>1, <2>3, <2>4, BeatenIsBest
<1>14. CASE s.t = Null /\ s.v = Null
  <2>1. PICK q : q = [s EXCEPT !.t = Large!NextRoot(I)]
    OBVIOUS
  <2>2. PICK u : u = Large!NextRoot(I)
    OBVIOUS
  <2>3. \/ u = Null /\ \A z \in B : Index(z) <= I
        \/ \E i \in treemap : u = root[i] /\ i > I /\ \A z \in B : Index(z) > I => Index(z) >= i
    BY <1>3, <2>2, NextRootIs
  <2>4. u \in MaybeChunk
    BY <1>4, <2>3 DEF Trie, IsBases, MaybeChunk
  <2>5. q \in State /\ q.t = u /\ q.v = Null /\ q.rsize = s.rsize
    BY <1>12, <1>14, <2>1, <2>2, <2>4 DEF State
  <2>6. s.rsize = WordSize - nb
    <3>1. Null \notin B
      BY <1>3
    <3>2. QED
      BY <1>12, <1>14, <3>1 DEF Sound
  <2>7. \A z \in B : Index(z) <= I => size[z] < nb
    <3> SUFFICES ASSUME NEW z \in B, Index(z) = I
                 PROVE  size[z] < nb
      BY <1>3
    <3>1. Beaten(s, z, nb)
      BY <1>2, <1>12, <1>14 DEF Settled, InBinOf, Ahead
    <3>2. QED
      BY <1>1, <1>3, <1>14, <3>1 DEF Beaten
  <2>8. Trying(q, nb, B, dp)
    <3>1. CASE u = Null /\ \A z \in B : Index(z) <= I
      <4>1. \A z \in B : Beaten(q, z, nb)
        <5>1. \A z \in B : ~(size[z] >= nb)
          BY <1>1, <1>3, <2>7, <3>1
        <5>2. QED
          BY <5>1 DEF Beaten
      <4>2. QED
        BY <2>5, <2>6, <3>1, <4>1 DEF Trying, Sound
    <3>2. ASSUME NEW i \in treemap, u = root[i], i > I, \A z \in B : Index(z) > I => Index(z) >= i
          PROVE  Trying(q, nb, B, dp)
      <4>1. i \in 0 .. 31
        BY <1>4, IndicesInRange
      <4>2. \A z \in B : Index(z) < i => Index(z) <= I
        BY <1>3, <3>2, <4>1
      <4>3. \A z \in B : Index(z) < i => size[z] < nb
        BY <2>7, <4>2
      <4>4. \A z \in B : Index(z) >= i => size[z] >= nb
        BY <1>1, <1>3, <3>2, <4>1
      <4>5. QED
        BY <1>1, <2>5, <2>6, <3>2, <4>3, <4>4, TryingRoot
    <3>3. QED
      BY <2>3, <3>1, <3>2
  <2>9. PICK r : r = Large!Leftmost(q, nb)
    OBVIOUS
  <2>10. Sound(r, nb, B) /\ \A z \in B : Beaten(r, z, nb)
    BY <1>1, <2>5, <2>8, <2>9, LeftmostFinds
  <2>11. v = r.v
    BY <1>8, <1>14, <2>1, <2>9
  <2>12. QED
    BY <1>1, <2>10, <2>11, BeatenIsBest
<1>15. QED
  BY <1>13, <1>14

(* What a search knows is its fields. *)
LEMMA StatesAreFields ==
  ASSUME NEW a \in State, NEW b \in State,
         a.t = b.t, a.v = b.v, a.rsize = b.rsize, a.rst = b.rst, a.found = b.found
  PROVE  a = b
BY DEF State

(* "allocate a small request from the best fitting chunk in a treebin".    *)
LEMMA BestSmallIs ==
  ASSUME NEW B, NEW dp, Trie(B, dp), treemap = {Index(x) : x \in B}, treemap # {},
         NEW nb, IsChunkSize(nb), is_small(nb), NEW v, v = Large!BestSmall(nb)
  PROVE  v # Null /\ IsBest(v, nb, B) /\ \A z \in B : size[v] <= size[z]
<1>1. nb \in Nat /\ nb > 0 /\ nb < WordSize /\ nb < 256
  BY DEF IsChunkSize, is_small, small_index, SMALLBIN_WIDTH, NSMALLBINS
<1>2. \A z \in B : /\ size[z] \in Nat /\ size[z] >= 256 /\ size[z] < WordSize /\ z # Null /\ z \in Chunks
                   /\ Index(z) \in 0 .. 31
  BY BaseFacts, LargeIsLarge, IndexInRange DEF Trie, Index
<1>3. treemap \subseteq Nat
  BY <1>2
<1>4. PICK m \in treemap : \A k \in treemap : m <= k
  BY <1>3, LeastElement
<1>5. Large!Min(treemap) = m
  <2>1. treemap \in SUBSET Int
    BY <1>3
  <2>2. QED
    BY <1>4, <2>1, MinIs
<1>6. PICK t : t = root[m]
  OBVIOUS
<1>7. PICK q : q = [t |-> t, v |-> Null, rsize |-> WordSize - nb, rst |-> Null, found |-> TRUE]
  OBVIOUS
<1>8. t \in B /\ t # Null /\ t \in Chunks
  BY <1>2, <1>4, <1>6 DEF Trie, RootsOK, TrieTypes
<1>9. q \in State
  <2>1. WordSize - nb \in Nat /\ Null \in MaybeChunk /\ t \in MaybeChunk
    BY <1>1, <1>8, WordAssumption DEF MaybeChunk
  <2>2. QED
    BY <1>7, <2>1 DEF State
<1>10. q.t = t /\ q.v = Null /\ q.rsize = WordSize - nb /\ q.rst = Null /\ q.found
  BY <1>7
<1>11. Trying(q, nb, B, dp)
  <2>1. \A z \in B : Index(z) \in treemap
    OBVIOUS
  <2>2. \A z \in B : ~(Index(z) < m)
    BY <1>2, <1>3, <1>4, <2>1
  <2>3. \A z \in B : size[z] >= nb
    BY <1>1, <1>2
  <2>4. QED
    BY <1>6, <1>9, <1>10, <2>2, <2>3, TryingRoot
<1>12. PICK s : s = [t |-> FirstChild(t), v |-> t, rsize |-> size[t] - nb, rst |-> Null, found |-> TRUE]
  OBVIOUS
<1>13. s = Large!FollowLeft(q, nb)
  <2>1. PICK x \in Nat : x = size[t] /\ x >= 256 /\ x < WordSize
    BY <1>2, <1>8
  <2>2. Large!Word(x - nb) = x - nb
    BY <1>1, <2>1, WordOfDifference
  <2>3. x - nb < WordSize - nb
    BY <1>1, <2>1, WordAssumption
  <2>4. Large!Better(q, nb) = [q EXCEPT !.v = t, !.rsize = x - nb]
    BY <1>10, <2>1, <2>2, <2>3 DEF Large!Better
  <2>5. [q EXCEPT !.v = t, !.rsize = x - nb] = [t |-> t, v |-> t, rsize |-> x - nb, rst |-> Null, found |-> TRUE]
    <3>1. PICK y \in Nat : y = x - nb
      BY <1>1, <2>1
    <3>2. PICK a, b : /\ a = [q EXCEPT !.v = t, !.rsize = y]
                      /\ b = [t |-> t, v |-> t, rsize |-> y, rst |-> Null, found |-> TRUE]
      OBVIOUS
    <3>3. t \in MaybeChunk /\ Null \in MaybeChunk
      BY <1>8 DEF MaybeChunk
    <3>4. a \in State /\ a.t = t /\ a.v = t /\ a.rsize = y /\ a.rst = Null /\ a.found = TRUE
      BY <1>9, <1>10, <3>2, <3>3 DEF State
    <3>5. b \in State /\ b.t = t /\ b.v = t /\ b.rsize = y /\ b.rst = Null /\ b.found = TRUE
      BY <3>2, <3>3 DEF State
    <3>6. a = b
      BY <3>4, <3>5, StatesAreFields
    <3>7. QED
      BY <3>1, <3>2, <3>6
  <2>6. Large!leftmost_child(t) = FirstChild(t)
    <3>1. TrieTypes
      BY DEF Trie
    <3>2. QED
      BY <1>8, <3>1, FirstChildFacts
  <2>7. Large!FollowLeft(q, nb) = [Large!Better(q, nb) EXCEPT !.t = FirstChild(t)]
    BY <1>8, <1>10, <2>6 DEF Large!FollowLeft
  <2>8. QED
    BY <1>12, <2>1, <2>4, <2>5, <2>7
<1>14. s \in State /\ Trying(s, nb, B, dp)
  BY <1>9, <1>11, <1>13, LeftStep
<1>15. v = Large!Leftmost(s, nb).v
  <2>1. Large!leftmost_child(t) = FirstChild(t)
    BY <1>8, FirstChildFacts DEF Trie
  <2>2. QED
    BY <1>5, <1>6, <1>12, <2>1 DEF Large!BestSmall
<1>16. PICK r : r = Large!Leftmost(s, nb)
  OBVIOUS
<1>17. Sound(r, nb, B) /\ \A z \in B : Beaten(r, z, nb)
  BY <1>14, <1>16, LeftmostFinds
<1>18. IsBest(v, nb, B)
  BY <1>15, <1>16, <1>17, BeatenIsBest
<1>19. \A z \in B : size[z] >= nb
  BY <1>1, <1>2
<1>20. v # Null
  BY <1>1, <1>2, <1>8, <1>18, <1>19 DEF IsBest
<1>21. QED
  BY <1>18, <1>19, <1>20 DEF IsBest

-----------------------------------------------------------------------------
(* The steps of the program.                                               *)

(* What a step may do to the lists. *)
ListStep(L, L2) ==
  \/ L2 = L
  \/ \E P \in Chunks, S \in AllSizes : size[P] = 0 /\ L2 = Added(L, P, S)
  \/ \E S \in DOMAIN L : \E k \in 1 .. Len(L[S]) : L2 = Removed(L, S, k)

(* The step leads to bins that hold lists again. *)
Steps(L) == \E L2, dp2 : Good(L2, dp2)' /\ ListStep(L, L2)

(* insert_chunk is a step of the lists. *)
LEMMA InsertSteps ==
  ASSUME NEW L, NEW dp, Good(L, dp), workload' = workload,
         NEW P \in Chunks, NEW S \in workload.sizes, insert_chunk(P, S)
  PROVE  Steps(L)
<1>1. S \in AllSizes
  BY DEF Good, AllSizes
<1>2. PICK L2 : L2 = Added(L, P, S)
  OBVIOUS
<1>3. size[P] = 0 /\ \E dp2 : Good(L2, dp2)'
  <2>1. CASE is_small(S)
    <3>1. S \in SmallSizes
      BY <1>1, <2>1, SizeFacts
    <3>2. Small!insert_small_chunk(P, S) /\ UNCHANGED trees
      BY <2>1 DEF insert_chunk
    <3>3. QED
      BY <1>2, <3>1, <3>2, SmallInsertIsGood
  <2>2. CASE ~is_small(S)
    <3>1. S \in LargeSizes
      BY <1>1, <2>2, SizeFacts
    <3>2. Large!insert_large_chunk(P, S) /\ smallmap' = smallmap
      BY <2>2 DEF insert_chunk
    <3>3. QED
      BY <1>2, <3>1, <3>2, LargeInsertIsGood
  <2>3. QED
    BY <2>1, <2>2
<1>4. ListStep(L, L2)
  BY <1>1, <1>2, <1>3 DEF ListStep
<1>5. QED
  BY <1>3, <1>4 DEF Steps

(* A removal is a step of the lists. *)
LEMMA RemovalSteps ==
  ASSUME NEW L, NEW S \in DOMAIN L, NEW k \in 1 .. Len(L[S]), \E dp2 : Good(Removed(L, S, k), dp2)'
  PROVE  Steps(L)
<1>1. PICK L2 : L2 = Removed(L, S, k)
  OBVIOUS
<1>2. \E dp2 : Good(L2, dp2)'
  BY <1>1
<1>3. ListStep(L, L2)
  BY <1>1 DEF ListStep
<1>4. QED
  BY <1>2, <1>3 DEF Steps

(* unlink_small_chunk is a step of the lists. *)
LEMMA SmallUnlinkSteps ==
  ASSUME NEW L, NEW dp, Good(L, dp), workload' = workload,
         NEW P \in Chunks, is_small(size[P]), Small!unlink_small_chunk(P), UNCHANGED trees
  PROVE  Steps(L)
<1>1. PICK s : s = size[P] /\ is_small(s)
  OBVIOUS
<1>2. s \in DOMAIN L /\ \E k \in 1 .. Len(L[s]) : L[s][k] = P /\ \E dp2 : Good(Removed(L, s, k), dp2)'
  BY <1>1, SmallUnlinkIsGood
<1>3. PICK k \in 1 .. Len(L[s]) : \E dp2 : Good(Removed(L, s, k), dp2)'
  BY <1>2
<1>4. QED
  BY <1>2, <1>3, RemovalSteps

(* unlink_large_chunk is a step of the lists. *)
LEMMA LargeUnlinkSteps ==
  ASSUME NEW L, NEW dp, Good(L, dp), workload' = workload,
         NEW P \in Chunks, ~is_small(size[P]), Large!unlink_large_chunk(P), smallmap' = smallmap
  PROVE  Steps(L)
<1>1. PICK s : s = size[P] /\ ~is_small(s)
  OBVIOUS
<1>2. s \in DOMAIN L /\ \E k \in 1 .. Len(L[s]) : L[s][k] = P /\ \E dp2 : Good(Removed(L, s, k), dp2)'
  BY <1>1, LargeUnlinkIsGood
<1>3. PICK k \in 1 .. Len(L[s]) : \E dp2 : Good(Removed(L, s, k), dp2)'
  BY <1>2
<1>4. QED
  BY <1>2, <1>3, RemovalSteps

(* The first small bin from that of nb on that has a chunk. *)
LEMMA SmallbitsAre ==
  ASSUME NEW L, NEW dp, Good(L, dp), NEW nb, smallbits(nb) # {}
  PROVE  \E S \in DOMAIN L \cap SmallSizes :
           /\ Min(smallbits(nb)) = small_index(S) /\ small_index(S) >= small_index(nb)
           /\ \A U \in DOMAIN L \cap SmallSizes : small_index(U) >= small_index(nb) => S <= U
<1>1. smallmap = {small_index(S) : S \in DOMAIN L \cap SmallSizes}
  BY DEF Good, Marks
<1>2. \A S \in SmallSizes : small_index(S) \in 0 .. 31 /\ S = 8 * small_index(S)
  BY SmallSizeFacts
<1>3. PICK T : T = smallbits(nb)
  OBVIOUS
<1>4. T = {i \in smallmap : i >= small_index(nb)} /\ T \subseteq Nat /\ T # {}
  BY <1>1, <1>2, <1>3 DEF smallbits
<1>5. PICK m \in T : \A k \in T : m <= k
  BY <1>4, LeastElement
<1>6. Min(T) = m
  <2>1. T \in SUBSET Int
    BY <1>4
  <2>2. QED
    BY <1>5, <2>1, MinIs
<1>7. PICK S \in DOMAIN L \cap SmallSizes : m = small_index(S)
  BY <1>1, <1>4
<1>8. ASSUME NEW U \in DOMAIN L \cap SmallSizes, small_index(U) >= small_index(nb)
      PROVE  S <= U
  <2>1. small_index(U) \in T
    BY <1>1, <1>4, <1>8
  <2>2. m <= small_index(U)
    BY <1>5, <2>1
  <2>3. PICK x, y \in Int : x = small_index(S) /\ y = small_index(U) /\ S = 8 * x /\ U = 8 * y
    BY <1>2
  <2>4. QED
    BY <1>7, <2>2, <2>3
<1>9. QED
  BY <1>3, <1>4, <1>6, <1>7, <1>8

(* An allocation from a small bin is a step of the lists. *)
LEMMA MallocSmallSteps ==
  ASSUME NEW L, NEW dp, Good(L, dp), workload' = workload, NEW nb, malloc_small(nb)
  PROVE  Steps(L)
<1>1. smallbits(nb) # {} /\ Small!unlink_first_small_chunk(Min(smallbits(nb))) /\ UNCHANGED trees
  BY DEF malloc_small
<1>2. PICK S \in DOMAIN L \cap SmallSizes : Min(smallbits(nb)) = small_index(S)
  BY <1>1, SmallbitsAre
<1>3. Small!unlink_first_small_chunk(small_index(S))
  BY <1>1, <1>2
<1>4. Len(L[S]) \in 1 .. Len(L[S]) /\ \E dp2 : Good(Removed(L, S, Len(L[S])), dp2)'
  BY <1>1, <1>3, MallocSmallIsGood
<1>5. QED
  BY <1>4, RemovalSteps

(* What is needed is a chunk size. *)
LEMMA NeedsAre ==
  ASSUME NEW L, NEW dp, Good(L, dp), NEW nb \in workload.needs
  PROVE  IsChunkSize(nb) /\ nb \in Nat /\ nb > 0 /\ nb < WordSize /\ (~is_small(nb) => IsLarge(nb))
<1>1. IsChunkSize(nb)
  BY BinsAssumption DEF Good
<1>2. QED
  BY <1>1 DEF IsChunkSize, IsLarge

(* What the searches find in bins that hold lists. *)
LEMMA SearchesFind ==
  ASSUME NEW L, NEW dp, Good(L, dp), NEW nb \in workload.needs
  PROVE  /\ ~is_small(nb) => IsBest(Large!BestLarge(nb), nb, BasesOf(L))
         /\ is_small(nb) /\ treemap # {} =>
              /\ IsBest(Large!BestSmall(nb), nb, BasesOf(L)) /\ Large!BestSmall(nb) # Null
              /\ \A z \in BasesOf(L) : size[Large!BestSmall(nb)] <= size[z]
<1>1. PICK B : B = BasesOf(L) /\ Trie(B, dp) /\ treemap = {Index(x) : x \in B}
  BY GoodMap DEF Good
<1>2. IsChunkSize(nb) /\ (~is_small(nb) => IsLarge(nb))
  BY NeedsAre
<1>3. ~is_small(nb) => IsBest(Large!BestLarge(nb), nb, B)
  BY <1>1, <1>2, BestLargeIs
<1>4. is_small(nb) /\ treemap # {} =>
         /\ IsBest(Large!BestSmall(nb), nb, B) /\ Large!BestSmall(nb) # Null
         /\ \A z \in B : size[Large!BestSmall(nb)] <= size[z]
  BY <1>1, <1>2, BestSmallIs
<1>5. QED
  BY <1>1, <1>3, <1>4

(* What a search of the tries finds is a large chunk. *)
LEMMA BestIsLarge ==
  ASSUME NEW L, NEW dp, Good(L, dp), NEW nb, NEW v, v # Null, IsBest(v, nb, BasesOf(L))
  PROVE  v \in Chunks /\ ~is_small(size[v])
<1>1. v \in BasesOf(L)
  BY DEF IsBest
<1>2. v \in Chunks /\ size[v] \in LargeSizes
  BY <1>1, GoodFacts
<1>3. QED
  BY <1>2, SizeFacts DEF LargeSizes

(* Every action is a step of the lists. *)
LEMMA NextSteps ==
  ASSUME NEW L, NEW dp, Good(L, dp), Next
  PROVE  Steps(L)
<1>1. workload' = workload
  BY DEF Next
<1>2. ASSUME NEW P \in Chunks, NEW S \in workload.sizes, insert_chunk(P, S)
      PROVE  Steps(L)
  BY <1>1, <1>2, InsertSteps
<1>3. ASSUME NEW P \in Chunks, unlink_chunk(P)
      PROVE  Steps(L)
  BY <1>1, <1>3, SmallUnlinkSteps, LargeUnlinkSteps DEF unlink_chunk
<1>4. ASSUME NEW nb \in workload.needs, malloc_small(nb)
      PROVE  Steps(L)
  BY <1>1, <1>4, MallocSmallSteps
<1>5. ASSUME NEW nb \in workload.needs, tmalloc_small(nb)
      PROVE  Steps(L)
  <2>1. /\ is_small(nb) /\ treemap # {} /\ Large!unlink_large_chunk(Large!BestSmall(nb))
        /\ smallmap' = smallmap
    BY <1>5 DEF tmalloc_small, Large!tmalloc_small
  <2>2. PICK v : v = Large!BestSmall(nb)
    OBVIOUS
  <2>3. v # Null /\ IsBest(v, nb, BasesOf(L))
    BY <2>1, <2>2, SearchesFind
  <2>4. v \in Chunks /\ ~is_small(size[v])
    BY <2>3, BestIsLarge
  <2>5. QED
    BY <1>1, <2>1, <2>2, <2>4, LargeUnlinkSteps
<1>6. ASSUME NEW nb \in workload.needs, tmalloc_large(nb)
      PROVE  Steps(L)
  <2>1. /\ ~is_small(nb) /\ Large!BestLarge(nb) # Null /\ Large!unlink_large_chunk(Large!BestLarge(nb))
        /\ smallmap' = smallmap
    BY <1>6 DEF tmalloc_large, Large!tmalloc_large
  <2>2. PICK v : v = Large!BestLarge(nb)
    OBVIOUS
  <2>3. v # Null /\ IsBest(v, nb, BasesOf(L))
    BY <2>1, <2>2, SearchesFind
  <2>4. v \in Chunks /\ ~is_small(size[v])
    BY <2>3, BestIsLarge
  <2>5. QED
    BY <1>1, <2>1, <2>2, <2>4, LargeUnlinkSteps
<1>7. QED
  BY <1>2, <1>3, <1>4, <1>5, <1>6 DEF Next

(* Some lists and depths. *)
HoldLists == \E L, dp : Good(L, dp)

(* A step that changes nothing keeps the lists. *)
LEMMA StutterSteps ==
  ASSUME NEW L, NEW dp, Good(L, dp), UNCHANGED vars
  PROVE  Steps(L)
<1>1. Good(L, dp)'
  <2>1. /\ fd' = fd /\ bk' = bk /\ smallmap' = smallmap /\ treemap' = treemap /\ root' = root
        /\ child' = child /\ parent' = parent /\ size' = size /\ aborted' = aborted /\ workload' = workload
    BY DEF vars, trees
  <2>2. Lists(L)' /\ Marks(L)' /\ Chained(L)'
    BY <2>1 DEF Good, Lists, Marks, Chained
  <2>3. Links(L)'
    BY <2>1 DEF Good, Links, RingsOK
  <2>4. Trie(BasesOf(L), dp)'
    BY <2>1 DEF Good, Trie, TrieTypes, IsBases, ParentsOK, ChildrenOK, RootsOK, IsRoot, Hangs, Agree, Index
  <2>5. QED
    BY <2>1, <2>2, <2>3, <2>4 DEF Good
<1>2. ListStep(L, L)
  BY DEF ListStep
<1>3. QED
  BY <1>1, <1>2 DEF Steps

(* Every step keeps the bins in good order: HoldLists is inductive.        *)
LEMMA ListsAreKept == HoldLists /\ [Next]_vars => HoldLists'
<1> SUFFICES ASSUME HoldLists, [Next]_vars
             PROVE  HoldLists'
  OBVIOUS
<1>1. PICK L, dp : Good(L, dp)
  BY DEF HoldLists
<1>2. Steps(L)
  BY <1>1, NextSteps, StutterSteps
<1>3. QED
  BY <1>2 DEF Steps, HoldLists

(* The bins hold lists after any order of insertions, removals and         *)
(* allocations: the inductive invariant of the theorems below.             *)
THEOREM BinsHoldLists == Spec => []HoldLists
<1>1. Init => HoldLists
  BY EmptyIsGood DEF HoldLists
<1>2. HoldLists /\ [Next]_vars => HoldLists'
  BY ListsAreKept
<1>3. QED
  BY <1>1, <1>2, PTL DEF Spec

(* do_check_smallbin and do_check_treebin hold after any order of          *)
(* insertions, removals and allocations.                                   *)
THEOREM BinsAreWellLinked == Spec => []WellLinked
<1>1. HoldLists => WellLinked
  BY GoodIsWellLinked DEF HoldLists
<1>2. QED
  BY <1>1, BinsHoldLists, PTL

-----------------------------------------------------------------------------
(* The lists that the bins stand for.                                      *)

(* A list has as many chunks as have its size. *)
LEMMA ListCounts ==
  ASSUME NEW L, Lists(L), NEW S \in DOMAIN L, NEW X, X = {x \in Chunks : size[x] = S}
  PROVE  Cardinality(X) = Len(L[S]) /\ Len(L[S]) <= Count
<1>1. PICK n \in Nat : n = Len(L[S])
  BY ListFacts
<1>2. DEFINE f == [i \in 1 .. n |-> L[S][i]]
<1>3. \A i \in 1 .. n : L[S][i] \in X
  BY <1>1, ListFacts DEF Lists
<1>4. f \in [1 .. n -> X]
  BY <1>3
<1>5. \A i, j \in 1 .. n : f[i] = f[j] => i = j
  <2> SUFFICES ASSUME NEW i \in 1 .. n, NEW j \in 1 .. n, L[S][i] = L[S][j]
               PROVE  i = j
    OBVIOUS
  <2>1. QED
    BY <1>1 DEF Lists
<1>6. \A x \in X : \E i \in 1 .. n : f[i] = x
  <2> SUFFICES ASSUME NEW x \in X
               PROVE  \E i \in 1 .. n : L[S][i] = x
    OBVIOUS
  <2>1. x \in Chunks /\ size[x] = S
    OBVIOUS
  <2>2. S # 0
    BY ListFacts, SizeFacts
  <2>3. QED
    BY <1>1, <2>1, <2>2, PlaceOf
<1> HIDE DEF f
<1>7. f \in Bijection(1 .. n, X)
  BY <1>4, <1>5, <1>6 DEF Bijection, Injection, Surjection, IsInjective
<1>8. Cardinality(X) = n
  <2>1. ExistsBijection(1 .. n, X)
    BY <1>7 DEF ExistsBijection
  <2>2. QED
    BY <2>1, FS_CountingElements
<1>9. X \subseteq Chunks
  OBVIOUS
<1>10. Cardinality(X) <= Cardinality(Chunks)
  BY <1>9, ChunksAreFinite, FS_Subset
<1>11. QED
  BY <1>1, <1>8, <1>10 DEF Count

(* A ring, read from the node of the trie on, is the list of its size. *)
LEMMA RingIs ==
  ASSUME NEW L, NEW dp, Good(L, dp), NEW S \in DOMAIN L \cap LargeSizes
  PROVE  Large!Ring(S) = L[S]
<1>1. Lists(L) /\ Links(L)
  BY DEF Good
<1>2. PICK n \in Nat : n = Len(L[S]) /\ n >= 1 /\ 1 \in 1 .. n
  BY <1>1, ListFacts
<1>3. L[S] \in Seq(Chunks)
  BY <1>1, ListFacts
<1>4. PICK q : q = L[S]
  OBVIOUS
<1>5. q = [k \in 1 .. n |-> q[k]]
  BY <1>2, <1>3, <1>4
<1>6. \A k \in 1 .. n : k # n => bk[q[k]] = q[k + 1]
  <2>1. First(S) = 1
    BY SizeFacts DEF LargeSizes, First
  <2>2. PICK c : c = NodeAt(q, S)
    OBVIOUS
  <2>3. IsRing(c, 1, n, fd, bk)
    BY <1>1, <1>2, <1>4, <2>1, <2>2 DEF Links, RingsOK
  <2>4. \A k \in 1 .. n : c[k] = q[k]
    BY <1>2, <1>4, <2>1, <2>2 DEF NodeAt
  <2>5. ASSUME NEW k \in 1 .. n, k # n
        PROVE  bk[q[k]] = q[k + 1]
    <3>1. k + 1 \in 1 .. n
      BY <1>2, <2>5
    <3>2. bk[c[k]] = c[k + 1]
      BY <2>3, <2>5 DEF IsRing
    <3>3. QED
      BY <2>4, <2>5, <3>1, <3>2
  <2>6. QED
    BY <2>5
<1>7. PICK base : base = CHOOSE x \in Large!Bases : size[x] = S
  OBVIOUS
<1>8. base = q[1]
  <2>1. q[1] \in Large!Bases /\ size[q[1]] = S
    BY <1>1, <1>2, <1>4, BasesAre, GoodBases DEF Lists
  <2>2. base \in Large!Bases /\ size[base] = S
    BY <1>7, <2>1
  <2>3. base = q[1]
    BY <2>1, <2>2, GoodBases DEF Good, Trie, IsBases
  <2>4. QED
    BY <2>3
<1>9. Large!Cardinality({x \in Large!Binned : size[x] = S}) = n
  <2>1. {x \in Large!Binned : size[x] = S} = {x \in Chunks : size[x] = S}
    BY GoodBases
  <2>2. PICK X : X = {x \in Chunks : size[x] = S}
    OBVIOUS
  <2>3. Cardinality(X) = n
    BY <1>1, <1>2, <2>2, ListCounts
  <2>4. Large!Cardinality(X) = n
    BY <2>3 DEF Large!Cardinality, Cardinality
  <2>5. QED
    BY <2>1, <2>2, <2>4
<1> DEFINE Next1(f, k) == IF k = 1 THEN base ELSE bk[f[k - 1]]
           chosen == CHOOSE f : f = [k \in 1 .. n |-> Next1(f, k)]
<1>10. Large!Ring(S) = chosen
  BY <1>7, <1>9 DEF Large!Ring
<1>11. \A k \in 1 .. n : q[k] = Next1(q, k)
  <2> SUFFICES ASSUME NEW k \in 1 .. n
               PROVE  q[k] = Next1(q, k)
    OBVIOUS
  <2>1. CASE k = 1
    BY <1>8, <2>1
  <2>2. CASE k # 1
    <3>1. k - 1 \in 1 .. n /\ k - 1 # n /\ (k - 1) + 1 = k
      BY <1>2, <2>2
    <3>2. bk[q[k - 1]] = q[k]
      BY <1>6, <3>1
    <3>3. QED
      BY <2>2, <3>2
  <2>3. QED
    BY <2>1, <2>2
<1>12. q = [k \in 1 .. n |-> Next1(q, k)]
  <2> HIDE DEF Next1
  <2>1. QED
    BY <1>5, <1>11
<1>13. chosen = [k \in 1 .. n |-> Next1(chosen, k)]
  <2> HIDE DEF Next1
  <2>1. QED
    BY <1>12
<1> HIDE DEF chosen
<1>14. \A k \in 1 .. n : chosen[k] = Next1(chosen, k)
  <2> HIDE DEF Next1
  <2>1. QED
    BY <1>13
<1> DEFINE T == {k \in Nat : k + 1 <= n => chosen[k + 1] = q[k + 1]}
<1>15. 0 \in T
  BY <1>2, <1>8, <1>14
<1>16. ASSUME NEW k \in Nat, k \in T
       PROVE  k + 1 \in T
  <2> SUFFICES ASSUME (k + 1) + 1 <= n
               PROVE  chosen[(k + 1) + 1] = q[(k + 1) + 1]
    OBVIOUS
  <2>1. PICK m \in 1 .. n : m = (k + 1) + 1 /\ m # 1 /\ m - 1 = k + 1
    BY <1>2
  <2>2. chosen[k + 1] = q[k + 1]
    BY <1>2, <1>16
  <2>3. chosen[m] = bk[chosen[m - 1]] /\ q[m] = bk[q[m - 1]]
    BY <1>11, <1>14, <2>1
  <2>4. QED
    BY <2>1, <2>2, <2>3
<1>17. ASSUME NEW k \in 1 .. n
       PROVE  chosen[k] = q[k]
  <2>1. Nat \subseteq T
    <3> HIDE DEF T
    <3>1. QED
      BY <1>15, <1>16, Induction
  <2>2. k - 1 \in Nat /\ (k - 1) + 1 = k
    OBVIOUS
  <2>3. k - 1 \in T
    BY <2>1, <2>2
  <2>4. (k - 1) + 1 <= n => chosen[(k - 1) + 1] = q[(k - 1) + 1]
    BY <2>3
  <2>5. QED
    BY <1>2, <2>2, <2>4
<1>18. chosen = [k \in 1 .. n |-> chosen[k]]
  <2> HIDE DEF Next1
  <2>1. QED
    BY <1>13, <1>14
<1>19. chosen = q
  BY <1>5, <1>17, <1>18
<1>20. QED
  BY <1>4, <1>10, <1>19

(* The walk back through a list of a small bin, from the bin.              *)
BackFrom(x) == IF x \in Small!Nodes THEN bk[x] ELSE x

(* All of the walk. *)
BackWalk(b) ==
  LET w[n \in 0 .. Small!Cardinality(Chunks) + 1] == IF n = 0 THEN b ELSE BackFrom(w[n - 1])
  IN  w

(* The steps of the walk. *)
BackSteps(w, b) ==
  /\ w = [n \in 0 .. Count + 1 |-> w[n]]
  /\ w[0] = b
  /\ \A n \in 1 .. Count + 1 : w[n] = BackFrom(w[n - 1])

(* The walk back takes the steps it is defined by. *)
LEMMA BackWalkIs ==
  ASSUME NEW L, NEW dp, Good(L, dp), NEW b \in Nodes
  PROVE  BackSteps(BackWalk(b), b)
<1> DEFINE N == Count + 1
           V == Nodes \cup {Null}
           step == [d \in 1 .. N |-> [x \in V |-> BackFrom(x)]]
           Back(f, n) == IF n = 0 THEN b ELSE BackFrom(f[n - 1])
           chosen == CHOOSE f : f = [n \in 0 .. N |-> Back(f, n)]
<1>1. N \in Nat /\ N # 0 /\ \A d \in 1 .. N : d \in 0 .. N /\ d # 0
  BY CountIsNat
<1>2. \A x \in V : BackFrom(x) \in V
  <2>1. Small!Nodes = Nodes
    BY SmallNames DEF Small!Nodes, Nodes
  <2>2. bk \in [Nodes -> Nodes \cup {Null}]
    BY GoodFacts
  <2>3. QED
    BY <2>1, <2>2 DEF BackFrom
<1>3. step \in [1 .. N -> [V -> V]]
  BY <1>2
<1>4. \A d \in 1 .. N : \A x \in V : step[d][x] = BackFrom(x)
  OBVIOUS
<1>5. b \in V
  OBVIOUS
<1> HIDE DEF N, V, step
<1>6. PICK w : Walks(w, N, V, b, step)
  BY <1>1, <1>3, <1>5, Iteration
<1>7. ASSUME NEW d \in 0 .. N
      PROVE  w[d] = Back(w, d)
  <2>1. CASE d = 0
    BY <1>6, <2>1 DEF Walks
  <2>2. CASE d # 0
    <3>1. d \in 1 .. N /\ d - 1 \in 0 .. N
      BY <1>1, <2>2
    <3>2. w[d] = step[d][w[d - 1]] /\ w[d - 1] \in V
      BY <1>6, <3>1 DEF Walks
    <3>3. QED
      BY <1>4, <2>2, <3>1, <3>2
  <2>3. QED
    BY <2>1, <2>2
<1>8. w = [d \in 0 .. N |-> Back(w, d)]
  <2> HIDE DEF Back
  <2>1. w = [d \in 0 .. N |-> w[d]]
    BY <1>6 DEF Walks
  <2>2. QED
    BY <1>7, <2>1
<1>9. chosen = [d \in 0 .. N |-> Back(chosen, d)]
  <2> HIDE DEF Back
  <2>1. QED
    BY <1>8
<1>10. BackWalk(b) = chosen
  BY DEF BackWalk, N, Count, Small!Cardinality, Cardinality
<1> HIDE DEF chosen
<1>11. \A d \in 0 .. N : chosen[d] = Back(chosen, d)
  <2> HIDE DEF Back
  <2>1. QED
    BY <1>9
<1>12. chosen = [d \in 0 .. N |-> chosen[d]]
  <2> HIDE DEF Back
  <2>1. QED
    BY <1>9, <1>11
<1>13. chosen[0] = b /\ \A d \in 1 .. N : chosen[d] = BackFrom(chosen[d - 1])
  BY <1>1, <1>11
<1>14. QED
  BY <1>10, <1>12, <1>13 DEF BackSteps, N

(* A small bin, read back from its head, is the list of its size. *)
LEMMA ListedIs ==
  ASSUME NEW L, NEW dp, Good(L, dp), NEW S \in DOMAIN L \cap SmallSizes
  PROVE  Small!Listed(S) = L[S]
<1>1. Lists(L) /\ Links(L)
  BY DEF Good
<1>2. PICK n \in Nat : n = Len(L[S]) /\ n >= 1 /\ n <= Count
  <2>1. PICK X : X = {x \in Chunks : size[x] = S}
    OBVIOUS
  <2>2. Len(L[S]) <= Count
    BY <1>1, <2>1, ListCounts
  <2>3. QED
    BY <1>1, <2>2, ListFacts
<1>3. PICK q : q = L[S] /\ q \in Seq(Chunks)
  BY <1>1, ListFacts
<1>4. q = [k \in 1 .. n |-> q[k]]
  BY <1>2, <1>3
<1>5. PICK c : c = NodeAt(q, S)
  OBVIOUS
<1>6. First(S) = 0 /\ Bin(S) \in Nodes
  BY SmallSizeFacts DEF First
<1>7. IsRing(c, 0, n, fd, bk)
  BY <1>1, <1>2, <1>3, <1>5, <1>6 DEF Links, RingsOK
<1>8. \A i \in 0 .. n : c[i] = IF i = 0 THEN Bin(S) ELSE q[i]
  BY <1>2, <1>3, <1>5, <1>6 DEF NodeAt
<1>9. /\ \A i \in 0 .. n : c[i] \in Nodes
      /\ \A i \in 1 .. n : c[i] # Bin(S)
  <2>1. \A i \in 1 .. n : q[i] \in Chunks
    BY <1>2, <1>3
  <2>2. Bin(S) \notin Chunks
    BY SmallSizeFacts
  <2>3. QED
    BY <1>6, <1>8, <2>1, <2>2 DEF Nodes
<1>10. PICK b, w : b = Bin(S) /\ w = BackWalk(b)
  OBVIOUS
<1>11. BackSteps(w, b)
  BY <1>6, <1>10, BackWalkIs
<1>12. Small!Nodes = Nodes
  BY SmallNames DEF Small!Nodes, Nodes
<1> DEFINE T == {k \in Nat : k <= n => w[k] = c[k]}
<1>13. 0 \in T
  BY <1>2, <1>8, <1>10, <1>11 DEF BackSteps
<1>14. ASSUME NEW k \in Nat, k \in T
       PROVE  k + 1 \in T
  <2> SUFFICES ASSUME k + 1 <= n
               PROVE  w[k + 1] = c[k + 1]
    OBVIOUS
  <2>1. k \in 0 .. n /\ k # n /\ k + 1 \in 1 .. Count + 1 /\ (k + 1) - 1 = k /\ w[k] = c[k]
    BY <1>2, <1>14, CountIsNat
  <2>2. bk[c[k]] = c[k + 1] /\ c[k] \in Nodes
    BY <1>7, <1>9, <2>1 DEF IsRing
  <2>3. w[k + 1] = BackFrom(w[k])
    BY <1>11, <2>1 DEF BackSteps
  <2>4. QED
    BY <1>12, <2>1, <2>2, <2>3 DEF BackFrom
<1>15. \A k \in 0 .. n : w[k] = c[k]
  <2>1. Nat \subseteq T
    <3> HIDE DEF T
    <3>1. QED
      BY <1>13, <1>14, Induction
  <2>2. QED
    BY <2>1
<1>16. w[n + 1] = b
  <2>1. n \in 0 .. n /\ n + 1 \in 1 .. Count + 1 /\ (n + 1) - 1 = n /\ 0 \in 0 .. n
    BY <1>2, CountIsNat
  <2>2. bk[c[n]] = c[0] /\ c[n] \in Nodes /\ c[0] = b
    BY <1>7, <1>8, <1>9, <1>10, <2>1 DEF IsRing
  <2>3. w[n + 1] = BackFrom(w[n]) /\ w[n] = c[n]
    BY <1>11, <1>15, <2>1 DEF BackSteps
  <2>4. QED
    BY <1>12, <2>2, <2>3 DEF BackFrom
<1> DEFINE Ends0 == {k \in 1 .. Small!Cardinality(Chunks) + 1 : w[k] = b}
           len == IF Ends0 = {} THEN 0 ELSE (CHOOSE k \in Ends0 : \A m \in Ends0 : k <= m) - 1
<1>17. Small!Listed(S) = [k \in 1 .. len |-> w[k]]
  <2>1. b = Small!smallbin_at(Small!small_index(S))
    BY <1>10, SmallIndex DEF Bin
  <2>2. QED
    BY <1>10, <2>1 DEF Small!Listed, BackWalk, BackFrom
<1>18. Small!Cardinality(Chunks) = Count
  BY DEF Small!Cardinality, Cardinality, Count
<1>19. n + 1 \in Ends0 /\ \A k \in Ends0 : n + 1 <= k
  <2>1. n + 1 \in Ends0
    BY <1>2, <1>16, <1>18, CountIsNat
  <2>2. ASSUME NEW k \in Ends0, k <= n
        PROVE  FALSE
    <3>1. k \in 1 .. n /\ k \in 0 .. n /\ w[k] = b
      BY <1>2, <1>18, <2>2, CountIsNat
    <3>2. QED
      BY <1>9, <1>10, <1>15, <3>1
  <2>3. Ends0 \subseteq Nat
    BY <1>18, CountIsNat
  <2>4. QED
    BY <2>1, <2>2, <2>3
<1>20. len = n
  <2>1. Ends0 \subseteq Nat
    BY <1>18, CountIsNat
  <2> HIDE DEF Ends0
  <2>2. PICK e : e = CHOOSE k \in Ends0 : \A m \in Ends0 : k <= m
    OBVIOUS
  <2>3. e \in Ends0 /\ \A m \in Ends0 : e <= m
    BY <1>19, <2>2
  <2>4. e = n + 1
    BY <1>19, <2>1, <2>3
  <2>5. Ends0 # {}
    BY <1>19
  <2>6. len = e - 1
    BY <2>2, <2>5
  <2>7. e - 1 = n
    BY <2>4
  <2>8. QED
    <3> HIDE DEF len
    <3>1. QED
      BY <2>6, <2>7
<1>21. [k \in 1 .. n |-> w[k]] = q
  <2>1. \A k \in 1 .. n : w[k] = q[k]
    BY <1>8, <1>15
  <2>2. QED
    BY <1>4, <2>1
<1>22. QED
  <2> HIDE DEF len
  <2>1. QED
    BY <1>3, <1>17, <1>20, <1>21

(* Bins that hold lists stand for these lists. *)
LEMMA GoodBins ==
  ASSUME NEW L, NEW dp, Good(L, dp)
  PROVE  bins = L
<1>1. Lists(L) /\ Marks(L)
  BY DEF Good
<1>2. \A s : s \in Small!MarkedSizes <=> s \in DOMAIN L \cap SmallSizes
  <2>1. \A s \in SmallSizes : small_index(s) \in smallmap <=> s \in DOMAIN L
    BY MarkOf
  <2>2. QED
    BY <2>1, SmallIndex DEF Small!MarkedSizes, Small!smallmap_is_marked
<1>3. \A s : s \in Large!RingSizes <=> s \in DOMAIN L \cap LargeSizes
  <2>1. ASSUME NEW x \in BasesOf(L)
        PROVE  size[x] \in DOMAIN L \cap LargeSizes
    <3>1. x \in Chunks /\ size[x] \in LargeSizes /\ size[x] # 0
      BY GoodFacts
    <3>2. QED
      BY <1>1, <3>1, PlaceOf
  <2>2. ASSUME NEW S \in DOMAIN L \cap LargeSizes
        PROVE  L[S][1] \in BasesOf(L) /\ size[L[S][1]] = S
    <3>1. 1 \in 1 .. Len(L[S])
      BY <1>1, ListFacts
    <3>2. QED
      BY <1>1, <3>1, BasesAre DEF Lists
  <2>3. QED
    BY <2>1, <2>2, GoodBases DEF Large!RingSizes
<1>4. \A s \in DOMAIN L : s \in SmallSizes \/ s \in LargeSizes
  BY <1>1, ListFacts, SizeFacts
<1>5. Small!MarkedSizes \cup Large!RingSizes = DOMAIN L
  BY <1>2, <1>3, <1>4
<1>6. ASSUME NEW S \in DOMAIN L
      PROVE  (IF is_small(S) THEN Small!Listed(S) ELSE Large!Ring(S)) = L[S]
  <2>1. S \in AllSizes
    BY <1>1, ListFacts
  <2>2. CASE is_small(S)
    BY <2>1, <2>2, SizeFacts, ListedIs
  <2>3. CASE ~is_small(S)
    BY <2>1, <2>3, SizeFacts, RingIs
  <2>4. QED
    BY <2>2, <2>3
<1>7. L = [S \in DOMAIN L |-> L[S]]
  BY <1>1 DEF Lists
<1>8. QED
  BY <1>5, <1>6, <1>7 DEF bins

-----------------------------------------------------------------------------
(* malloc finds the best fit.                                              *)

(* The sizes in the bins that are large enough. *)
Fit(L, nb) == {S \in DOMAIN L : S >= nb}

(* The smallest size that fits, and the chunk of it that malloc is to take. *)
Choice(L, U) == IF is_small(U) THEN L[U][Len(L[U])] ELSE L[U][1]

(* The least of the sizes that fit. *)
LEMMA SmallestFit ==
  ASSUME NEW L, Lists(L), NEW nb \in Nat, NEW U \in DOMAIN L, U >= nb,
         \A S \in DOMAIN L : S >= nb => U <= S
  PROVE  Min(Fit(L, nb)) = U /\ Fit(L, nb) # {}
<1>1. PICK T : T = Fit(L, nb)
  OBVIOUS
<1>2. U \in T /\ \A k \in T : U <= k
  BY <1>1 DEF Fit
<1>3. T \in SUBSET Int
  <2>1. \A S \in DOMAIN L : S \in Nat
    BY ListFacts, SizeFacts
  <2>2. QED
    BY <1>1, <2>1 DEF Fit
<1>4. QED
  BY <1>1, <1>2, <1>3, MinIs

(* Small and large sizes in the lists, and the nodes of the latter. *)
LEMMA ListSizes ==
  ASSUME NEW L, NEW dp, Good(L, dp)
  PROVE  /\ \A S \in DOMAIN L : S \in Nat /\ (S \in SmallSizes \/ S \in LargeSizes)
         /\ \A S \in DOMAIN L \cap SmallSizes : S < 256 /\ is_small(S)
         /\ \A S \in DOMAIN L \cap LargeSizes :
              S >= 256 /\ ~is_small(S) /\ L[S][1] \in BasesOf(L) /\ size[L[S][1]] = S
         /\ \A x \in BasesOf(L) : size[x] \in DOMAIN L \cap LargeSizes /\ L[size[x]][1] = x
<1>1. Lists(L)
  BY DEF Good
<1>2. \A S \in DOMAIN L : S \in AllSizes /\ S \in Nat /\ (S \in SmallSizes \/ S \in LargeSizes)
  BY <1>1, ListFacts, SizeFacts
<1>3. \A S \in SmallSizes : S < 256 /\ is_small(S)
  BY SmallSizeFacts
<1>4. \A S \in LargeSizes : S >= 256 /\ ~is_small(S)
  BY SizesAreLarge, LargeIsLarge DEF IsLarge
<1>5. ASSUME NEW S \in DOMAIN L \cap LargeSizes
      PROVE  L[S][1] \in BasesOf(L) /\ size[L[S][1]] = S
  <2>1. 1 \in 1 .. Len(L[S])
    BY <1>1, ListFacts
  <2>2. QED
    BY <1>1, <2>1, BasesAre DEF Lists
<1>6. ASSUME NEW x \in BasesOf(L)
      PROVE  size[x] \in DOMAIN L \cap LargeSizes /\ L[size[x]][1] = x
  <2>1. PICK S \in DOMAIN L \cap LargeSizes : x = L[S][1]
    BY DEF BasesOf
  <2>2. size[x] = S
    BY <1>5, <2>1
  <2>3. QED
    BY <2>1, <2>2
<1>7. QED
  BY <1>2, <1>3, <1>4, <1>5, <1>6

(* A search of the tries that finds the best node finds the smallest size. *)
LEMMA BestNode ==
  ASSUME NEW L, NEW dp, Good(L, dp), NEW nb \in Nat, NEW v, IsBest(v, nb, BasesOf(L)),
         \A S \in DOMAIN L \cap SmallSizes : ~(S >= nb)
  PROVE  /\ v = Null => Fit(L, nb) = {}
         /\ v # Null => Fit(L, nb) # {} /\ v = Choice(L, Min(Fit(L, nb)))
<1>1. Lists(L)
  BY DEF Good
<1>2. ASSUME \A z \in BasesOf(L) : size[z] < nb
      PROVE  Fit(L, nb) = {}
  <2>1. ASSUME NEW S \in DOMAIN L, S >= nb
        PROVE  FALSE
    <3>1. S \in LargeSizes /\ S \in Nat
      BY <2>1, ListSizes
    <3>2. S < nb
      BY <1>2, <3>1, ListSizes
    <3>3. QED
      BY <2>1, <3>1, <3>2
  <2>2. QED
    BY <2>1 DEF Fit
<1>3. ASSUME v \in BasesOf(L), size[v] >= nb, \A z \in BasesOf(L) : size[z] >= nb => size[v] <= size[z]
      PROVE  Fit(L, nb) # {} /\ v = Choice(L, Min(Fit(L, nb)))
  <2>1. PICK U \in DOMAIN L \cap LargeSizes : U = size[v] /\ L[U][1] = v
    BY <1>3, ListSizes
  <2>2. ASSUME NEW S \in DOMAIN L, S >= nb
        PROVE  U <= S
    <3>1. S \in LargeSizes
      BY <2>2, ListSizes
    <3>2. L[S][1] \in BasesOf(L) /\ size[L[S][1]] = S
      BY <3>1, ListSizes
    <3>3. QED
      BY <1>3, <2>1, <2>2, <3>2
  <2>3. Min(Fit(L, nb)) = U /\ Fit(L, nb) # {}
    BY <1>1, <1>3, <2>1, <2>2, SmallestFit
  <2>4. ~is_small(U)
    BY ListSizes
  <2>5. QED
    BY <2>1, <2>3, <2>4 DEF Choice
<1>4. \A x \in BasesOf(L) : x # Null
  BY BaseFacts DEF Good, Trie
<1>5. QED
  BY <1>2, <1>3, <1>4 DEF IsBest

(* What malloc would take is the chunk that is next for the smallest fit. *)
LEMMA CandidateIsBest ==
  ASSUME NEW L, NEW dp, Good(L, dp), NEW nb \in workload.needs
  PROVE  Candidate(nb) = IF Fit(L, nb) = {} THEN Null ELSE Choice(L, Min(Fit(L, nb)))
<1>1. nb \in Nat /\ IsChunkSize(nb)
  BY NeedsAre
<1>2. Lists(L) /\ Links(L) /\ Marks(L)
  BY DEF Good
<1>3. CASE ~is_small(nb)
  <2>1. PICK v : v = Large!BestLarge(nb)
    OBVIOUS
  <2>2. IsBest(v, nb, BasesOf(L))
    BY <1>3, <2>1, SearchesFind
  <2>3. ASSUME NEW S \in DOMAIN L \cap SmallSizes
        PROVE  ~(S >= nb)
    <3>1. S \in Nat /\ S < 256
      BY ListSizes
    <3>2. nb >= 256
      BY <1>1, <1>3, LargeIsLarge DEF IsLarge
    <3>3. QED
      BY <1>1, <3>1, <3>2
  <2>4. Candidate(nb) = v
    BY <1>3, <2>1 DEF Candidate
  <2>5. QED
    BY <1>1, <2>2, <2>3, <2>4, BestNode
<1>4. ASSUME is_small(nb), NEW U \in DOMAIN L \cap SmallSizes, U >= nb
      PROVE  small_index(U) \in smallbits(nb)
  <2>1. small_index(U) \in smallmap
    BY <1>2 DEF Marks
  <2>2. small_index(U) >= small_index(nb)
    <3>1. U \in Nat
      BY ListSizes
    <3>2. U \div 8 >= nb \div 8
      BY <1>1, <1>4, <3>1
    <3>3. QED
      BY <3>2 DEF small_index, SMALLBIN_WIDTH
  <2>3. QED
    BY <2>1, <2>2 DEF smallbits
<1>5. CASE is_small(nb) /\ smallbits(nb) # {}
  <2>1. PICK S \in DOMAIN L \cap SmallSizes :
           /\ Min(smallbits(nb)) = small_index(S) /\ small_index(S) >= small_index(nb)
           /\ \A U \in DOMAIN L \cap SmallSizes : small_index(U) >= small_index(nb) => S <= U
    BY <1>5, SmallbitsAre
  <2>2. S \in Nat /\ S < 256 /\ is_small(S) /\ S = 8 * small_index(S) /\ small_index(S) \in Nat
    BY ListSizes, SmallSizeFacts
  <2>3. S >= nb
    <3>1. (nb % 8) = 0
      BY <1>1 DEF IsChunkSize, MALLOC_ALIGNMENT
    <3>2. nb = 8 * (nb \div 8) /\ nb \div 8 \in Nat
      BY <1>1, <3>1
    <3>3. small_index(nb) = nb \div 8
      BY DEF small_index, SMALLBIN_WIDTH
    <3>4. QED
      BY <2>1, <2>2, <3>2, <3>3
  <2>4. ASSUME NEW U \in DOMAIN L, U >= nb
        PROVE  S <= U
    <3>1. CASE U \in SmallSizes
      <4>1. small_index(U) \in smallbits(nb)
        BY <1>4, <1>5, <2>4, <3>1
      <4>2. QED
        BY <2>1, <3>1, <4>1 DEF smallbits
    <3>2. CASE U \in LargeSizes
      <4>1. U >= 256 /\ U \in Nat
        BY <3>2, ListSizes
      <4>2. QED
        BY <2>2, <4>1
    <3>3. QED
      BY <3>1, <3>2, ListSizes
  <2>5. Min(Fit(L, nb)) = S /\ Fit(L, nb) # {}
    BY <1>1, <1>2, <2>3, <2>4, SmallestFit
  <2>6. Candidate(nb) = fd[Bin(S)]
    BY <1>5, <2>1 DEF Candidate, Bin
  <2>7. fd[Bin(S)] = L[S][Len(L[S])]
    BY <1>2, BinLinks
  <2>8. QED
    BY <2>2, <2>5, <2>6, <2>7 DEF Choice
<1>6. CASE is_small(nb) /\ smallbits(nb) = {}
  <2>1. \A S \in DOMAIN L \cap SmallSizes : ~(S >= nb)
    BY <1>4, <1>6
  <2>2. CASE treemap # {}
    <3>1. PICK v : v = Large!BestSmall(nb)
      OBVIOUS
    <3>2. IsBest(v, nb, BasesOf(L)) /\ v # Null
      BY <1>6, <2>2, <3>1, SearchesFind
    <3>3. Candidate(nb) = v
      BY <1>6, <2>2, <3>1 DEF Candidate
    <3>4. QED
      BY <1>1, <2>1, <3>2, <3>3, BestNode
  <2>3. CASE treemap = {}
    <3>1. BasesOf(L) = {}
      BY <2>3, GoodMap
    <3>2. IsBest(Null, nb, BasesOf(L))
      BY <3>1 DEF IsBest
    <3>3. Candidate(nb) = Null
      BY <1>6, <2>3 DEF Candidate
    <3>4. QED
      BY <1>1, <2>1, <3>2, <3>3, BestNode
  <2>4. QED
    BY <2>2, <2>3
<1>7. QED
  BY <1>3, <1>5, <1>6

(* In bins that hold lists malloc finds the best fit. *)
LEMMA GoodIsBestFit ==
  ASSUME NEW L, NEW dp, Good(L, dp)
  PROVE  BestFit
<1>1. bins = L
  BY GoodBins
<1>2. ASSUME NEW nb \in workload.needs
      PROVE  LET fits == {S \in DOMAIN bins : S >= nb}
                 best == bins[Min(fits)]
             IN  Candidate(nb) = IF fits = {} THEN Null
                                 ELSE IF is_small(Min(fits)) THEN best[Len(best)]
                                 ELSE best[1]
  <2>1. Candidate(nb) = IF Fit(L, nb) = {} THEN Null ELSE Choice(L, Min(Fit(L, nb)))
    BY CandidateIsBest
  <2>2. PICK K : K = bins /\ K = L
    BY <1>1
  <2>3. Candidate(nb) = IF Fit(K, nb) = {} THEN Null ELSE Choice(K, Min(Fit(K, nb)))
    BY <2>1, <2>2
  <2>4. LET fits == {S \in DOMAIN K : S >= nb}
            best == K[Min(fits)]
        IN  Candidate(nb) = IF fits = {} THEN Null
                            ELSE IF is_small(Min(fits)) THEN best[Len(best)]
                            ELSE best[1]
    BY <2>3 DEF Fit, Choice
  <2>5. QED
    BY <2>2, <2>4
<1>3. QED
  BY <1>2 DEF BestFit

(* Whatever the shape of lists and tries, malloc finds the best fit.       *)
THEOREM MallocFindsBestFit == Spec => []BestFit
<1>1. HoldLists => BestFit
  BY GoodIsBestFit DEF HoldLists
<1>2. QED
  BY <1>1, BinsHoldLists, PTL

-----------------------------------------------------------------------------
(* The bins implement FreeBins.                                            *)

(* What is left of a sequence without its i-th element.                    *)
LEMMA TakeOut ==
  ASSUME NEW S, NEW q \in Seq(S), NEW i \in 1 .. Len(q)
  PROVE  /\ Abstract!RemoveAt(q, i) \in Seq(S) /\ Len(Abstract!RemoveAt(q, i)) = Len(q) - 1
         /\ \A j \in 1 .. Len(q) - 1 : Abstract!RemoveAt(q, i)[j] = IF j < i THEN q[j] ELSE q[j + 1]
<1> DEFINE a == SubSeq(q, 1, i - 1)
           b == SubSeq(q, i + 1, Len(q))
<1>1. Len(q) \in Nat /\ \A j \in 1 .. Len(q) : q[j] \in S
  BY ElementOfSeq, LenProperties
<1>2. i - 1 \in Int /\ \A j \in 1 .. i - 1 : q[j] \in S
  BY <1>1
<1>3. /\ a \in Seq(S) /\ Len(a) = (IF 1 <= i - 1 THEN i - 1 - 1 + 1 ELSE 0)
      /\ \A j \in 1 .. i - 1 - 1 + 1 : a[j] = q[1 + j - 1]
  BY <1>2, SubSeqProperties
<1>4. /\ i + 1 \in Int /\ Len(q) \in Int /\ \A j \in i + 1 .. Len(q) : q[j] \in S
  BY <1>1
<1>5. /\ b \in Seq(S) /\ Len(b) = (IF i + 1 <= Len(q) THEN Len(q) - (i + 1) + 1 ELSE 0)
      /\ \A j \in 1 .. Len(q) - (i + 1) + 1 : b[j] = q[i + 1 + j - 1]
  BY <1>4, SubSeqProperties
<1>6. Abstract!RemoveAt(q, i) = a \o b
  BY DEF Abstract!RemoveAt
<1> HIDE DEF a, b
<1>7. /\ a \o b \in Seq(S) /\ Len(a \o b) = Len(a) + Len(b)
      /\ \A j \in 1 .. Len(a) + Len(b) : (a \o b)[j] = IF j <= Len(a) THEN a[j] ELSE b[j - Len(a)]
  BY <1>3, <1>5, ConcatProperties
<1>8. Len(a) = i - 1 /\ Len(b) = Len(q) - i
  BY <1>1, <1>3, <1>5
<1>9. ASSUME NEW j \in 1 .. Len(q) - 1
      PROVE  (a \o b)[j] = IF j < i THEN q[j] ELSE q[j + 1]
  <2>1. CASE j < i
    <3>1. j \in 1 .. i - 1 - 1 + 1 /\ j <= Len(a) /\ j \in 1 .. Len(a) + Len(b) /\ 1 + j - 1 = j
      BY <1>1, <1>8, <2>1
    <3>2. a[j] = q[j]
      BY <1>3, <3>1
    <3>3. QED
      BY <1>7, <2>1, <3>1, <3>2
  <2>2. CASE ~(j < i)
    <3> DEFINE k == j - Len(a)
    <3>1. /\ k \in 1 .. Len(q) - (i + 1) + 1 /\ ~(j <= Len(a)) /\ j \in 1 .. Len(a) + Len(b)
          /\ i + 1 + k - 1 = j + 1
      BY <1>1, <1>8, <2>2
    <3>2. b[k] = q[j + 1]
      BY <1>5, <3>1
    <3>3. QED
      BY <1>7, <2>2, <3>1, <3>2
  <2>3. QED
    BY <2>1, <2>2
<1>10. Abstract!RemoveAt(q, i) \in Seq(S) /\ Len(Abstract!RemoveAt(q, i)) = Len(q) - 1
  BY <1>1, <1>6, <1>7, <1>8
<1>11. QED
  BY <1>6, <1>9, <1>10

(* Added is what FreeBins does with a chunk that is freed. *)
LEMMA AddedIsPut ==
  ASSUME NEW L, NEW P, NEW S
  PROVE  Abstract!Put(L, P, S) = Added(L, P, S)
<1>1. PICK v : v = IF S \in DOMAIN L THEN Append(L[S], P) ELSE <<P>>
  OBVIOUS
<1>2. Abstract!Put(L, P, S) = [U \in DOMAIN L \cup {S} |-> IF U = S THEN v ELSE L[U]]
  BY <1>1 DEF Abstract!Put, Abstract!Store
<1>3. Added(L, P, S) = [U \in DOMAIN L \cup {S} |-> IF U # S THEN L[U] ELSE v]
  BY <1>1 DEF Added
<1>4. QED
  BY <1>2, <1>3

(* Removed is what FreeBins does with a chunk that is taken. *)
LEMMA RemovedIsTake ==
  ASSUME NEW L, Lists(L), NEW S \in DOMAIN L, NEW k \in 1 .. Len(L[S]), NEW P, P = L[S][k]
  PROVE  Abstract!Take(L, P, S) = Removed(L, S, k) /\ Abstract!Contains(L[S], P)
<1>1. PICK n \in Nat, q \in Seq(Chunks) : n = Len(L[S]) /\ q = L[S] /\ n >= 1 /\ n = Len(q)
  BY ListFacts
<1>2. k \in 1 .. n /\ q[k] = P /\ DOMAIN q = 1 .. n
  BY <1>1
<1>3. Abstract!Contains(q, P)
  BY <1>1, <1>2 DEF Abstract!Contains
<1>4. CASE n = 1
  <2>1. Abstract!Take(L, P, S) = [U \in DOMAIN L \ {S} |-> L[U]]
    BY <1>1, <1>4 DEF Abstract!Take, Abstract!Restrict
  <2>2. Removed(L, S, k) = [U \in DOMAIN L \ {S} |-> L[U]]
    BY <1>1, <1>4 DEF Removed
  <2>3. QED
    BY <1>1, <1>3, <2>1, <2>2
<1>5. CASE n # 1
  <2>1. Abstract!Place(q, P) = k
    <3>1. \A i \in DOMAIN q : q[i] = P => i = k
      <4>1. ASSUME NEW i \in 1 .. n, q[i] = P
            PROVE  i = k
        <5>1. L[S][i] = L[S][k] /\ i \in 1 .. Len(L[S])
          BY <1>1, <1>2, <4>1
        <5>2. QED
          BY <5>1 DEF Lists
      <4>2. QED
        BY <1>2, <4>1
    <3>2. QED
      BY <1>2, <3>1 DEF Abstract!Place
  <2>2. PICK r : r = Abstract!RemoveAt(q, k)
    OBVIOUS
  <2>3. r \in Seq(Chunks) /\ Len(r) = n - 1 /\ \A j \in 1 .. n - 1 : r[j] = IF j < k THEN q[j] ELSE q[j + 1]
    BY <1>1, <1>2, <2>2, TakeOut
  <2>4. r = Without(q, k)
    <3>1. r = [j \in 1 .. n - 1 |-> r[j]]
      BY <1>1, <2>3
    <3>2. Without(q, k) = [j \in 1 .. n - 1 |-> IF j < k THEN q[j] ELSE q[j + 1]]
      BY <1>1 DEF Without
    <3>3. QED
      BY <2>3, <3>1, <3>2
  <2>5. Abstract!Take(L, P, S) = [L EXCEPT ![S] = Abstract!RemoveAt(L[S], Abstract!Place(L[S], P))]
    BY <1>1, <1>5 DEF Abstract!Take
  <2>6. Removed(L, S, k) = [L EXCEPT ![S] = Without(L[S], k)]
    BY <1>1, <1>5 DEF Removed
  <2>7. QED
    BY <1>1, <1>3, <2>1, <2>2, <2>4, <2>5, <2>6
<1>6. QED
  BY <1>4, <1>5

(* The lists are determined by the bins.                                   *)
BinsAreLists == \A L, dp : Good(L, dp) => bins = L

(* By GoodBins, in every state. *)
LEMMA BinsAreTheLists == BinsAreLists
BY GoodBins DEF BinsAreLists

(* Empty bins are empty lists. *)
LEMMA EmptyBins == Init => Abstract!Init
<1> SUFFICES ASSUME Init
             PROVE  Abstract!Init
  OBVIOUS
<1>1. PICK L, dp : Good(L, dp) /\ DOMAIN L = {}
  BY EmptyIsGood
<1>2. L = [S \in DOMAIN L |-> L[S]]
  BY <1>1 DEF Good, Lists
<1>3. L = <<>>
  BY <1>1, <1>2
<1>4. bins = <<>>
  BY <1>1, <1>3, GoodBins
<1>5. QED
  BY <1>4 DEF Abstract!Init, Abstract!NoBins

(* Every step takes a chunk to a bin, takes one out of a bin, or leaves    *)
(* the bins alone.                                                         *)
LEMMA StepsAreAbstract ==
  HoldLists /\ BinsAreLists /\ BinsAreLists' /\ [Next]_vars => [Abstract!Next]_(Abstract!vars)
<1> SUFFICES ASSUME HoldLists, BinsAreLists, BinsAreLists', [Next]_vars
             PROVE  Abstract!Next \/ bins' = bins
  BY DEF Abstract!vars
<1>1. PICK L, dp : Good(L, dp)
  BY DEF HoldLists
<1>2. PICK L2, dp2 : Good(L2, dp2)' /\ ListStep(L, L2)
  BY <1>1, NextSteps, StutterSteps DEF Steps
<1>3. bins = L
  BY <1>1 DEF BinsAreLists
<1>4. bins' = L2
  BY <1>2 DEF BinsAreLists
<1>5. Lists(L)
  BY <1>1 DEF Good
<1>6. CASE L2 = L
  BY <1>3, <1>4, <1>6
<1>7. ASSUME NEW P \in Chunks, NEW S \in AllSizes, size[P] = 0, L2 = Added(L, P, S)
      PROVE  Abstract!Next
  <2>1. ~Abstract!InBins(L, P)
    <3> SUFFICES ASSUME NEW s \in DOMAIN L, Abstract!Contains(L[s], P)
                 PROVE  FALSE
      BY DEF Abstract!InBins
    <3>1. PICK i \in 1 .. Len(L[s]) : L[s][i] = P
      BY DEF Abstract!Contains
    <3>2. size[P] = s
      BY <1>5, <3>1 DEF Lists
    <3>3. s # 0
      BY <1>5, ListFacts, SizeFacts
    <3>4. QED
      BY <1>7, <3>2, <3>3
  <2>2. bins' = Abstract!Put(bins, P, S)
    BY <1>3, <1>4, <1>7, AddedIsPut
  <2>3. Abstract!Insert(P, S)
    BY <1>3, <2>1, <2>2 DEF Abstract!Insert
  <2>4. QED
    BY <2>3 DEF Abstract!Next
<1>8. ASSUME NEW S \in DOMAIN L, NEW k \in 1 .. Len(L[S]), L2 = Removed(L, S, k)
      PROVE  Abstract!Next
  <2>1. PICK P \in Chunks : P = L[S][k]
    BY <1>5, ListFacts
  <2>2. S \in AllSizes
    BY <1>5, ListFacts
  <2>3. Abstract!Take(L, P, S) = L2 /\ Abstract!Contains(L[S], P)
    BY <1>5, <1>8, <2>1, RemovedIsTake
  <2>4. Abstract!Unlink(P, S)
    BY <1>3, <1>4, <2>3 DEF Abstract!Unlink
  <2>5. QED
    BY <2>2, <2>4 DEF Abstract!Next
<1>9. QED
  BY <1>2, <1>6, <1>7, <1>8 DEF ListStep

(* Lists, tries, rings and maps together are the bins they stand for: no   *)
(* chunk is lost by a rotation of a trie, none is in two bins, and the     *)
(* order of insertion is kept.                                             *)
THEOREM BinsImplementFreeBins == Spec => ImplementsFreeBins
<1>1. BinsAreLists
  BY BinsAreTheLists
<1>2. Init => Abstract!Init
  BY EmptyBins
<1>3. HoldLists /\ BinsAreLists /\ BinsAreLists' /\ [Next]_vars => [Abstract!Next]_(Abstract!vars)
  BY StepsAreAbstract
<1>4. QED
  BY <1>1, <1>2, <1>3, BinsHoldLists, PTL DEF Spec, ImplementsFreeBins, Abstract!Spec
=============================================================================
