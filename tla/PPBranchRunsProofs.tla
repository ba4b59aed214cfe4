------------------------- MODULE PPBranchRunsProofs -------------------------
(***************************************************************************)
(* Every file is formatted MaxPPBranchRuns times at most, and either with  *)
(* every combination of its branches or with the first branches only.      *)
(***************************************************************************)
EXTENDS PPBranchRuns, FiniteSetTheorems, TLAPS

-----------------------------------------------------------------------------
(* Natural numbers. *)

(* The intervals 0 .. k are finite, and finite sets are well-founded.      *)
LEMMA LeastElement ==
  ASSUME NEW T, T \subseteq Nat, T # {}
  PROVE  \E n \in T : \A k \in T : n <= k
<1> DEFINE U == {0 .. k : k \in T}
<1>1. U \subseteq FiniteSubsetsOf(Nat)
  <2>1. \A k \in Nat : IsFiniteSet(0 .. k)
    BY FS_Interval
  <2>2. QED
    BY <2>1 DEF FiniteSubsetsOf
<1>2. U # {}
  OBVIOUS
<1>3. PICK u \in U : \A v \in U : ~(<<v, u>> \in StrictSubsetOrdering(Nat))
  <2> HIDE DEF U
  <2> QED
    BY <1>1, <1>2, FS_StrictSubsetOrderingWellFounded, WFMin
<1>4. PICK n \in T : u = 0 .. n
  BY <1>3
<1>5. ASSUME NEW k \in T, k < n
      PROVE  FALSE
  <2>1. 0 .. k \in U
    OBVIOUS
  <2>2. 0 .. k \subseteq 0 .. n /\ 0 .. k # 0 .. n
    <3>1. n \in 0 .. n /\ n \notin 0 .. k
      BY <1>5
    <3>2. QED
      BY <1>5, <3>1
  <2>3. <<0 .. k, u>> \in StrictSubsetOrdering(Nat)
    <3>1. 0 .. k \in SUBSET Nat /\ 0 .. n \in SUBSET Nat
      OBVIOUS
    <3>2. QED
      BY <2>2, <3>1, <1>4, Zenon DEF StrictSubsetOrdering
  <2>4. QED
    BY <1>3, <2>1, <2>3, Zenon
<1>6. \A k \in T : n <= k
  BY <1>5
<1>7. QED
  BY <1>6

(* Induction, stated of a set of numbers: {n \in Nat : P(n)}.              *)
LEMMA Induction ==
  ASSUME NEW T, 0 \in T, \A n \in Nat : n \in T => n + 1 \in T
  PROVE  Nat \subseteq T
<1>1. SUFFICES ASSUME Nat \ T # {}
               PROVE  FALSE
  OBVIOUS
<1>2. PICK n \in Nat \ T : \A k \in Nat \ T : n <= k
  BY <1>1, LeastElement
<1>3. n # 0 /\ n - 1 \in Nat
  BY <1>2
<1>4. n - 1 \in T
  BY <1>2, <1>3
<1>5. QED
  BY <1>2, <1>3, <1>4

LEMMA GreatestElement ==
  ASSUME NEW T, T # {}, NEW n \in Nat, T \subseteq 0 .. n
  PROVE  \E m \in T : \A k \in T : k <= m
<1> DEFINE U == {n - k : k \in T}
<1>1. U \subseteq Nat /\ U # {}
  <2>1. \A k \in T : n - k \in Nat
    OBVIOUS
  <2>2. QED
    BY <2>1
<1>2. PICK u \in U : \A v \in U : u <= v
  BY <1>1, LeastElement
<1>3. PICK m \in T : u = n - m
  BY <1>2
<1>4. \A k \in T : n - m <= n - k
  BY <1>2, <1>3
<1>5. ASSUME NEW k \in T
      PROVE  k <= m
  <2>1. k \in Nat /\ m \in Nat
    OBVIOUS
  <2>2. QED
    BY <1>4, <2>1
<1>6. QED
  BY <1>5

(* One more whole part is p more. *)
LEMMA ScaleUp ==
  ASSUME NEW a \in Int, NEW b \in Int, NEW p \in Nat \ {0}, a < b
  PROVE  a * p + p <= b * p
  OBVIOUS

LEMMA ScaleMonotone ==
  ASSUME NEW a \in Int, NEW b \in Int, NEW p \in Nat, a <= b
  PROVE  a * p <= b * p
  OBVIOUS

-----------------------------------------------------------------------------

(* The branches of a level: the one of #if 0 counts.                       *)
Branches(counts, level) == IF counts[level] = 0 THEN 1 ELSE counts[level]

(* The choices at the first n levels.                                      *)
Prefixes(counts, n) ==
  {c \in [1 .. n -> Nat] : \A level \in 1 .. n : c[level] < Branches(counts, level)}

LEMMA BranchesType ==
  ASSUME NEW counts \in Seq(Nat), NEW level \in 1 .. Len(counts)
  PROVE  Branches(counts, level) \in Nat \ {0}
BY DEF Branches

LEMMA PrefixesGrow ==
  ASSUME NEW counts \in Seq(Nat), NEW n \in Nat, n + 1 <= Len(counts),
         IsFiniteSet(Prefixes(counts, n))
  PROVE  /\ IsFiniteSet(Prefixes(counts, n + 1))
         /\ Cardinality(Prefixes(counts, n + 1))
              = Cardinality(Prefixes(counts, n)) * Branches(counts, n + 1)
<1> DEFINE B == Branches(counts, n + 1)
           S == Prefixes(counts, n)
           T == Prefixes(counts, n + 1)
           f == [pb \in S \X (0 .. B - 1) |->
                   [level \in 1 .. n + 1 |-> IF level = n + 1 THEN pb[2] ELSE pb[1][level]]]
<1>1. B \in Nat \ {0}
  BY BranchesType
<1>2. IsFiniteSet(0 .. B - 1) /\ Cardinality(0 .. B - 1) = B
  <2>1. PICK m \in Nat : m = B
    BY <1>1
  <2>2. IsFiniteSet(0 .. m - 1) /\ Cardinality(0 .. m - 1) = m
    <3>1. PICK l \in Int : l = m - 1
      OBVIOUS
    <3>2. IsFiniteSet(0 .. l) /\ Cardinality(0 .. l) = IF 0 > l THEN 0 ELSE l - 0 + 1
      <4>1. 0 \in Int
        OBVIOUS
      <4>2. QED
        BY <4>1, FS_Interval, Zenon
    <3>3. QED
      BY <3>1, <3>2
  <2>3. QED
    BY <2>1, <2>2
<1>3. IsFiniteSet(S \X (0 .. B - 1)) /\ Cardinality(S \X (0 .. B - 1)) = Cardinality(S) * B
  BY <1>2, FS_Product
<1>4. f \in [S \X (0 .. B - 1) -> T]
  <2> SUFFICES ASSUME NEW p \in S, NEW b \in 0 .. B - 1
               PROVE  [level \in 1 .. n + 1 |-> IF level = n + 1 THEN b ELSE p[level]] \in T
    <3> HIDE DEF S, T, B
    <3> QED
      OBVIOUS
  <2>1. ASSUME NEW level \in 1 .. n + 1, level # n + 1
        PROVE  p[level] \in Nat /\ p[level] < Branches(counts, level)
    <3>1. level \in 1 .. n
      BY <2>1
    <3>2. QED
      BY <3>1 DEF Prefixes
  <2>2. b \in Nat /\ b < Branches(counts, n + 1)
    BY <1>1
  <2>3. QED
    BY <2>1, <2>2 DEF Prefixes
<1>5. \A x \in S \X (0 .. B - 1), y \in S \X (0 .. B - 1) : f[x] = f[y] => x = y
  <2> SUFFICES ASSUME NEW p \in S, NEW b \in 0 .. B - 1,
                      NEW q \in S, NEW d \in 0 .. B - 1, f[<<p, b>>] = f[<<q, d>>]
               PROVE  p = q /\ b = d
    <3> HIDE DEF S, B, f
    <3> QED
      OBVIOUS
  <2>1. \A level \in 1 .. n + 1 : (IF level = n + 1 THEN b ELSE p[level])
                                    = (IF level = n + 1 THEN d ELSE q[level])
    <3>1. /\ f[<<p, b>>] = [level \in 1 .. n + 1 |-> IF level = n + 1 THEN b ELSE p[level]]
          /\ f[<<q, d>>] = [level \in 1 .. n + 1 |-> IF level = n + 1 THEN d ELSE q[level]]
      <4> HIDE DEF S, B
      <4> QED
        OBVIOUS
    <3>2. \A level \in 1 .. n + 1 : f[<<p, b>>][level] = f[<<q, d>>][level]
      OBVIOUS
    <3> HIDE DEF f
    <3>3. QED
      BY <3>1, <3>2
  <2>2. b = d
    <3>1. n + 1 \in 1 .. n + 1
      OBVIOUS
    <3> HIDE DEF f, S, B
    <3>2. QED
      BY <2>1, <3>1
  <2>3. \A level \in 1 .. n : level \in 1 .. n + 1 /\ level # n + 1
    OBVIOUS
  <2>4. \A level \in 1 .. n : p[level] = q[level]
    BY <2>1, <2>3
  <2>5. p = q
    BY <2>4 DEF Prefixes
  <2>6. QED
    BY <2>2, <2>5
<1>6. ASSUME NEW c \in T
      PROVE  \E x \in S \X (0 .. B - 1) : f[x] = c
  <2> DEFINE p == [level \in 1 .. n |-> c[level]]
  <2>1. \A level \in 1 .. n + 1 : c[level] \in Nat /\ c[level] < Branches(counts, level)
    BY DEF Prefixes
  <2>2. p \in S
    BY <2>1 DEF Prefixes
  <2>3. n + 1 \in 1 .. n + 1
    OBVIOUS
  <2>4. c[n + 1] \in 0 .. B - 1
    BY <1>1, <2>1, <2>3
  <2>5. c = [level \in 1 .. n + 1 |-> c[level]]
    BY DEF Prefixes
  <2>6. f[<<p, c[n + 1]>>] = c
    <3>1. f[<<p, c[n + 1]>>]
            = [level \in 1 .. n + 1 |-> IF level = n + 1 THEN c[n + 1] ELSE p[level]]
      <4> HIDE DEF S, B, p
      <4> QED
        BY <2>2, <2>4
    <3>2. \A level \in 1 .. n + 1 : level # n + 1 => level \in 1 .. n
      OBVIOUS
    <3>3. \A level \in 1 .. n + 1 : f[<<p, c[n + 1]>>][level] = c[level]
      BY <3>1, <3>2
    <3>4. QED
      BY <2>5, <3>1, <3>3
  <2>7. QED
    BY <2>2, <2>4, <2>6
<1>7. ExistsBijection(S \X (0 .. B - 1), T)
  <2>1. f \in Bijection(S \X (0 .. B - 1), T)
    <3> HIDE DEF f, S, T, B
    <3>1. f \in Injection(S \X (0 .. B - 1), T)
      BY <1>4, <1>5 DEF Injection, IsInjective
    <3>2. f \in Surjection(S \X (0 .. B - 1), T)
      BY <1>4, <1>6 DEF Surjection
    <3>3. QED
      BY <3>1, <3>2 DEF Bijection
  <2>2. QED
    BY <2>1 DEF ExistsBijection
<1>8. QED
  <2> HIDE DEF f, S, T, B
  <2>1. IsFiniteSet(T) /\ Cardinality(T) = Cardinality(S \X (0 .. B - 1))
    BY <1>3, <1>7, FS_Bijection
  <2>2. QED
    BY <1>3, <2>1 DEF S, T, B

(* The combinations of the first n levels, counted. *)
Combinations(counts, n) == Cardinality(Prefixes(counts, n))

LEMMA NoPrefix ==
  ASSUME NEW counts
  PROVE  IsFiniteSet(Prefixes(counts, 0)) /\ Combinations(counts, 0) = 1
<1> DEFINE none == [level \in 1 .. 0 |-> 0]
<1>1. \A level \in 1 .. 0 : FALSE
  OBVIOUS
<1>2. none \in Prefixes(counts, 0)
  BY <1>1 DEF Prefixes
<1>3. ASSUME NEW c \in Prefixes(counts, 0)
      PROVE  c = none
  <2>1. c \in [1 .. 0 -> Nat]
    BY DEF Prefixes
  <2>2. QED
    BY <1>1, <2>1
<1>4. Prefixes(counts, 0) = {none}
  <2> HIDE DEF none
  <2>1. QED
    BY <1>2, <1>3
<1>5. QED
  <2> HIDE DEF none
  <2>1. QED
    BY <1>4, FS_Singleton DEF Combinations

LEMMA PrefixesAreFinite ==
  ASSUME NEW counts \in Seq(Nat)
  PROVE  \A n \in 0 .. Len(counts) :
           IsFiniteSet(Prefixes(counts, n)) /\ Combinations(counts, n) \in Nat \ {0}
<1> DEFINE T == {n \in Nat : n <= Len(counts) =>
                   IsFiniteSet(Prefixes(counts, n)) /\ Combinations(counts, n) \in Nat \ {0}}
<1>1. 0 \in T
  BY NoPrefix
<1>2. ASSUME NEW n \in Nat, n \in T, n + 1 <= Len(counts)
      PROVE  IsFiniteSet(Prefixes(counts, n + 1)) /\ Combinations(counts, n + 1) \in Nat \ {0}
  <2>1. IsFiniteSet(Prefixes(counts, n)) /\ Combinations(counts, n) \in Nat \ {0}
    BY <1>2
  <2>2. /\ IsFiniteSet(Prefixes(counts, n + 1))
        /\ Combinations(counts, n + 1) = Combinations(counts, n) * Branches(counts, n + 1)
    BY <1>2, <2>1, PrefixesGrow DEF Combinations
  <2>3. Branches(counts, n + 1) \in Nat \ {0}
    BY <1>2, BranchesType
  <2>4. QED
    BY <2>1, <2>2, <2>3
<1>3. Nat \subseteq T
  <2>1. \A n \in Nat : n \in T => n + 1 \in T
    BY <1>2
  <2> HIDE DEF T
  <2>2. QED
    BY <1>1, <2>1, Induction
<1>4. QED
  BY <1>3

(* The loop of TooManyPPBranchRuns computes the number of combinations, or *)
(* a number over the limit when there are more.                            *)
Limited(n) == IF n <= MaxPPBranchRuns THEN n ELSE MaxPPBranchRuns + 1

LEMMA LimitedProduct ==
  ASSUME NEW p \in Nat \ {0}, NEW c \in Nat
  PROVE  Limited(p * (IF c = 0 THEN 1 ELSE c)) =
           IF c = 0 THEN Limited(p)
           ELSE IF Limited(p) > MaxPPBranchRuns \div c THEN MaxPPBranchRuns + 1
           ELSE Limited(p) * c
<1> USE LimitAssumption
<1>1. CASE c = 0
  BY <1>1 DEF Limited
<1>2. CASE c # 0
  <2>1. PICK q \in Nat : q = MaxPPBranchRuns \div c
    BY <1>2
  <2>2. q * c <= MaxPPBranchRuns /\ MaxPPBranchRuns < q * c + c
    BY <1>2, <2>1
  <2>3. CASE p > q
    <3>1. p * c >= q * c + c
      BY <1>2, <2>3, ScaleUp
    <3>2. p * c > MaxPPBranchRuns
      BY <1>2, <2>2, <3>1
    <3>3. Limited(p) > q
      <4>1. q <= MaxPPBranchRuns
        BY <1>2, <2>2
      <4>2. QED
        BY <2>3, <4>1 DEF Limited
    <3>4. QED
      BY <1>2, <2>1, <3>2, <3>3 DEF Limited
  <2>4. CASE p <= q
    <3>1. p * c <= q * c
      BY <1>2, <2>4, ScaleMonotone
    <3>2. p * c <= MaxPPBranchRuns /\ p <= MaxPPBranchRuns
      BY <1>2, <2>2, <2>4, <3>1
    <3>3. QED
      BY <1>2, <2>1, <2>4, <3>2 DEF Limited
  <2>5. QED
    BY <2>1, <2>3, <2>4
<1>3. QED
  BY <1>1, <1>2

LEMMA TooManyIsMore ==
  ASSUME NEW counts \in Seq(Nat)
  PROVE  TooManyRuns(counts) <=> Combinations(counts, Len(counts)) > MaxPPBranchRuns
<1> DEFINE Step(product, level) ==
             IF level = 0 THEN 1
             ELSE IF counts[level] = 0 THEN product[level - 1]
             ELSE IF product[level - 1] > MaxPPBranchRuns \div counts[level]
               THEN MaxPPBranchRuns + 1
             ELSE product[level - 1] * counts[level]
           chosen == CHOOSE product : product = [level \in 0 .. Len(counts) |-> Step(product, level)]
           limited == [n \in 0 .. Len(counts) |-> Limited(Combinations(counts, n))]
<1>1. Len(counts) \in Nat
  OBVIOUS
<1>2. Limited(Combinations(counts, 0)) = 1
  BY NoPrefix, LimitAssumption DEF Limited
<1>3. ASSUME NEW n \in Nat, n + 1 <= Len(counts), NEW product,
             product[n] = Limited(Combinations(counts, n))
      PROVE  Step(product, n + 1) = Limited(Combinations(counts, n + 1))
  <2>1. PICK p \in Nat \ {0} : p = Combinations(counts, n)
    BY <1>1, <1>3, PrefixesAreFinite
  <2>2. PICK c \in Nat : c = counts[n + 1]
    BY <1>3
  <2>3. Combinations(counts, n + 1) = p * (IF c = 0 THEN 1 ELSE c)
    BY <1>1, <1>3, <2>1, <2>2, PrefixesAreFinite, PrefixesGrow DEF Combinations, Branches
  <2>4. product[n] = Limited(p) /\ product[(n + 1) - 1] = Limited(p)
    BY <1>3, <2>1
  <2>5. Step(product, n + 1) =
          IF c = 0 THEN Limited(p)
          ELSE IF Limited(p) > MaxPPBranchRuns \div c THEN MaxPPBranchRuns + 1
          ELSE Limited(p) * c
    BY <2>2, <2>4
  <2>6. QED
    BY <2>3, <2>5, LimitedProduct
<1>4. limited = [level \in 0 .. Len(counts) |-> Step(limited, level)]
  <2>1. ASSUME NEW level \in 0 .. Len(counts)
        PROVE  limited[level] = Step(limited, level)
    <3>1. CASE level = 0
      BY <1>2, <3>1
    <3>2. CASE level # 0
      <4>1. PICK n \in Nat : level = n + 1
        BY <3>2
      <4>2. limited[n] = Limited(Combinations(counts, n))
        BY <4>1
      <4>3. limited[level] = Limited(Combinations(counts, level))
        OBVIOUS
      <4> HIDE DEF limited, Step
      <4>4. QED
        BY <1>3, <4>1, <4>2, <4>3
    <3>3. QED
      BY <3>1, <3>2
  <2>2. limited = [level \in 0 .. Len(counts) |-> limited[level]]
    OBVIOUS
  <2> HIDE DEF limited, Step
  <2>3. QED
    BY <2>1, <2>2
<1>5. chosen = [level \in 0 .. Len(counts) |-> Step(chosen, level)]
  <2> HIDE DEF limited, Step
  <2>1. QED
    BY <1>4
<1>6. \A n \in Nat : n <= Len(counts) => chosen[n] = Limited(Combinations(counts, n))
  <2> HIDE DEF chosen
  <2> DEFINE T == {n \in Nat : n <= Len(counts) => chosen[n] = Limited(Combinations(counts, n))}
  <2>1. 0 \in T
    <3>1. chosen[0] = Step(chosen, 0)
      <4> HIDE DEF Step
      <4>1. QED
        BY <1>1, <1>5
    <3>2. QED
      BY <1>2, <3>1
  <2>2. \A n \in Nat : n \in T => n + 1 \in T
    <3> HIDE DEF Step
    <3>1. ASSUME NEW n \in Nat, n \in T, n + 1 <= Len(counts)
          PROVE  chosen[n + 1] = Limited(Combinations(counts, n + 1))
      <4>1. chosen[n + 1] = Step(chosen, n + 1)
        BY <1>1, <1>5, <3>1
      <4>2. chosen[n] = Limited(Combinations(counts, n))
        BY <3>1
      <4>3. QED
        BY <1>3, <3>1, <4>1, <4>2
    <3>2. QED
      BY <3>1
  <2>3. Nat \subseteq T
    <3> HIDE DEF T
    <3>1. QED
      BY <2>1, <2>2, Induction
  <2>4. QED
    BY <2>3
<1>7. TooManyRuns(counts) <=> chosen[Len(counts)] > MaxPPBranchRuns
  BY DEF TooManyRuns
<1>8. QED
  <2> HIDE DEF chosen
  <2>1. PICK p \in Nat : p = Combinations(counts, Len(counts))
    BY <1>1, PrefixesAreFinite
  <2>2. QED
    BY <1>1, <1>6, <1>7, <2>1, LimitAssumption DEF Limited

-----------------------------------------------------------------------------
(* Greatest elements of sets of numbers. *)

LEMMA MaxIs ==
  ASSUME NEW S, S \subseteq Int, NEW m \in S, \A x \in S : x <= m
  PROVE  Max(S) = m
<1>1. \A x \in S : m >= x
  OBVIOUS
<1>2. \A y \in S : (\A x \in S : y >= x) => y = m
  OBVIOUS
<1>3. QED
  BY <1>1, <1>2 DEF Max

LEMMA ValuesBounded ==
  ASSUME NEW counts \in Seq(Nat)
  PROVE  \E m \in Nat : \A level \in 1 .. Len(counts) : counts[level] <= m
<1> DEFINE P(n) == n <= Len(counts) => \E m \in Nat : \A level \in 1 .. n : counts[level] <= m
           T == {n \in Nat : P(n)}
<1>1. P(0)
  OBVIOUS
<1>2. ASSUME NEW n \in Nat, P(n)
      PROVE  P(n + 1)
  <2> SUFFICES ASSUME n + 1 <= Len(counts)
               PROVE  \E m \in Nat : \A level \in 1 .. n + 1 : counts[level] <= m
    OBVIOUS
  <2>1. PICK m \in Nat : \A level \in 1 .. n : counts[level] <= m
    BY <1>2
  <2>2. PICK c \in Nat : c = counts[n + 1]
    OBVIOUS
  <2>3. \A level \in 1 .. n + 1 : level = n + 1 \/ level \in 1 .. n
    OBVIOUS
  <2>4. \A level \in 1 .. n + 1 : counts[level] <= m + c
    <3>1. \A level \in 1 .. n : counts[level] \in Nat
      OBVIOUS
    <3>2. QED
      BY <2>1, <2>2, <2>3, <3>1
  <2>5. m + c \in Nat
    OBVIOUS
  <2>6. QED
    BY <2>4, <2>5
<1>3. \A n \in Nat : P(n)
  <2> HIDE DEF P
  <2>1. 0 \in T /\ \A n \in Nat : n \in T => n + 1 \in T
    BY <1>1, <1>2
  <2>2. Nat \subseteq T
    <3> HIDE DEF T
    <3>1. QED
      BY <2>1, Induction
  <2>3. QED
    BY <2>2
<1>4. P(Len(counts))
  <2>1. Len(counts) \in Nat
    OBVIOUS
  <2> HIDE DEF P
  <2>2. QED
    BY <1>3, <2>1
<1>5. QED
  BY <1>4

LEMMA ChoicesArePrefixes ==
  ASSUME NEW counts \in Seq(Nat)
  PROVE  BranchChoices(counts) = Prefixes(counts, Len(counts))
<1> DEFINE S == {0} \cup {counts[l] - 1 : l \in DOMAIN counts}
<1>1. DOMAIN counts = 1 .. Len(counts)
  OBVIOUS
<1>2. PICK bound \in Nat : \A level \in 1 .. Len(counts) : counts[level] <= bound
  BY ValuesBounded
<1>3. \A level \in 1 .. Len(counts) : counts[level] \in Nat
  OBVIOUS
<1>4. S \cap Nat \subseteq 0 .. bound /\ 0 \in S \cap Nat /\ S \subseteq Int
  BY <1>1, <1>2, <1>3
<1>5. PICK m \in S \cap Nat : \A x \in S \cap Nat : x <= m
  <2> HIDE DEF S
  <2>1. QED
    BY <1>4, GreatestElement
<1>6. \A x \in S : x <= m
  <2> HIDE DEF S
  <2>1. QED
    BY <1>4, <1>5
<1>7. Max(S) = m
  <2> HIDE DEF S
  <2>1. QED
    BY <1>4, <1>5, <1>6, MaxIs
<1>8. ASSUME NEW level \in 1 .. Len(counts)
      PROVE  Max({1, counts[level]}) = Branches(counts, level)
  <2>1. PICK c \in Nat : c = counts[level]
    BY <1>3
  <2>2. Max({1, c}) = IF c = 0 THEN 1 ELSE c
    <3> DEFINE larger == IF c = 0 THEN 1 ELSE c
    <3>1. larger \in {1, c} /\ {1, c} \subseteq Int /\ \A x \in {1, c} : x <= larger
      OBVIOUS
    <3> HIDE DEF larger
    <3>2. Max({1, c}) = larger
      BY <3>1, MaxIs
    <3> USE DEF larger
    <3>3. QED
      BY <3>2
  <2>3. QED
    BY <2>1, <2>2 DEF Branches
<1>9. ASSUME NEW level \in 1 .. Len(counts), NEW b \in Nat, b < Branches(counts, level)
      PROVE  b \in 0 .. m
  <2>1. counts[level] - 1 \in S
    BY <1>1
  <2>2. PICK c \in Nat : c = counts[level]
    BY <1>3
  <2>3. c - 1 <= m
    BY <1>6, <2>1, <2>2
  <2>4. QED
    BY <1>9, <2>2, <2>3 DEF Branches
<1>10. BranchChoices(counts)
         = {choice \in [1 .. Len(counts) -> 0 .. m] :
              \A level \in 1 .. Len(counts) : choice[level] < Branches(counts, level)}
  BY <1>1, <1>7, <1>8 DEF BranchChoices
<1>11. QED
  BY <1>9, <1>10 DEF Prefixes

-----------------------------------------------------------------------------
(* The order in which the combinations are formatted is lexicographic.     *)

Before(c, d, n) ==
  \E level \in 1 .. n : /\ c[level] < d[level]
                        /\ \A k \in 1 .. level - 1 : c[k] = d[k]

(* Two different choices differ first at some level.                       *)
LEMMA FirstDifference ==
  ASSUME NEW n \in Nat, NEW c \in [1 .. n -> Nat], NEW d \in [1 .. n -> Nat], c # d
  PROVE  \E level \in 1 .. n : /\ c[level] # d[level]
                               /\ \A k \in 1 .. level - 1 : c[k] = d[k]
<1> DEFINE T == {level \in 1 .. n : c[level] # d[level]}
<1>1. T # {} /\ T \subseteq Nat
  OBVIOUS
<1>2. PICK level \in T : \A k \in T : level <= k
  <2> HIDE DEF T
  <2>1. QED
    BY <1>1, LeastElement
<1>3. ASSUME NEW k \in 1 .. level - 1
      PROVE  c[k] = d[k]
  <2>1. k \in 1 .. n /\ k < level
    OBVIOUS
  <2>2. QED
    BY <1>2, <2>1
<1>4. QED
  BY <1>3

(* NextBranches and the parse that follows it: the next combination is the *)
(* least one after the current one.                                        *)
LEMMA Successor ==
  ASSUME NEW n \in Nat, NEW open \in 1 .. n,
         NEW c \in [1 .. n -> Nat], NEW d \in [1 .. n -> Nat], NEW next \in [1 .. n -> Nat],
         \A k \in 1 .. open - 1 : next[k] = d[k],
         next[open] = d[open] + 1,
         \A k \in open + 1 .. n : next[k] = 0 /\ c[k] <= d[k]
  PROVE  Before(c, next, n) <=> c = d \/ Before(c, d, n)
<1>1. ASSUME Before(c, next, n)
      PROVE  c = d \/ Before(c, d, n)
  <2>1. PICK level \in 1 .. n : /\ c[level] < next[level]
                                /\ \A k \in 1 .. level - 1 : c[k] = next[k]
    BY <1>1 DEF Before
  <2>2. CASE level < open
    BY <2>1, <2>2 DEF Before
  <2>3. CASE level = open
    <3>1. \A k \in 1 .. open - 1 : c[k] = d[k]
      BY <2>1, <2>3
    <3>2. c[open] < d[open] \/ c[open] = d[open]
      BY <2>1, <2>3
    <3>3. ASSUME c # d, c[open] = d[open]
          PROVE  Before(c, d, n)
      <4>1. PICK l \in 1 .. n : c[l] # d[l] /\ \A k \in 1 .. l - 1 : c[k] = d[k]
        BY <3>3, FirstDifference
      <4>2. l > open
        <5>1. l # open /\ ~(l \in 1 .. open - 1)
          BY <3>1, <3>3, <4>1
        <5>2. QED
          BY <5>1
      <4>3. c[l] < d[l]
        BY <4>1, <4>2
      <4>4. QED
        BY <4>1, <4>3 DEF Before
    <3>4. QED
      BY <3>1, <3>2, <3>3 DEF Before
  <2>4. CASE level > open
    <3>1. next[level] = 0
      BY <2>4
    <3>2. QED
      BY <2>1, <3>1
  <2>5. QED
    BY <2>2, <2>3, <2>4
<1>2. ASSUME c = d
      PROVE  Before(c, next, n)
  BY <1>2 DEF Before
<1>3. ASSUME Before(c, d, n)
      PROVE  Before(c, next, n)
  <2>1. PICK level \in 1 .. n : /\ c[level] < d[level]
                                /\ \A k \in 1 .. level - 1 : c[k] = d[k]
    BY <1>3 DEF Before
  <2>2. CASE level < open
    BY <2>1, <2>2 DEF Before
  <2>3. CASE level >= open
    <3>1. c[open] < next[open]
      <4>1. c[open] <= d[open]
        BY <2>1, <2>3
      <4>2. QED
        BY <4>1
    <3>2. \A k \in 1 .. open - 1 : c[k] = next[k]
      BY <2>1, <2>3
    <3>3. QED
      BY <3>1, <3>2 DEF Before
  <2>4. QED
    BY <2>2, <2>3
<1>4. QED
  BY <1>1, <1>2, <1>3

LEMMA BeforeIsIrreflexive ==
  ASSUME NEW n \in Nat, NEW c \in [1 .. n -> Nat]
  PROVE  ~Before(c, c, n)
BY DEF Before

-----------------------------------------------------------------------------
(* The inductive invariant. *)

Levels     == Len(file)
AllChoices == Prefixes(file, Levels)
First      == [level \in 1 .. Levels |-> 0]

(* The branches the next parse will choose. *)
Chosen == [level \in 1 .. Levels |->
             IF level \in DOMAIN PPLevelBranchIndex THEN PPLevelBranchIndex[level] ELSE 0]

LoopInv ==
  /\ file \in Files
  /\ IsFiniteSet(ran)
  /\ runs = Cardinality(ran)
  /\ runs <= MaxPPBranchRuns
  /\ \/ /\ pc = "parse"
        /\ Chosen \in AllChoices
        /\ ran = {c \in AllChoices : Before(c, Chosen, Levels)}
        /\ TooManyRuns(file) => Chosen = First
     \/ /\ pc = "advance"
        /\ PPLevelBranchIndex \in AllChoices
        /\ PPLevelBranchCount = file
        /\ ran = {c \in AllChoices : c = PPLevelBranchIndex \/ Before(c, PPLevelBranchIndex, Levels)}
        /\ TooManyRuns(file) => PPLevelBranchIndex = First
     \/ /\ pc = "done"
        /\ ran = IF TooManyRuns(file) THEN {First} ELSE AllChoices

LEMMA ChoicesType ==
  ASSUME file \in Files
  PROVE  /\ file \in Seq(Nat)
         /\ Levels \in Nat
         /\ DOMAIN file = 1 .. Levels
         /\ IsFiniteSet(AllChoices)
         /\ AllChoices \subseteq [1 .. Levels -> Nat]
         /\ First \in AllChoices
         /\ TooManyRuns(file) <=> Cardinality(AllChoices) > MaxPPBranchRuns
         /\ AllChoices = BranchChoices(file)
<1>1. file \in Seq(Nat)
  BY FilesAssumption
<1>2. Levels \in Nat /\ DOMAIN file = 1 .. Levels
  BY <1>1 DEF Levels
<1>3. IsFiniteSet(AllChoices)
  BY <1>1, <1>2, PrefixesAreFinite DEF AllChoices, Levels
<1>4. AllChoices \subseteq [1 .. Levels -> Nat]
  BY DEF AllChoices, Prefixes
<1>5. First \in AllChoices
  <2>1. \A level \in 1 .. Levels : 0 < Branches(file, level)
    BY <1>1, BranchesType DEF Levels
  <2>2. QED
    BY <2>1 DEF First, AllChoices, Prefixes
<1>6. QED
  BY <1>1, <1>2, <1>3, <1>4, <1>5, TooManyIsMore, ChoicesArePrefixes
     DEF AllChoices, Levels, Combinations

LEMMA NothingBeforeFirst ==
  ASSUME file \in Files, NEW c \in AllChoices
  PROVE  ~Before(c, First, Levels)
<1>1. c \in [1 .. Levels -> Nat]
  BY ChoicesType
<1>2. QED
  BY <1>1 DEF Before, First

LEMMA LoopInit == Init => LoopInv
<1> SUFFICES ASSUME Init
             PROVE  LoopInv
  OBVIOUS
<1>1. file \in Files
  BY DEF Init
<1>2. Chosen = First
  BY DEF Init, Chosen, First
<1>3. ran = {c \in AllChoices : Before(c, Chosen, Levels)}
  BY <1>1, <1>2, NothingBeforeFirst DEF Init
<1>4. IsFiniteSet(ran) /\ runs = Cardinality(ran) /\ runs <= MaxPPBranchRuns
  BY FS_EmptySet, LimitAssumption DEF Init
<1>5. QED
  BY <1>1, <1>2, <1>3, <1>4, ChoicesType DEF Init, LoopInv

LEMMA LoopParse == LoopInv /\ Parse => LoopInv'
<1> SUFFICES ASSUME LoopInv, Parse
             PROVE  LoopInv'
  OBVIOUS
<1> DEFINE n == Levels
           d == Chosen
<1>1. file \in Files /\ file' = file /\ AllChoices' = AllChoices /\ Levels' = Levels /\ First' = First
  BY DEF LoopInv, Parse, AllChoices, Levels, First
<1>2. PPLevelBranchIndex' = Chosen
  BY <1>1, ChoicesType DEF Parse, Chosen
<1>3. /\ Chosen \in AllChoices
      /\ ran = {c \in AllChoices : Before(c, Chosen, Levels)}
      /\ TooManyRuns(file) => Chosen = First
  BY DEF LoopInv, Parse
<1>4. ran' = ran \cup {Chosen}
  BY <1>2 DEF Parse
<1>5. Chosen \notin ran
  BY <1>1, <1>3, ChoicesType, BeforeIsIrreflexive
<1>6. IsFiniteSet(ran') /\ Cardinality(ran') = runs + 1
  BY <1>4, <1>5, FS_AddElement DEF LoopInv
<1>7. runs \in Nat
  BY FS_CardinalityType DEF LoopInv
<1>8. runs' = runs + 1
  <2>1. runs + 1 <= RunsCounted /\ RunsCounted \in Nat
    BY <1>7, LimitAssumption DEF LoopInv, RunsCounted
  <2>2. PICK k \in Nat : k = runs + 1
    BY <1>7
  <2>3. Min({k, RunsCounted}) = k
    BY <2>1, <2>2 DEF Min
  <2>4. QED
    BY <2>2, <2>3 DEF Parse
<1>9. ran' = {c \in AllChoices : c = Chosen \/ Before(c, Chosen, Levels)}
  BY <1>3, <1>4
<1>10. runs' <= MaxPPBranchRuns
  <2>1. CASE TooManyRuns(file)
    <3>1. ran = {}
      BY <1>1, <1>3, <2>1, NothingBeforeFirst
    <3>2. runs = 0
      BY <3>1, FS_EmptySet DEF LoopInv
    <3>3. QED
      BY <1>8, <3>2, LimitAssumption
  <2>2. CASE ~TooManyRuns(file)
    <3>1. ran' \subseteq AllChoices
      BY <1>9
    <3>2. Cardinality(ran') <= Cardinality(AllChoices)
      BY <1>1, <3>1, ChoicesType, FS_Subset
    <3>3. Cardinality(AllChoices) \in Nat /\ Cardinality(AllChoices) <= MaxPPBranchRuns
      BY <1>1, <2>2, ChoicesType, FS_CardinalityType, LimitAssumption
    <3>4. QED
      BY <1>6, <1>7, <1>8, <3>2, <3>3, LimitAssumption
  <2>3. QED
    BY <2>1, <2>2
<1>11. pc' = "advance" /\ PPLevelBranchCount' = file
  BY DEF Parse
<1>12. QED
  BY <1>1, <1>2, <1>3, <1>6, <1>8, <1>9, <1>10, <1>11 DEF LoopInv

(* The levels below the deepest one with a branch left are at their last.  *)
LEMMA DeepestOpenType ==
  ASSUME NEW counts \in Seq(Nat), NEW index \in Prefixes(counts, Len(counts)),
         NEW open, open = DeepestOpen(index, counts)
  PROVE  /\ open \in 0 .. Len(counts)
         /\ open # 0 => index[open] + 1 < counts[open]
         /\ \A level \in open + 1 .. Len(counts) : index[level] + 1 = Branches(counts, level)
<1> DEFINE S == {0} \cup {level \in DOMAIN index : index[level] + 1 < counts[level]}
<1>1. DOMAIN index = 1 .. Len(counts) /\ Len(counts) \in Nat
  BY DEF Prefixes
<1>2. S \subseteq 0 .. Len(counts) /\ S # {} /\ S \subseteq Int
  BY <1>1
<1>3. PICK m \in S : \A x \in S : x <= m
  <2> HIDE DEF S
  <2>1. QED
    BY <1>1, <1>2, GreatestElement
<1>4. open = m
  <2>1. Max(S) = m
    <3> HIDE DEF S
    <3>1. QED
      BY <1>2, <1>3, MaxIs
  <2>2. QED
    BY <2>1 DEF DeepestOpen
<1>5. ASSUME NEW level \in open + 1 .. Len(counts)
      PROVE  index[level] + 1 = Branches(counts, level)
  <2>1. level \in 1 .. Len(counts) /\ level > m
    BY <1>2, <1>4
  <2>2. level \notin S
    BY <1>2, <1>3, <2>1
  <2>3. PICK i \in Nat, c \in Nat : i = index[level] /\ c = counts[level] /\ i < Branches(counts, level)
    BY <2>1 DEF Prefixes
  <2>4. ~(i + 1 < c)
    BY <1>1, <2>1, <2>2, <2>3
  <2>5. QED
    BY <2>3, <2>4 DEF Branches
<1>6. QED
  BY <1>2, <1>4, <1>5

LEMMA LoopAdvance == LoopInv /\ Advance => LoopInv'
<1> SUFFICES ASSUME LoopInv, Advance
             PROVE  LoopInv'
  OBVIOUS
<1>1. /\ file \in Files /\ file' = file
      /\ AllChoices' = AllChoices /\ Levels' = Levels /\ First' = First
      /\ ran' = ran /\ runs' = runs
  BY DEF LoopInv, Advance, AllChoices, Levels, First
<1> DEFINE d == PPLevelBranchIndex
<1>2. /\ d \in AllChoices
      /\ PPLevelBranchCount = file
      /\ ran = {c \in AllChoices : c = d \/ Before(c, d, Levels)}
      /\ TooManyRuns(file) => d = First
      /\ IsFiniteSet(ran)
      /\ runs = Cardinality(ran)
      /\ runs <= MaxPPBranchRuns
  BY DEF LoopInv, Advance
<1>3. ASSUME TooManyRuns(file)
      PROVE  LoopInv'
  <2>1. PPLevelBranchIndex' = <<>>
    BY <1>2, <1>3 DEF Advance, GiveUp, NextBranches
  <2>2. pc' = "done"
    BY <2>1 DEF Advance
  <2>3. ran = {First}
    BY <1>1, <1>2, <1>3, NothingBeforeFirst
  <2>4. QED
    BY <1>1, <1>2, <1>3, <2>2, <2>3 DEF LoopInv
<1>4. ASSUME ~TooManyRuns(file)
      PROVE  LoopInv'
  <2>1. PICK open : open = DeepestOpen(d, file)
    OBVIOUS
  <2>2. PPLevelBranchIndex' =
          [level \in 1 .. open |-> IF level = open THEN d[level] + 1 ELSE d[level]]
    BY <1>2, <1>4, <2>1 DEF Advance, GiveUp, NextBranches
  <2>3. /\ open \in 0 .. Levels
        /\ open # 0 => d[open] + 1 < file[open]
        /\ \A level \in open + 1 .. Levels : d[level] + 1 = Branches(file, level)
    BY <1>1, <1>2, <2>1, ChoicesType, DeepestOpenType DEF AllChoices, Levels
  <2>4. /\ Levels \in Nat
        /\ d \in [1 .. Levels -> Nat]
        /\ \A c \in AllChoices : /\ c \in [1 .. Levels -> Nat]
                               /\ \A level \in 1 .. Levels : c[level] < Branches(file, level)
        /\ \A level \in 1 .. Levels : Branches(file, level) \in Nat
        /\ \A level \in 1 .. Levels : file[level] \in Nat
    BY <1>1, <1>2, ChoicesType, BranchesType DEF AllChoices, Prefixes, Levels
  <2>5. ASSUME NEW c \in AllChoices
        PROVE  \A level \in open + 1 .. Levels : c[level] <= d[level]
    <3>1. \A level \in open + 1 .. Levels :
            level \in 1 .. Levels /\ d[level] + 1 = Branches(file, level)
              /\ c[level] < Branches(file, level)
      BY <2>3, <2>4
    <3>2. QED
      BY <2>4, <3>1
  <2>6. CASE open = 0
    <3>1. PPLevelBranchIndex' = <<>>
      <4>1. PPLevelBranchIndex' = [level \in 1 .. 0 |-> IF level = open THEN d[level] + 1 ELSE d[level]]
        BY <2>2, <2>6
      <4>2. PPLevelBranchIndex' \in Seq(Nat) /\ Len(PPLevelBranchIndex') = 0
        BY <4>1
      <4>3. QED
        BY <4>2
    <3>2. pc' = "done"
      BY <3>1 DEF Advance
    <3>3. ASSUME NEW c \in AllChoices, c # d
          PROVE  Before(c, d, Levels)
      <4>1. PICK l \in 1 .. Levels : c[l] # d[l] /\ \A k \in 1 .. l - 1 : c[k] = d[k]
        BY <2>4, <3>3, FirstDifference
      <4>2. c[l] <= d[l]
        BY <2>5, <2>6
      <4>3. c[l] < d[l]
        BY <2>4, <4>1, <4>2
      <4>4. QED
        BY <4>1, <4>3 DEF Before
    <3>4. ran = AllChoices
      BY <1>2, <3>3
    <3>5. QED
      BY <1>1, <1>2, <1>4, <3>2, <3>4 DEF LoopInv
  <2>7. CASE open # 0
    <3> DEFINE next == [level \in 1 .. Levels |->
                          IF level < open THEN d[level]
                          ELSE IF level = open THEN d[level] + 1 ELSE 0]
    <3>1. open \in 1 .. Levels
      BY <2>3, <2>7
    <3>2. Chosen' = next
      <4>1. DOMAIN PPLevelBranchIndex' = 1 .. open
        BY <2>2
      <4>2. ASSUME NEW level \in 1 .. Levels
            PROVE  (IF level \in 1 .. open THEN PPLevelBranchIndex'[level] ELSE 0) = next[level]
        BY <2>2, <2>4, <3>1
      <4>3. Chosen' = [level \in 1 .. Levels |->
                         IF level \in 1 .. open THEN PPLevelBranchIndex'[level] ELSE 0]
        BY <1>1, <4>1 DEF Chosen
      <4>4. QED
        BY <4>2, <4>3
    <3>3. /\ next \in [1 .. Levels -> Nat]
          /\ \A k \in 1 .. open - 1 : next[k] = d[k]
          /\ next[open] = d[open] + 1
          /\ \A k \in open + 1 .. Levels : next[k] = 0
      BY <2>4, <3>1
    <3>4. \A level \in 1 .. Levels : next[level] < Branches(file, level)
      <4> SUFFICES ASSUME NEW level \in 1 .. Levels
                   PROVE  next[level] < Branches(file, level)
        OBVIOUS
      <4>1. d[level] < Branches(file, level) /\ Branches(file, level) \in Nat /\ d[level] \in Nat
        BY <1>2, <2>4
      <4>2. level = open => d[level] + 1 < Branches(file, level)
        BY <2>3, <2>4, <2>7, <4>1 DEF Branches
      <4>3. QED
        BY <4>1, <4>2
    <3> HIDE DEF next
    <3>5. next \in AllChoices
      BY <3>3, <3>4 DEF AllChoices, Prefixes, Levels
    <3>6. \A c \in AllChoices : Before(c, next, Levels) <=> c = d \/ Before(c, d, Levels)
      BY <2>4, <2>5, <3>1, <3>3, Successor
    <3>7. ran = {c \in AllChoices : Before(c, next, Levels)}
      BY <1>2, <3>6
    <3>8. pc' = "parse"
      <4>1. DOMAIN PPLevelBranchIndex' # {}
        BY <2>2, <3>1
      <4>2. PPLevelBranchIndex' # <<>>
        BY <4>1
      <4>3. QED
        BY <4>2 DEF Advance
    <3>9. QED
      BY <1>1, <1>2, <1>4, <3>2, <3>5, <3>7, <3>8 DEF LoopInv
  <2>8. QED
    BY <2>6, <2>7
<1>5. QED
  BY <1>3, <1>4

LEMMA LoopInvHolds == Spec => []LoopInv
<1>1. LoopInv /\ UNCHANGED vars => LoopInv'
  BY DEF LoopInv, vars, Chosen, AllChoices, First, Levels
<1>2. LoopInv /\ [Next]_vars => LoopInv'
  BY <1>1, LoopParse, LoopAdvance DEF Next
<1>3. QED
  BY <1>2, LoopInit, PTL DEF Spec

-----------------------------------------------------------------------------
(* Whatever the nesting of its #if directives, a file is parsed and        *)
(* formatted MaxPPBranchRuns times at most.                                *)
THEOREM RunsAreBounded == Spec => []RunsBounded
<1>1. LoopInv => RunsBounded
  BY DEF LoopInv, RunsBounded
<1>2. QED
  BY <1>1, LoopInvHolds, PTL

(* A file within the limit is formatted once with every combination of its *)
(* branches; one beyond it with the first branches only.                   *)
THEOREM AllCombinationsOrTheFirst == Spec => []AllOrFirst
<1>1. ASSUME LoopInv, pc = "done"
      PROVE  IF Cardinality(BranchChoices(file)) <= MaxPPBranchRuns
             THEN /\ ran = BranchChoices(file)
                  /\ runs = Cardinality(BranchChoices(file))
             ELSE ran = {[level \in DOMAIN file |-> 0]} /\ runs = 1
  <2>1. /\ file \in Files
        /\ runs = Cardinality(ran)
        /\ ran = IF TooManyRuns(file) THEN {First} ELSE AllChoices
    BY <1>1 DEF LoopInv
  <2>2. Cardinality(AllChoices) \in Nat
    BY <2>1, ChoicesType, FS_CardinalityType
  <2>3. First = [level \in DOMAIN file |-> 0]
    BY <2>1, ChoicesType DEF First
  <2>4. Cardinality({First}) = 1
    BY FS_Singleton
  <2>5. TooManyRuns(file) <=> ~(Cardinality(BranchChoices(file)) <= MaxPPBranchRuns)
    BY <2>1, <2>2, ChoicesType, LimitAssumption
  <2>6. QED
    BY <2>1, <2>3, <2>4, <2>5, ChoicesType
<1>2. LoopInv => AllOrFirst
  BY <1>1 DEF AllOrFirst
<1>3. QED
  BY <1>2, LoopInvHolds, PTL
=============================================================================
