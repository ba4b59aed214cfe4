------------------------- MODULE WasmRuntimeProofs --------------------------
(***************************************************************************)
(* The runtime of the plugin. RuntimeCore: the product of __multi3 is      *)
(* exact for every width of a half word, memmove copies exactly between    *)
(* any two regions of any memory, and the parsers read every number,       *)
(* whatever its parts. WasmMorecore: wasm_morecore keeps its promises for  *)
(* every page size, address space, initial memory and host limit that      *)
(* SizesAssumption allows.                                                 *)
(***************************************************************************)
EXTENDS RuntimeCore, WasmMorecore, FiniteSetTheorems, TLAPS

-----------------------------------------------------------------------------
(* Natural numbers. *)

(* The intervals 0 .. k are finite, and finite sets are well-founded.      *)
LEMMA LeastElement ==
  ASSUME NEW T, T \subseteq Nat, T # {}
  PROVE  \E n \in T : \A k \in T : n <= k
<1> DEFINE U == {0 .. k : k \in T}
<1>1. U \subseteq FiniteSubsetsOf(Nat)
  <2>1. \A k \in Nat : IsFiniteSet(0 .. k)
    BY FS_Interval
  <2>2. QED
    BY <2>1 DEF FiniteSubsetsOf
<1>2. U # {}
  OBVIOUS
<1>3. PICK u \in U : \A v \in U : ~(<<v, u>> \in StrictSubsetOrdering(Nat))
  <2> HIDE DEF U
  <2> QED
    BY <1>1, <1>2, FS_StrictSubsetOrderingWellFounded, WFMin
<1>4. PICK n \in T : u = 0 .. n
  BY <1>3
<1>5. ASSUME NEW k \in T, k < n
      PROVE  FALSE
  <2>1. 0 .. k \in U
    OBVIOUS
  <2>2. 0 .. k \subseteq 0 .. n /\ 0 .. k # 0 .. n
    <3>1. n \in 0 .. n /\ n \notin 0 .. k
      BY <1>5
    <3>2. QED
      BY <1>5, <3>1
  <2>3. <<0 .. k, u>> \in StrictSubsetOrdering(Nat)
    <3>1. 0 .. k \in SUBSET Nat /\ 0 .. n \in SUBSET Nat
      OBVIOUS
    <3>2. QED
      BY <2>2, <3>1, <1>4, Zenon DEF StrictSubsetOrdering
  <2>4. QED
    BY <1>3, <2>1, <2>3, Zenon
<1>6. \A k \in T : n <= k
  BY <1>5
<1>7. QED
  BY <1>6

(* Induction, stated of a set of numbers: {n \in Nat : P(n)}.              *)
LEMMA Induction ==
  ASSUME NEW T, 0 \in T, \A n \in Nat : n \in T => n + 1 \in T
  PROVE  Nat \subseteq T
<1>1. SUFFICES ASSUME Nat \ T # {}
               PROVE  FALSE
  OBVIOUS
<1>2. PICK n \in Nat \ T : \A k \in Nat \ T : n <= k
  BY <1>1, LeastElement
<1>3. n # 0 /\ n - 1 \in Nat
  BY <1>2
<1>4. n - 1 \in T
  BY <1>2, <1>3
<1>5. QED
  BY <1>2, <1>3, <1>4

(* Quotient and remainder put the number together again. *)
LEMMA QuotientRemainder ==
  ASSUME NEW n \in Nat, NEW d \in Nat \ {0}
  PROVE  /\ n = (n \div d) * d + (n % d)
         /\ n % d \in 0 .. d - 1
         /\ n \div d \in Nat
  <1>1. n = (n \div d) * d + (n % d)
    OBVIOUS
  <1>2. n % d \in 0 .. d - 1
    OBVIOUS
  <1>3. n \div d \in Nat
    OBVIOUS
  <1> QED
    BY <1>1, <1>2, <1>3

(* A value that fits the word is its own remainder. *)
LEMMA WordOfSmall ==
  ASSUME NEW d \in Nat \ {0}, NEW n \in 0 .. d - 1
  PROVE  n % d = n
  OBVIOUS

(* One more whole part is p more. *)
LEMMA ScaleUp ==
  ASSUME NEW a \in Int, NEW b \in Int, NEW p \in Nat \ {0}, a < b
  PROVE  a * p + p <= b * p
  OBVIOUS

(* Fewer in whole parts are fewer parts. *)
LEMMA ScaleDown ==
  ASSUME NEW a \in Int, NEW b \in Int, NEW p \in Nat \ {0}, a * p < b * p
  PROVE  a < b
  OBVIOUS

-----------------------------------------------------------------------------

HalfWords == 0 .. Half - 1
Words     == 0 .. Word64 - 1

LEMMA WordIsPositive == Word64 \in Nat \ {0}
BY HalfAssumption DEF Word64

(* Quotient and remainder are the only way to split a number.              *)
LEMMA RemainderIsUnique ==
  ASSUME NEW d \in Nat \ {0}, NEW q \in Int, NEW r \in 0 .. d - 1,
         NEW n \in Int, n = q * d + r
  PROVE  n % d = r
<1>1. PICK p \in Int : p = n \div d
  OBVIOUS
<1>2. PICK s \in 0 .. d - 1 : s = n % d
  OBVIOUS
<1>3. n = p * d + s
  BY <1>1, <1>2
<1>4. ~(p < q)
  <2>1. p < q => p * d + d <= q * d
    BY ScaleUp
  <2>2. QED
    BY <1>3, <2>1
<1>5. ~(q < p)
  <2>1. q < p => q * d + d <= p * d
    BY ScaleUp
  <2>2. QED
    BY <1>3, <2>1
<1>6. p = q
  BY <1>4, <1>5
<1>7. QED
  BY <1>2, <1>3, <1>6

LEMMA SplitInHalves ==
  ASSUME NEW n \in Words
  PROVE  /\ n = High(n) * Half + Low(n)
         /\ High(n) \in HalfWords
         /\ Low(n) \in HalfWords
<1>1. /\ n = (n \div Half) * Half + (n % Half)
      /\ n % Half \in 0 .. Half - 1
      /\ n \div Half \in Nat
  <2>1. n \in Nat
    BY WordIsPositive DEF Words
  <2>2. QED
    BY <2>1, HalfAssumption, QuotientRemainder
<1>2. (n \div Half) * Half < Half * Half
  BY <1>1, HalfAssumption DEF Words, Word64
<1>3. n \div Half < Half
  BY <1>1, <1>2, HalfAssumption, ScaleDown
<1>4. QED
  BY <1>1, <1>3, HalfAssumption DEF High, Low, HalfWords

(* The product of two half words fits a word.                              *)
LEMMA PartialProductFits ==
  ASSUME NEW x \in HalfWords, NEW y \in HalfWords
  PROVE  /\ x * y \in Words
         /\ Wraps(x * y) = x * y
<1>1. x * y >= 0 /\ x * y \in Int
  BY DEF HalfWords
<1>2. x * y <= x * Half
  BY HalfAssumption DEF HalfWords
<1>3. x * Half + Half <= Half * Half
  BY HalfAssumption, ScaleUp DEF HalfWords
<1>4. x * y \in 0 .. Word64 - 1
  <2>1. PICK xy \in Int : xy = x * y
    BY <1>1
  <2>2. PICK xh \in Int : xh = x * Half
    BY HalfAssumption DEF HalfWords
  <2>3. xy >= 0 /\ xy <= xh /\ xh + Half <= Word64
    BY <1>1, <1>2, <1>3, <2>1, <2>2 DEF Word64
  <2>4. QED
    BY <2>1, <2>3, HalfAssumption, WordIsPositive
<1>5. QED
  BY <1>4, WordIsPositive, WordOfSmall DEF Words, Wraps

(* Shifting a word by half its width keeps the lower half. *)
LEMMA ShiftedWord ==
  ASSUME NEW n \in Words
  PROVE  /\ Wraps(n * Half) = Low(n) * Half
         /\ n * Half = High(n) * Word64 + Low(n) * Half
<1>1. n = High(n) * Half + Low(n) /\ High(n) \in HalfWords /\ Low(n) \in HalfWords
  BY SplitInHalves
<1>2. PICK h \in Nat : h = High(n)
  BY <1>1 DEF HalfWords
<1>3. PICK l \in 0 .. Half - 1 : l = Low(n)
  BY <1>1 DEF HalfWords
<1>4. n * Half = h * Word64 + l * Half
  <2>1. n = h * Half + l
    BY <1>1, <1>2, <1>3
  <2>2. (h * Half + l) * Half = h * (Half * Half) + l * Half
    BY HalfAssumption
  <2>3. QED
    BY <2>1, <2>2 DEF Word64
<1>5. l * Half \in 0 .. Word64 - 1
  <2>1. l * Half + Half <= Half * Half
    BY HalfAssumption, ScaleUp
  <2>2. l * Half >= 0 /\ l * Half \in Int
    BY HalfAssumption
  <2>3. QED
    BY <2>1, <2>2, HalfAssumption DEF Word64
<1>6. n * Half \in Int
  BY <1>1, <1>2, <1>3, HalfAssumption
<1>7. (n * Half) % Word64 = l * Half
  <2>1. PICK shifted \in Int : shifted = n * Half
    BY <1>6
  <2>2. PICK rest \in 0 .. Word64 - 1 : rest = l * Half
    BY <1>5
  <2>3. shifted = h * Word64 + rest
    BY <1>4, <2>1, <2>2
  <2>4. shifted % Word64 = rest
    BY <2>3, WordIsPositive, RemainderIsUnique
  <2>5. QED
    BY <2>1, <2>2, <2>4
<1>8. QED
  BY <1>2, <1>3, <1>4, <1>7 DEF Wraps

(* The middle sum has room for its carries. *)
LEMMA MiddleFits ==
  ASSUME NEW p0 \in Words, NEW p1 \in Words, NEW p2 \in Words
  PROVE  /\ Middle(p0, p1, p2) = High(p0) + Low(p1) + Low(p2)
         /\ Middle(p0, p1, p2) \in Words
<1>1. PICK x \in HalfWords : x = High(p0)
  BY SplitInHalves
<1>2. PICK y \in HalfWords : y = Low(p1)
  BY SplitInHalves
<1>3. PICK z \in HalfWords : z = Low(p2)
  BY SplitInHalves
<1>4. x + y + z <= 3 * (Half - 1) /\ x + y + z \in Nat
  BY HalfAssumption DEF HalfWords
<1>5. 3 * (Half - 1) <= Half * Half - 1
  <2>1. CASE Half = 1
    BY <2>1
  <2>2. CASE Half >= 2
    <3>1. (Half - 1) * (Half - 2) >= 0
      BY <2>2, HalfAssumption
    <3>2. (Half - 1) * (Half - 2) = Half * Half - 3 * Half + 2
      BY HalfAssumption
    <3>3. QED
      BY <3>1, <3>2, HalfAssumption
  <2>3. QED
    BY <2>1, <2>2, HalfAssumption
<1>6. x + y + z \in 0 .. Word64 - 1
  BY <1>4, <1>5, HalfAssumption DEF Word64
<1>7. (x + y + z) % Word64 = x + y + z
  BY <1>6, WordIsPositive, WordOfSmall
<1>8. QED
  BY <1>1, <1>2, <1>3, <1>6, <1>7 DEF Middle, Wraps, Words

-----------------------------------------------------------------------------
(* umul64wide: schoolbook multiplication with halves as digits.            *)

LEMMA WideProductIsExact ==
  ASSUME NEW l \in Words, NEW r \in Words,
         NEW wide, wide = Umul64Wide(l, r)
  PROVE  /\ wide.low \in Words
         /\ wide.high \in Words
         /\ l * r = wide.high * Word64 + wide.low
<1>1. PICK a \in HalfWords, b \in HalfWords :
        a = High(l) /\ b = Low(l) /\ l = a * Half + b
  BY SplitInHalves
<1>2. PICK c \in HalfWords, d \in HalfWords :
        c = High(r) /\ d = Low(r) /\ r = c * Half + d
  BY SplitInHalves
<1>3. PICK p0 \in Words : p0 = b * d /\ p0 = Wraps(b * d)
  BY PartialProductFits
<1>4. PICK p1 \in Words : p1 = b * c /\ p1 = Wraps(b * c)
  BY PartialProductFits
<1>5. PICK p2 \in Words : p2 = a * d /\ p2 = Wraps(a * d)
  BY PartialProductFits
<1>6. PICK p3 \in Words : p3 = a * c /\ p3 = Wraps(a * c)
  BY PartialProductFits
<1>7. PICK h0 \in HalfWords, l0 \in HalfWords :
        h0 = High(p0) /\ l0 = Low(p0) /\ p0 = h0 * Half + l0
  BY SplitInHalves
<1>8. PICK h1 \in HalfWords, l1 \in HalfWords :
        h1 = High(p1) /\ l1 = Low(p1) /\ p1 = h1 * Half + l1
  BY SplitInHalves
<1>9. PICK h2 \in HalfWords, l2 \in HalfWords :
        h2 = High(p2) /\ l2 = Low(p2) /\ p2 = h2 * Half + l2
  BY SplitInHalves
<1>10. PICK m \in Words : m = Middle(p0, p1, p2) /\ m = h0 + l1 + l2
  <2>1. PICK mid : mid = Middle(p0, p1, p2)
    OBVIOUS
  <2>2. mid = High(p0) + Low(p1) + Low(p2) /\ mid \in Words
    BY <2>1, MiddleFits
  <2>3. QED
    BY <1>7, <1>8, <1>9, <2>1, <2>2
<1>11. PICK hm \in HalfWords, lm \in HalfWords :
         /\ hm = High(m) /\ lm = Low(m) /\ m = hm * Half + lm
         /\ Wraps(m * Half) = lm * Half
  BY SplitInHalves, ShiftedWord
<1>12. /\ wide.low = lm * Half + l0
       /\ wide.high = Wraps(p3 + h1 + h2 + hm)
  <2>1. wide = [low |-> Wraps(m * Half) + l0, high |-> Wraps(p3 + h1 + h2 + hm)]
    BY <1>1, <1>2, <1>3, <1>4, <1>5, <1>6, <1>7, <1>8, <1>9, <1>10, <1>11,
       Zenon DEF Umul64Wide
  <2>2. QED
    BY <1>11, <2>1
<1>13. PICK high \in Nat : high = p3 + h1 + h2 + hm
  BY WordIsPositive, HalfAssumption DEF Words, HalfWords
<1>14. PICK low \in Nat : low = lm * Half + l0
  BY HalfAssumption DEF HalfWords
<1>15. low < Word64
  <2>1. lm * Half + Half <= Half * Half
    BY HalfAssumption, ScaleUp DEF HalfWords
  <2>2. PICK x \in Int : x = lm * Half
    BY HalfAssumption DEF HalfWords
  <2>3. QED
    BY <1>14, <2>1, <2>2, HalfAssumption DEF HalfWords, Word64
<1>16. l * r = high * Word64 + low
  <2> USE HalfAssumption DEF HalfWords
  <2>1. l * r = p3 * (Half * Half) + (p1 + p2) * Half + p0
    <3>1. (a * Half + b) * (c * Half + d)
            = (a * c) * (Half * Half) + (b * c + a * d) * Half + b * d
      OBVIOUS
    <3>2. QED
      BY <1>1, <1>2, <1>3, <1>4, <1>5, <1>6, <3>1
  <2>2. (p1 + p2) * Half + p0
          = (h1 + h2) * (Half * Half) + (h0 + l1 + l2) * Half + l0
    <3>1. ((h1 * Half + l1) + (h2 * Half + l2)) * Half + (h0 * Half + l0)
            = (h1 + h2) * (Half * Half) + (h0 + l1 + l2) * Half + l0
      OBVIOUS
    <3>2. QED
      BY <1>7, <1>8, <1>9, <3>1
  <2>3. (h0 + l1 + l2) * Half = hm * (Half * Half) + lm * Half
    <3>1. (hm * Half + lm) * Half = hm * (Half * Half) + lm * Half
      OBVIOUS
    <3>2. QED
      BY <1>10, <1>11, <3>1
  <2>4. (p3 + h1 + h2 + hm) * (Half * Half)
          = p3 * (Half * Half) + (h1 + h2) * (Half * Half) + hm * (Half * Half)
    BY WordIsPositive DEF Words
  <2>5. PICK x \in Int, y \in Int, z \in Int, u \in Int :
          /\ x = p3 * (Half * Half)
          /\ y = (h1 + h2) * (Half * Half)
          /\ z = hm * (Half * Half)
          /\ u = lm * Half
    BY WordIsPositive DEF Words
  <2>6. l * r = x + ((p1 + p2) * Half + p0)
    BY <2>1, <2>5, WordIsPositive DEF Words
  <2>7. l * r = x + (y + (z + u) + l0)
    BY <2>2, <2>3, <2>5, <2>6
  <2>8. high * Word64 = x + y + z
    BY <1>13, <2>4, <2>5 DEF Word64
  <2>9. QED
    BY <1>14, <2>5, <2>7, <2>8
<1>17. high < Word64
  <2>1. PICK lr \in Int : lr = l * r
    BY WordIsPositive DEF Words
  <2>2. lr < Word64 * Word64
    BY <2>1, WordIsPositive DEF Words
  <2>3. high * Word64 < Word64 * Word64
    BY <1>14, <1>16, <2>1, <2>2, WordIsPositive
  <2>4. QED
    BY <2>3, WordIsPositive, ScaleDown
<1>18. wide.high = high /\ wide.low = low
  BY <1>12, <1>13, <1>14, <1>17, WordIsPositive, WordOfSmall DEF Wraps
<1>19. QED
  BY <1>15, <1>16, <1>17, <1>18, WordIsPositive DEF Words

-----------------------------------------------------------------------------
(* __multi3: the terms that do not fit 128 bits are whole multiples of     *)
(* 2^128, and are left out.                                                *)

DoubleWords == 0 .. Word64 * Word64 - 1

LEMMA RemainderPlusMultiples ==
  ASSUME NEW d \in Nat \ {0}, NEW n \in Nat, NEW m \in Nat,
         NEW k \in Nat, m = n + k * d
  PROVE  n % d = m % d
<1>1. PICK z \in Nat, u \in 0 .. d - 1 : n = z * d + u /\ u = n % d
  BY QuotientRemainder
<1>2. PICK q \in Nat : q = z + k
  OBVIOUS
<1>3. m = q * d + u
  <2>1. (z + k) * d = z * d + k * d
    OBVIOUS
  <2>2. QED
    BY <1>1, <1>2, <2>1
<1>4. m % d = u
  <2>1. q \in Int /\ m \in Int
    OBVIOUS
  <2>2. QED
    BY <1>3, <2>1, RemainderIsUnique, Zenon
<1>5. QED
  BY <1>1, <1>4

LEMMA SplitInWords ==
  ASSUME NEW n \in DoubleWords
  PROVE  /\ n = (n \div Word64) * Word64 + Wraps(n)
         /\ n \div Word64 \in Words
         /\ Wraps(n) \in Words
<1>1. n \in Nat
  BY WordIsPositive DEF DoubleWords
<1>2. /\ n = (n \div Word64) * Word64 + (n % Word64)
      /\ n % Word64 \in 0 .. Word64 - 1
      /\ n \div Word64 \in Nat
  BY <1>1, WordIsPositive, QuotientRemainder
<1>3. (n \div Word64) * Word64 < Word64 * Word64
  BY <1>2, WordIsPositive DEF DoubleWords
<1>4. n \div Word64 < Word64
  BY <1>2, <1>3, WordIsPositive, ScaleDown
<1>5. QED
  BY <1>2, <1>4, WordIsPositive DEF Words, Wraps

LEMMA Multi3IsExact ==
  ASSUME NEW l \in DoubleWords, NEW r \in DoubleWords
  PROVE  \E q \in Nat : /\ l * r = q * (Word64 * Word64) + Multi3(l, r)
                        /\ Multi3(l, r) \in DoubleWords
<1> USE WordIsPositive DEF Words
<1>1. PICK a \in Words, b \in Words :
        a = l \div Word64 /\ b = Wraps(l) /\ l = a * Word64 + b
  BY SplitInWords
<1>2. PICK c \in Words, d \in Words :
        c = r \div Word64 /\ d = Wraps(r) /\ r = c * Word64 + d
  BY SplitInWords
<1>3. PICK wide : wide = Umul64Wide(b, d)
  OBVIOUS
<1>4. PICK low \in Words, high \in Words :
        low = wide.low /\ high = wide.high /\ b * d = high * Word64 + low
  <2>1. /\ wide.low \in Words
        /\ wide.high \in Words
        /\ b * d = wide.high * Word64 + wide.low
    BY <1>3, WideProductIsExact
  <2>2. QED
    BY <2>1
<1>5. PICK x \in Nat, y \in Nat : x = a * d /\ y = b * c
  OBVIOUS
<1>6. PICK n \in Nat : n = high + x + y
  OBVIOUS
<1>7. PICK k \in Nat, top \in Words : n = k * Word64 + top /\ top = n % Word64
  BY QuotientRemainder
<1>8. ResultHigh(wide, a, b, c, d) = top
  <2>1. PICK s \in Nat, i \in Nat : s = Wraps(a * d) /\ x = i * Word64 + s
    <3>1. PICK s \in Words, i \in Nat : s = x % Word64 /\ x = i * Word64 + s
      BY QuotientRemainder
    <3>2. s = Wraps(a * d) /\ s \in Nat
      BY <1>5, <3>1 DEF Wraps
    <3>3. QED
      BY <3>1, <3>2
  <2>2. PICK t \in Nat, j \in Nat : t = Wraps(b * c) /\ y = j * Word64 + t
    <3>1. PICK t \in Words, j \in Nat : t = y % Word64 /\ y = j * Word64 + t
      BY QuotientRemainder
    <3>2. t = Wraps(b * c) /\ t \in Nat
      BY <1>5, <3>1 DEF Wraps
    <3>3. QED
      BY <3>1, <3>2
  <2>3. PICK sum \in Nat : sum = high + s + t
    OBVIOUS
  <2>4. ResultHigh(wide, a, b, c, d) = sum % Word64
    <3>1. ResultHigh(wide, a, b, c, d) = Wraps(wide.high + s + t)
      BY <2>1, <2>2, Zenon DEF ResultHigh
    <3>2. QED
      BY <1>4, <2>3, <3>1 DEF Wraps
  <2>5. n = sum + (i + j) * Word64
    BY <1>6, <2>1, <2>2, <2>3
  <2>6. PICK k1 \in Nat : k1 = i + j
    OBVIOUS
  <2>7. n = sum + k1 * Word64
    BY <2>5, <2>6
  <2>8. sum % Word64 = n % Word64
    BY <2>7, RemainderPlusMultiples
  <2>9. QED
    BY <1>7, <2>4, <2>8
<1>9. Multi3(l, r) = top * Word64 + low
  BY <1>1, <1>2, <1>3, <1>4, <1>8 DEF Multi3
<1>10. l * r = (a * c + k) * (Word64 * Word64) + (top * Word64 + low)
  <2>1. (a * Word64 + b) * (c * Word64 + d)
          = (a * c) * (Word64 * Word64) + (a * d + b * c) * Word64 + b * d
    OBVIOUS
  <2>2. l * r = (a * c) * (Word64 * Word64) + (x + y) * Word64 + (high * Word64 + low)
    BY <1>1, <1>2, <1>4, <1>5, <2>1
  <2>3. (x + y) * Word64 + high * Word64 = n * Word64
    BY <1>6
  <2>4. n * Word64 = k * (Word64 * Word64) + top * Word64
    BY <1>7
  <2>5. (a * c + k) * (Word64 * Word64) = (a * c) * (Word64 * Word64) + k * (Word64 * Word64)
    OBVIOUS
  <2>6. PICK ac \in Int, kw \in Int, xyw \in Int, hw \in Int, tw \in Int :
          /\ ac = (a * c) * (Word64 * Word64)
          /\ kw = k * (Word64 * Word64)
          /\ xyw = (x + y) * Word64
          /\ hw = high * Word64
          /\ tw = top * Word64
    OBVIOUS
  <2>7. xyw + hw = kw + tw
    BY <2>3, <2>4, <2>6
  <2>8. l * r = ac + xyw + (hw + low)
    BY <2>2, <2>6
  <2>9. (a * c + k) * (Word64 * Word64) = ac + kw
    BY <2>5, <2>6
  <2>10. QED
    BY <2>6, <2>7, <2>8, <2>9
<1>11. top * Word64 + low \in DoubleWords
  <2>1. top * Word64 + Word64 <= Word64 * Word64
    BY ScaleUp
  <2>2. PICK tw \in Int, ww \in Int : tw = top * Word64 /\ ww = Word64 * Word64
    OBVIOUS
  <2>3. tw >= 0
    BY <2>2
  <2>4. QED
    BY <2>1, <2>2, <2>3 DEF DoubleWords
<1>12. a * c + k \in Nat
  OBVIOUS
<1>13. QED
  BY <1>9, <1>10, <1>11, <1>12

(* A signed operand is its unsigned value, or 2^128 less, which changes    *)
(* the product by whole multiples of 2^128.                                *)
LEMMA SignedProductAgrees ==
  ASSUME NEW l \in DoubleWords, NEW r \in DoubleWords
  PROVE  /\ Multi3(l, r) = (l * r) % (Word64 * Word64)
         /\ Multi3(l, r) = (Signed(l) * Signed(r)) % (Word64 * Word64)
<1>1. PICK W \in Nat \ {0} : W = Word64 * Word64
  BY WordIsPositive
<1>2. PICK q \in Nat, m \in 0 .. W - 1 : l * r = q * W + m /\ m = Multi3(l, r)
  BY <1>1, Multi3IsExact DEF DoubleWords
<1>3. l \in Int /\ r \in Int
  BY <1>1 DEF DoubleWords
<1>4. (l * r) % W = m
  <2>1. PICK p \in Int : p = l * r
    BY <1>3
  <2>2. p = q * W + m
    BY <1>2, <2>1
  <2>3. p % W = m
    BY <2>2, RemainderIsUnique
  <2>4. QED
    BY <2>1, <2>3
<1>5. PICK s \in {0, 1}, t \in {0, 1} :
        Signed(l) = l - s * W /\ Signed(r) = r - t * W
  BY <1>1, <1>3 DEF Signed
<1>6. (Signed(l) * Signed(r)) % W = m
  <2>1. PICK p \in Int : p = (l - s * W) * (r - t * W)
    BY <1>3
  <2>2. PICK k \in Int : k = q - s * r - t * l + s * t * W
    BY <1>3
  <2>3. p = l * r - (s * r) * W - (t * l) * W + (s * t * W) * W
    BY <1>3, <2>1
  <2>4. k * W = q * W - (s * r) * W - (t * l) * W + (s * t * W) * W
    BY <1>3, <2>2
  <2>5. p = k * W + m
    <3>1. PICK lr \in Int, qW \in Int, srW \in Int, tlW \in Int, stW \in Int :
            /\ lr = l * r
            /\ qW = q * W
            /\ srW = (s * r) * W
            /\ tlW = (t * l) * W
            /\ stW = (s * t * W) * W
      BY <1>3
    <3>2. lr = qW + m
      BY <1>2, <3>1
    <3>3. p = lr - srW - tlW + stW
      BY <2>3, <3>1
    <3>4. k * W = qW - srW - tlW + stW
      BY <2>4, <3>1
    <3>5. QED
      BY <3>2, <3>3, <3>4
  <2>6. p % W = m
    BY <2>5, RemainderIsUnique
  <2>7. QED
    BY <1>5, <2>1, <2>6
<1>7. QED
  BY <1>1, <1>2, <1>4, <1>6

-----------------------------------------------------------------------------

(* memmove *)

(* One step of the loops, and what a function of the steps is.             *)
CopyByte(memory, dest, src, i) == [memory EXCEPT ![dest + i] = memory[src + i]]

TakesSteps(f, memory, dest, src, order) ==
  /\ f = [n \in 0 .. Len(order) |-> f[n]]
  /\ f[0] = memory
  /\ \A n \in 1 .. Len(order) : f[n] = CopyByte(f[n - 1], dest, src, order[n])

(* A function that takes the steps of the loop is what the loop computes.  *)
LEMMA CopyIsStepwise ==
  ASSUME NEW memory, NEW dest, NEW src, NEW order, Len(order) \in Nat,
         NEW f, TakesSteps(f, memory, dest, src, order)
  PROVE  CopyBytes(memory, dest, src, order) = f[Len(order)]
<1> DEFINE Step(copied, n) ==
             IF n = 0 THEN memory
             ELSE CopyByte(copied[n - 1], dest, src, order[n])
           chosen == CHOOSE copied : copied = [n \in 0 .. Len(order) |-> Step(copied, n)]
<1>1. f = [n \in 0 .. Len(order) |-> Step(f, n)]
  <2>1. \A n \in 0 .. Len(order) : f[n] = Step(f, n)
    BY DEF TakesSteps
  <2> HIDE DEF Step
  <2>2. QED
    BY <2>1 DEF TakesSteps
<1>2. chosen = [n \in 0 .. Len(order) |-> Step(chosen, n)]
  <2> HIDE DEF Step
  <2>1. QED
    BY <1>1
<1>3. CopyBytes(memory, dest, src, order) = chosen[Len(order)]
  BY DEF CopyBytes, CopyByte
<1> HIDE DEF chosen
<1> DEFINE P(n) == n <= Len(order) => chosen[n] = f[n]
           T == {n \in Nat : P(n)}
<1>4. P(0)
  <2>1. chosen[0] = Step(chosen, 0)
    <3> HIDE DEF Step
    <3>1. QED
      BY <1>2
  <2>2. QED
    BY <2>1 DEF TakesSteps
<1>5. ASSUME NEW n \in Nat, P(n)
      PROVE  P(n + 1)
  <2> SUFFICES ASSUME n + 1 <= Len(order)
               PROVE  chosen[n + 1] = f[n + 1]
    OBVIOUS
  <2>1. /\ n + 1 \in 1 .. Len(order) /\ n + 1 \in 0 .. Len(order)
        /\ (n + 1) - 1 = n /\ chosen[n] = f[n]
    BY <1>5
  <2>2. chosen[n + 1] = Step(chosen, n + 1)
    <3> HIDE DEF Step
    <3>1. QED
      BY <1>2, <2>1
  <2>3. QED
    BY <2>1, <2>2 DEF TakesSteps
<1>6. P(Len(order))
  <2> HIDE DEF P
  <2>1. 0 \in T /\ \A n \in Nat : n \in T => n + 1 \in T
    BY <1>4, <1>5
  <2>2. Nat \subseteq T
    <3> HIDE DEF T
    <3>1. QED
      BY <2>1, Induction
  <2>3. QED
    BY <2>2
<1>7. QED
  BY <1>3, <1>6

IsMemory(memory) ==
  memory = [a \in DOMAIN memory |-> memory[a]] /\ DOMAIN memory \subseteq Nat

(* The bytes that dest + i and src + i are for the i from first to last.   *)
Copied(memory, dest, src, first, last) ==
  [a \in DOMAIN memory |-> IF a \in dest + first .. dest + last
                           THEN memory[src + (a - dest)] ELSE memory[a]]

(* The byte i extends what is copied, and is read where nothing was.       *)
Extends(memory, dest, src, first, last, i, lo, hi) ==
  /\ dest + i \in DOMAIN memory
  /\ src + i \in DOMAIN memory
  /\ src + i \notin dest + first .. dest + last
  /\ \A k \in Int : k \in lo .. hi <=> k = i \/ k \in first .. last

LEMMA CopiedByteByByte ==
  ASSUME NEW memory, IsMemory(memory),
         NEW dest \in Nat, NEW src \in Nat, NEW first \in Int, NEW last \in Int, NEW i \in Int,
         NEW lo \in Int, NEW hi \in Int,
         Extends(memory, dest, src, first, last, i, lo, hi)
  PROVE  CopyByte(Copied(memory, dest, src, first, last), dest, src, i)
           = Copied(memory, dest, src, lo, hi)
<1>1. Copied(memory, dest, src, first, last)[src + i] = memory[src + i]
  BY DEF Copied, Extends
<1>2. ASSUME NEW a \in DOMAIN memory
      PROVE  (IF a = dest + i THEN memory[src + i]
              ELSE Copied(memory, dest, src, first, last)[a])
                = Copied(memory, dest, src, lo, hi)[a]
  <2>1. a \in Nat /\ a - dest \in Int
    BY DEF IsMemory
  <2>2. a - dest \in lo .. hi <=> a - dest = i \/ a - dest \in first .. last
    BY <2>1 DEF Extends
  <2>3. a \in dest + lo .. dest + hi <=> a = dest + i \/ a \in dest + first .. dest + last
    BY <2>1, <2>2
  <2>4. a = dest + i => src + (a - dest) = src + i
    OBVIOUS
  <2>5. QED
    BY <2>1, <2>3, <2>4 DEF Copied
<1>3. Copied(memory, dest, src, lo, hi)
        = [a \in DOMAIN memory |-> Copied(memory, dest, src, lo, hi)[a]]
  BY DEF Copied
<1>4. Copied(memory, dest, src, first, last)
        = [a \in DOMAIN memory |-> Copied(memory, dest, src, first, last)[a]]
  BY DEF Copied
<1>5. QED
  BY <1>1, <1>2, <1>3, <1>4 DEF CopyByte, Extends

LEMMA NothingCopied ==
  ASSUME NEW memory, IsMemory(memory),
         NEW dest \in Nat, NEW src \in Nat, NEW first \in Int, NEW last \in Int, last < first
  PROVE  Copied(memory, dest, src, first, last) = memory
<1>1. dest + first .. dest + last = {}
  OBVIOUS
<1>2. QED
  BY <1>1 DEF Copied, IsMemory

(* The direction is chosen so that no byte is read that has been written.  *)
LEMMA MemmoveCopies ==
  ASSUME NEW memory, IsMemory(memory),
         NEW dest \in Nat, NEW src \in Nat, NEW count \in Nat,
         \A i \in 0 .. count - 1 : dest + i \in DOMAIN memory /\ src + i \in DOMAIN memory
  PROVE  memmove(memory, dest, src, count) = Copied(memory, dest, src, 0, count - 1)
<1> DEFINE up == Upwards(count)
           down == Reverse(up)
<1>1. Len(up) = count /\ \A n \in 1 .. count : up[n] = n - 1
  BY DEF Upwards
<1>2. Len(down) = count /\ \A n \in 1 .. count : down[n] = count - n
  BY <1>1 DEF Reverse
<1> HIDE DEF up, down
<1>3. CASE dest < src
  <2> DEFINE f == [n \in 0 .. count |-> Copied(memory, dest, src, 0, n - 1)]
  <2>1. ASSUME NEW n \in 1 .. count
        PROVE  f[n] = CopyByte(f[n - 1], dest, src, up[n])
    <3>1. PICK i \in 0 .. count - 1, l \in Int : i = n - 1 /\ l = i - 1
      OBVIOUS
    <3>2. f[n] = Copied(memory, dest, src, 0, i) /\ f[n - 1] = Copied(memory, dest, src, 0, l)
      BY <3>1
    <3>3. Extends(memory, dest, src, 0, l, i, 0, i)
      BY <1>3, <3>1 DEF Extends
    <3>4. up[n] = i /\ 0 \in Int /\ i \in Int
      BY <1>1, <3>1
    <3> HIDE DEF f
    <3>5. CopyByte(Copied(memory, dest, src, 0, l), dest, src, i) = Copied(memory, dest, src, 0, i)
      BY <3>3, <3>4, CopiedByteByByte
    <3>6. QED
      BY <3>2, <3>4, <3>5
  <2>2. f[0] = memory
    BY NothingCopied
  <2>3. f = [n \in 0 .. Len(up) |-> f[n]]
    BY <1>1
  <2>4. f[count] = Copied(memory, dest, src, 0, count - 1)
    OBVIOUS
  <2> HIDE DEF f
  <2>5. TakesSteps(f, memory, dest, src, up)
    BY <1>1, <2>1, <2>2, <2>3 DEF TakesSteps
  <2>6. CopyBytes(memory, dest, src, up) = f[count]
    BY <1>1, <2>5, CopyIsStepwise
  <2>7. QED
    BY <1>3, <2>4, <2>6 DEF memmove, up
<1>4. CASE dest > src
  <2> DEFINE f == [n \in 0 .. count |-> Copied(memory, dest, src, count - n, count - 1)]
  <2>1. ASSUME NEW n \in 1 .. count
        PROVE  f[n] = CopyByte(f[n - 1], dest, src, down[n])
    <3>1. PICK i \in 0 .. count - 1, k \in Int, l \in Int :
            i = count - n /\ k = i + 1 /\ l = count - 1
      OBVIOUS
    <3>2. f[n] = Copied(memory, dest, src, i, l) /\ f[n - 1] = Copied(memory, dest, src, k, l)
      BY <3>1
    <3>3. Extends(memory, dest, src, k, l, i, i, l)
      BY <1>4, <3>1 DEF Extends
    <3>4. down[n] = i /\ i \in Int
      BY <1>2, <3>1
    <3> HIDE DEF f
    <3>5. CopyByte(Copied(memory, dest, src, k, l), dest, src, i) = Copied(memory, dest, src, i, l)
      BY <3>3, <3>4, CopiedByteByByte
    <3>6. QED
      BY <3>2, <3>4, <3>5
  <2>2. f[0] = memory
    BY NothingCopied
  <2>3. f = [n \in 0 .. Len(down) |-> f[n]]
    BY <1>2
  <2>4. f[count] = Copied(memory, dest, src, 0, count - 1)
    OBVIOUS
  <2> HIDE DEF f
  <2>5. TakesSteps(f, memory, dest, src, down)
    BY <1>2, <2>1, <2>2, <2>3 DEF TakesSteps
  <2>6. CopyBytes(memory, dest, src, down) = f[count]
    BY <1>2, <2>5, CopyIsStepwise
  <2>7. QED
    BY <1>4, <2>4, <2>6 DEF memmove, down, up
<1>5. CASE dest = src
  <2>1. CopyBytes(memory, dest, src, <<>>) = memory
    <3> DEFINE f == [n \in 0 .. Len(<<>>) |-> memory]
    <3>1. Len(<<>>) = 0
      OBVIOUS
    <3>2. f = [n \in 0 .. Len(<<>>) |-> f[n]] /\ f[0] = memory
      BY <3>1
    <3>3. \A n \in 1 .. Len(<<>>) : FALSE
      BY <3>1
    <3> HIDE DEF f
    <3>4. TakesSteps(f, memory, dest, src, <<>>)
      BY <3>2, <3>3 DEF TakesSteps
    <3>5. f[Len(<<>>)] = memory
      BY <3>1, <3>2
    <3>6. QED
      BY <3>1, <3>4, <3>5, CopyIsStepwise
  <2>2. Copied(memory, dest, src, 0, count - 1) = memory
    BY <1>5 DEF Copied, IsMemory
  <2>3. QED
    BY <1>5, <2>1, <2>2 DEF memmove
<1>6. QED
  BY <1>3, <1>4, <1>5

-----------------------------------------------------------------------------
(* Numbers: a loop over digits is a function of their number, and sums the *)
(* digits at their places.                                                 *)

(* f[k] = f[k - 1] * a + d[k], from f[0] = v on.                           *)
Scales(f, n, v, a, d) ==
  f = [k \in 0 .. n |-> IF k = 0 THEN v ELSE f[k - 1] * a + d[k]]

(* The same of each value.                                                 *)
Stepwise(f, n, v, a, d) ==
  /\ f[0] = v
  /\ \A k \in 0 .. n : f[k] \in Int
  /\ \A k \in 1 .. n : f[k] = f[k - 1] * a + d[k]

LEMMA ScalesExists ==
  ASSUME NEW N \in Nat, NEW v \in Int, NEW a \in Int, NEW d, \A k \in 1 .. N : d[k] \in Int
  PROVE  \E f : Scales(f, N, v, a, d) /\ \A k \in 0 .. N : f[k] \in Int
<1> DEFINE P(n) == n <= N => \E f : Scales(f, n, v, a, d) /\ \A k \in 0 .. n : f[k] \in Int
           T == {n \in Nat : P(n)}
<1>1. P(0)
  <2> DEFINE f == [k \in 0 .. 0 |-> v]
  <2>1. Scales(f, 0, v, a, d)
    BY DEF Scales
  <2>2. \A k \in 0 .. 0 : f[k] \in Int
    OBVIOUS
  <2>3. QED
    BY <2>1, <2>2
<1>2. ASSUME NEW n \in Nat, P(n)
      PROVE  P(n + 1)
  <2> SUFFICES ASSUME n + 1 <= N
               PROVE  \E g : /\ Scales(g, n + 1, v, a, d)
                             /\ \A k \in 0 .. n + 1 : g[k] \in Int
    OBVIOUS
  <2>1. PICK f : Scales(f, n, v, a, d) /\ \A k \in 0 .. n : f[k] \in Int
    BY <1>2
  <2>2. PICK x \in Int : x = f[n] * a + d[n + 1]
    <3>1. f[n] \in Int /\ d[n + 1] \in Int
      BY <2>1
    <3>2. QED
      BY <3>1
  <2> DEFINE g == [k \in 0 .. n + 1 |-> IF k = n + 1 THEN x ELSE f[k]]
  <2>3. \A k \in 0 .. n : g[k] = f[k]
    OBVIOUS
  <2>4. g[n + 1] = x
    OBVIOUS
  <2>5. \A k \in 0 .. n + 1 : g[k] = IF k = 0 THEN v ELSE g[k - 1] * a + d[k]
    <3> SUFFICES ASSUME NEW k \in 0 .. n + 1
                 PROVE  g[k] = IF k = 0 THEN v ELSE g[k - 1] * a + d[k]
      OBVIOUS
    <3> HIDE DEF g
    <3>1. CASE k = n + 1
      BY <3>1, <2>2, <2>3, <2>4
    <3>2. CASE k \in 0 .. n
      <4>1. f[k] = IF k = 0 THEN v ELSE f[k - 1] * a + d[k]
        BY <2>1, <3>2 DEF Scales
      <4>2. CASE k = 0
        BY <2>3, <3>2, <4>1, <4>2
      <4>3. CASE k # 0
        <5>1. k - 1 \in 0 .. n
          BY <3>2, <4>3
        <5>2. g[k] = f[k] /\ g[k - 1] = f[k - 1]
          BY <2>3, <3>2, <5>1
        <5>3. QED
          BY <4>1, <4>3, <5>2
      <4>4. QED
        BY <4>2, <4>3
    <3>3. QED
      BY <3>1, <3>2
  <2>6. \A k \in 0 .. n + 1 : g[k] \in Int
    BY <2>1
  <2>7. Scales(g, n + 1, v, a, d)
    <3>1. g = [k \in 0 .. n + 1 |-> g[k]]
      OBVIOUS
    <3> HIDE DEF g
    <3>2. QED
      BY <2>5, <3>1 DEF Scales
  <2>8. QED
    BY <2>6, <2>7
<1>3. P(N)
  <2> HIDE DEF P
  <2>1. 0 \in T /\ \A n \in Nat : n \in T => n + 1 \in T
    BY <1>1, <1>2
  <2>2. Nat \subseteq T
    <3> HIDE DEF T
    <3>1. QED
      BY <2>1, Induction
  <2>3. QED
    BY <2>2
<1>4. QED
  BY <1>3

LEMMA ScalesValues ==
  ASSUME NEW N \in Nat, NEW v \in Int, NEW a \in Int, NEW d, \A k \in 1 .. N : d[k] \in Int,
         NEW f, Scales(f, N, v, a, d)
  PROVE  Stepwise(f, N, v, a, d)
<1>1. f[0] = v
  BY DEF Scales
<1>2. \A k \in 1 .. N : f[k] = f[k - 1] * a + d[k]
  BY DEF Scales
<1> DEFINE P(n) == n <= N => f[n] \in Int
           T == {n \in Nat : P(n)}
<1>3. P(0)
  BY <1>1
<1>4. ASSUME NEW n \in Nat, P(n)
      PROVE  P(n + 1)
  <2> SUFFICES ASSUME n + 1 <= N
               PROVE  f[n + 1] \in Int
    OBVIOUS
  <2>1. n + 1 \in 1 .. N /\ (n + 1) - 1 = n /\ f[n] \in Int
    BY <1>4
  <2>2. f[n + 1] = f[n] * a + d[n + 1] /\ d[n + 1] \in Int
    BY <1>2, <2>1
  <2>3. QED
    BY <2>1, <2>2
<1>5. \A n \in Nat : P(n)
  <2> HIDE DEF P
  <2>1. 0 \in T /\ \A n \in Nat : n \in T => n + 1 \in T
    BY <1>3, <1>4
  <2>2. Nat \subseteq T
    <3> HIDE DEF T
    <3>1. QED
      BY <2>1, Induction
  <2>3. QED
    BY <2>2
<1>6. QED
  BY <1>1, <1>2, <1>5 DEF Stepwise

LEMMA DigitValues ==
  ASSUME NEW c \in Digits
  PROVE  DigitValue(c) \in Nat
<1> DEFINE names == <<"0","1","2","3","4","5","6","7","8","9">>
<1>1. \E n \in 0 .. 9 : c = names[n + 1]
  BY DEF Digits
<1>2. DigitValue(c) \in 0 .. 9
  <2> HIDE DEF names
  <2>1. DigitValue(c) = CHOOSE n \in 0 .. 9 : c = names[n + 1]
    BY DEF DigitValue, names
  <2>2. QED
    BY <1>1, <2>1
<1>3. QED
  BY <1>2

(* d are the values of the n digits from i on. *)
DigitsFrom(text, i, n, d) ==
  \A k \in 1 .. n : text[i + k - 1] \in Digits /\ d[k] = DigitValue(text[i + k - 1])

ReachedBy(f, text, i, n, v, d) == Scales(f, n, v, 10, d) /\ Accumulate(text, i, i + n, v) = f[n]

(* What the loop over the n characters from i on computes.                 *)
LEMMA AccumulateIs ==
  ASSUME NEW text, NEW i \in Int, NEW n \in Nat, NEW v \in Int, NEW d, DigitsFrom(text, i, n, d)
  PROVE  \E f : ReachedBy(f, text, i, n, v, d)
<1> DEFINE Step(f, k) == IF k = 0 THEN v ELSE f[k - 1] * 10 + DigitValue(text[i + k - 1])
           read == CHOOSE f : f = [k \in 0 .. n |-> Step(f, k)]
<1>1. (i + n) - i = n
  OBVIOUS
<1>2. \A k \in 1 .. n : d[k] \in Int
  BY DigitValues DEF DigitsFrom
<1>3. PICK g : Scales(g, n, v, 10, d)
  <2>1. PICK ten \in Int : ten = 10
    OBVIOUS
  <2>2. \E g : Scales(g, n, v, ten, d)
    BY <1>2, ScalesExists
  <2>3. QED
    BY <2>1, <2>2
<1>4. g = [k \in 0 .. n |-> Step(g, k)]
  <2> DEFINE N(k) == IF k = 0 THEN v ELSE g[k - 1] * 10 + d[k]
  <2>1. \A k \in 0 .. n : Step(g, k) = N(k)
    BY DEF DigitsFrom
  <2>2. g = [k \in 0 .. n |-> N(k)]
    BY <1>3 DEF Scales
  <2> HIDE DEF Step, N
  <2>3. QED
    BY <2>1, <2>2
<1>5. read = [k \in 0 .. n |-> Step(read, k)]
  <2> HIDE DEF Step
  <2>1. QED
    BY <1>4
<1>6. Accumulate(text, i, i + n, v) = read[n]
  <2> DEFINE Read(m) == (CHOOSE f : f = [k \in 0 .. m |-> Step(f, k)])[m]
  <2>1. Accumulate(text, i, i + n, v) = Read((i + n) - i)
    BY DEF Accumulate
  <2> HIDE DEF Step
  <2>2. read[n] = Read(n)
    OBVIOUS
  <2> HIDE DEF read, Read
  <2>3. QED
    BY <1>1, <2>1, <2>2
<1> HIDE DEF read
<1>7. Scales(read, n, v, 10, d)
  <2> DEFINE N(k) == IF k = 0 THEN v ELSE read[k - 1] * 10 + d[k]
  <2>1. \A k \in 0 .. n : Step(read, k) = N(k)
    BY DEF DigitsFrom
  <2> HIDE DEF Step, N
  <2>2. read = [k \in 0 .. n |-> N(k)]
    BY <1>5, <2>1
  <2>3. QED
    BY <2>2 DEF Scales, N
<1>8. QED
  BY <1>6, <1>7 DEF ReachedBy

ValuesOf(digits, n, d) == n = Len(digits) /\ \A k \in 1 .. n : d[k] = DigitValue(digits[k])

(* The sum of the digits at their places is what the loop comes to.        *)
LEMMA NumeralIs ==
  ASSUME NEW digits \in Seq(Digits), NEW n, NEW d, ValuesOf(digits, n, d),
         NEW f, Scales(f, n, 0, 10, d)
  PROVE  Numeral(digits) = f[n] /\ f[n] \in Int
<1> DEFINE PowerStep(g, k) == IF k = 0 THEN 1 ELSE g[k - 1] * 10
           power == CHOOSE g : g = [k \in 0 .. n |-> PowerStep(g, k)]
           SumStep(g, k) == IF k = 0 THEN 0 ELSE g[k - 1] + DigitValue(digits[k]) * power[n - k]
           sum == CHOOSE g : g = [k \in 0 .. n |-> SumStep(g, k)]
<1>1. n \in Nat /\ \A k \in 1 .. n : digits[k] \in Digits
  BY DEF ValuesOf
<1>2. \A k \in 1 .. n : d[k] \in Int
  BY <1>1, DigitValues DEF ValuesOf
<1>3. Numeral(digits) = sum[n]
  <2>1. n = Len(digits)
    BY DEF ValuesOf
  <2>2. QED
    BY <2>1 DEF Numeral
<1>4. power = [k \in 0 .. n |-> PowerStep(power, k)]
  <2> DEFINE none == [k \in 1 .. n |-> 0]
  <2>1. \A k \in 1 .. n : none[k] = 0
    OBVIOUS
  <2>2. PICK g : Scales(g, n, 1, 10, none) /\ \A k \in 0 .. n : g[k] \in Int
    <3> HIDE DEF none
    <3>1. \A k \in 1 .. n : none[k] \in Int
      BY <2>1
    <3>2. PICK one \in Int, ten \in Int : one = 1 /\ ten = 10
      OBVIOUS
    <3>3. \E g : Scales(g, n, one, ten, none) /\ \A k \in 0 .. n : g[k] \in Int
      BY <1>1, <3>1, ScalesExists
    <3>4. QED
      BY <3>2, <3>3
  <2>3. g = [k \in 0 .. n |-> PowerStep(g, k)]
    <3> HIDE DEF none
    <3>1. \A k \in 0 .. n : (IF k = 0 THEN 1 ELSE g[k - 1] * 10 + none[k]) = PowerStep(g, k)
      <4> SUFFICES ASSUME NEW k \in 0 .. n, k # 0
                   PROVE  g[k - 1] * 10 + none[k] = g[k - 1] * 10
        OBVIOUS
      <4>1. k \in 1 .. n /\ k - 1 \in 0 .. n
        BY <1>1
      <4>2. g[k - 1] \in Int /\ none[k] = 0
        BY <2>1, <2>2, <4>1
      <4>3. QED
        BY <4>2
    <3> DEFINE S(k) == IF k = 0 THEN 1 ELSE g[k - 1] * 10 + none[k]
    <3>2. g = [k \in 0 .. n |-> S(k)]
      BY <2>2 DEF Scales
    <3>3. \A k \in 0 .. n : S(k) = PowerStep(g, k)
      BY <3>1
    <3> HIDE DEF S, PowerStep
    <3>4. QED
      BY <3>2, <3>3
  <2> HIDE DEF PowerStep
  <2>4. QED
    BY <2>3
<1> HIDE DEF power
<1>5. /\ power[0] = 1
      /\ \A k \in 0 .. n : power[k] \in Int
      /\ \A k \in 1 .. n : power[k] = power[k - 1] * 10
  <2>1. power[0] = 1 /\ \A k \in 1 .. n : power[k] = power[k - 1] * 10
    BY <1>1, <1>4
  <2> DEFINE P(k) == k <= n => power[k] \in Int
             T == {k \in Nat : P(k)}
  <2>2. P(0)
    BY <2>1
  <2>3. ASSUME NEW k \in Nat, P(k)
        PROVE  P(k + 1)
    <3>1. k + 1 <= n => power[k + 1] = power[k] * 10 /\ power[k] \in Int
      BY <1>1, <2>1, <2>3
    <3>2. QED
      BY <3>1
  <2>4. \A k \in Nat : P(k)
    <3> HIDE DEF P
    <3>1. 0 \in T /\ \A k \in Nat : k \in T => k + 1 \in T
      BY <2>2, <2>3
    <3>2. Nat \subseteq T
      <4> HIDE DEF T
      <4>1. QED
        BY <3>1, Induction
    <3>3. QED
      BY <3>2
  <2>5. QED
    BY <2>1, <2>4
<1>6. sum = [k \in 0 .. n |-> SumStep(sum, k)]
  <2> DEFINE w == [k \in 1 .. n |-> d[k] * power[n - k]]
  <2>1. \A k \in 1 .. n : w[k] = DigitValue(digits[k]) * power[n - k] /\ w[k] \in Int
    <3> SUFFICES ASSUME NEW k \in 1 .. n
                 PROVE  w[k] = DigitValue(digits[k]) * power[n - k] /\ w[k] \in Int
      OBVIOUS
    <3>1. n - k \in 0 .. n
      BY <1>1
    <3>2. power[n - k] \in Int /\ d[k] \in Int /\ d[k] = DigitValue(digits[k])
      BY <1>2, <1>5, <3>1 DEF ValuesOf
    <3>3. QED
      BY <3>2
  <2>2. PICK g : Scales(g, n, 0, 1, w) /\ \A k \in 0 .. n : g[k] \in Int
    <3> HIDE DEF w
    <3>1. PICK zero \in Int, one \in Int : zero = 0 /\ one = 1
      OBVIOUS
    <3>2. \E g : Scales(g, n, zero, one, w) /\ \A k \in 0 .. n : g[k] \in Int
      BY <1>1, <2>1, ScalesExists
    <3>3. QED
      BY <3>1, <3>2
  <2>3. g = [k \in 0 .. n |-> SumStep(g, k)]
    <3> HIDE DEF w
    <3>1. \A k \in 0 .. n : (IF k = 0 THEN 0 ELSE g[k - 1] * 1 + w[k]) = SumStep(g, k)
      <4> SUFFICES ASSUME NEW k \in 0 .. n, k # 0
                   PROVE  g[k - 1] * 1 + w[k] = g[k - 1] + DigitValue(digits[k]) * power[n - k]
        OBVIOUS
      <4>1. k \in 1 .. n /\ k - 1 \in 0 .. n
        BY <1>1
      <4>2. g[k - 1] \in Int /\ w[k] = DigitValue(digits[k]) * power[n - k] /\ w[k] \in Int
        BY <2>1, <2>2, <4>1
      <4>3. g[k - 1] * 1 = g[k - 1]
        BY <4>2
      <4>4. QED
        BY <4>2, <4>3
    <3> DEFINE S(k) == IF k = 0 THEN 0 ELSE g[k - 1] * 1 + w[k]
    <3>2. g = [k \in 0 .. n |-> S(k)]
      BY <2>2 DEF Scales
    <3>3. \A k \in 0 .. n : S(k) = SumStep(g, k)
      BY <3>1
    <3> HIDE DEF S, SumStep
    <3>4. QED
      BY <3>2, <3>3
  <2> HIDE DEF SumStep
  <2>4. QED
    BY <2>3
<1> HIDE DEF sum
<1>7. sum[0] = 0 /\ \A k \in 1 .. n : sum[k] = sum[k - 1] + d[k] * power[n - k]
  <2>1. \A k \in 0 .. n : sum[k] = SumStep(sum, k)
    <3> HIDE DEF SumStep
    <3>1. QED
      BY <1>6
  <2>2. sum[0] = 0
    BY <1>1, <2>1
  <2>3. ASSUME NEW k \in 1 .. n
        PROVE  sum[k] = sum[k - 1] + d[k] * power[n - k]
    <3>1. k \in 0 .. n /\ k # 0
      BY <1>1
    <3>2. sum[k] = sum[k - 1] + DigitValue(digits[k]) * power[n - k]
      BY <2>1, <3>1
    <3>3. QED
      BY <3>2 DEF ValuesOf
  <2>4. QED
    BY <2>2, <2>3
<1>8. f[0] = 0 /\ (\A k \in 0 .. n : f[k] \in Int) /\ \A k \in 1 .. n : f[k] = f[k - 1] * 10 + d[k]
  <2>1. PICK zero \in Int, ten \in Int : zero = 0 /\ ten = 10
    OBVIOUS
  <2>2. Scales(f, n, zero, ten, d)
    BY <2>1
  <2>3. Stepwise(f, n, zero, ten, d)
    <3>1. n \in Nat
      BY <1>1
    <3> HIDE DEF power, sum
    <3>2. QED
      BY <1>2, <2>2, <3>1, ScalesValues
  <2>4. QED
    BY <2>1, <2>3 DEF Stepwise
<1> DEFINE Q(k) == k <= n => sum[k] = f[k] * power[n - k]
           R == {k \in Nat : Q(k)}
<1>9. Q(0)
  <2>1. power[n] \in Int
    BY <1>1, <1>5
  <2>2. n - 0 = n
    BY <1>1
  <2>3. 0 * power[n] = 0
    BY <2>1
  <2>4. QED
    BY <1>7, <1>8, <2>2, <2>3
<1>10. ASSUME NEW k \in Nat, Q(k)
       PROVE  Q(k + 1)
  <2> SUFFICES ASSUME k + 1 <= n
               PROVE  sum[k + 1] = f[k + 1] * power[n - (k + 1)]
    OBVIOUS
  <2>1. /\ k + 1 \in 1 .. n /\ (k + 1) - 1 = k /\ k \in 0 .. n
        /\ n - k \in 1 .. n /\ (n - k) - 1 = n - (k + 1) /\ n - (k + 1) \in 0 .. n
    BY <1>1
  <2>2. sum[k + 1] = sum[k] + d[k + 1] * power[n - (k + 1)] /\ sum[k] = f[k] * power[n - k]
    BY <1>7, <1>10, <2>1
  <2>3. power[n - k] = power[n - (k + 1)] * 10
    BY <1>5, <2>1
  <2>4. f[k + 1] = f[k] * 10 + d[k + 1]
    BY <1>8, <2>1
  <2>5. PICK a \in Int, b \in Int, x \in Int :
          a = f[k] /\ b = d[k + 1] /\ x = power[n - (k + 1)]
    BY <1>2, <1>5, <1>8, <2>1
  <2>6. a * (x * 10) + b * x = (a * 10 + b) * x
    OBVIOUS
  <2>7. QED
    BY <2>2, <2>3, <2>4, <2>5, <2>6
<1>11. Q(n)
  <2> HIDE DEF Q
  <2>1. 0 \in R /\ \A k \in Nat : k \in R => k + 1 \in R
    BY <1>9, <1>10
  <2>2. Nat \subseteq R
    <3> HIDE DEF R
    <3>1. QED
      BY <2>1, Induction
  <2>3. QED
    BY <1>1, <2>2
<1>12. n - n = 0 /\ n \in 0 .. n
  BY <1>1
<1>13. f[n] \in Int /\ f[n] * 1 = f[n]
  BY <1>8, <1>12
<1>14. QED
  BY <1>3, <1>5, <1>11, <1>12, <1>13

-----------------------------------------------------------------------------
(* A text is the parts of a number one behind the other, and the parser    *)
(* finds each of them where it is.                                         *)

Characters ==
  Digits \cup Exponent \cup Blanks \cup {"+", "-", "."} \cup UNION {Range(rest) : rest \in Rests}

(* p is in the text at position i. *)
Part(text, i, p) ==
  /\ i \in Nat \ {0} /\ i - 1 + Len(p) <= Len(text)
  /\ \A k \in 1 .. Len(p) : text[i + k - 1] = p[k]

(* u is t with q behind it. *)
Grows(t, q, u) ==
  /\ Len(t) \in Nat /\ Len(u) = Len(t) + Len(q)
  /\ Part(u, Len(t) + 1, q)
  /\ \A i, p : Part(t, i, p) /\ Len(p) \in Nat => Part(u, i, p)

LEMMA PartsAppended ==
  ASSUME NEW t \in Seq(Characters), NEW q \in Seq(Characters)
  PROVE  Grows(t, q, t \o q)
<1> DEFINE u == t \o q
<1>1. /\ u \in Seq(Characters) /\ Len(u) = Len(t) + Len(q) /\ Len(t) \in Nat /\ Len(q) \in Nat
      /\ \A k \in 1 .. Len(t) : u[k] = t[k]
      /\ \A k \in 1 .. Len(q) : u[Len(t) + k] = q[k]
  OBVIOUS
<1> HIDE DEF u
<1>2. Part(u, Len(t) + 1, q)
  <2>1. \A k \in 1 .. Len(q) : (Len(t) + 1) + k - 1 = Len(t) + k
    BY <1>1
  <2>2. QED
    BY <1>1, <2>1 DEF Part
<1>3. ASSUME NEW i, NEW p, Part(t, i, p), Len(p) \in Nat
      PROVE  Part(u, i, p)
  <2>1. i \in Nat \ {0} /\ i - 1 + Len(p) <= Len(t)
    BY <1>3 DEF Part
  <2>2. ASSUME NEW k \in 1 .. Len(p)
        PROVE  u[i + k - 1] = p[k]
    <3>1. i + k - 1 \in 1 .. Len(t)
      BY <1>1, <1>3, <2>1
    <3>2. t[i + k - 1] = p[k]
      BY <1>3 DEF Part
    <3>3. QED
      BY <1>1, <3>1, <3>2
  <2>3. QED
    BY <1>1, <1>3, <2>1, <2>2 DEF Part
<1>4. Grows(t, q, u)
  BY <1>1, <1>2, <1>3 DEF Grows
<1>5. QED
  BY <1>4 DEF u

(* What the character at the start of a part is.                           *)
LEMMA PartStarts ==
  ASSUME NEW t \in Seq(Characters), NEW i, NEW p, Part(t, i, p), Len(p) \in Nat
  PROVE  Len(p) > 0 => At(t, i) = p[1]
<1>1. SUFFICES ASSUME Len(p) > 0
               PROVE  At(t, i) = p[1]
  OBVIOUS
<1>2. i \in Nat /\ i <= Len(t) /\ 1 \in 1 .. Len(p) /\ i + 1 - 1 = i
  BY <1>1 DEF Part
<1>3. t[i + 1 - 1] = p[1]
  BY <1>2 DEF Part
<1>4. QED
  BY <1>2, <1>3 DEF At

(* A loop over some characters ends behind a part that consists of them.   *)
LEMMA SkipsPart ==
  ASSUME NEW t \in Seq(Characters), NEW i, NEW chars, NEW p \in Seq(chars), Part(t, i, p),
         NEW j, j = i + Len(p), At(t, j) \notin chars
  PROVE  Skip(t, i, chars) = j
<1> DEFINE S == {k \in i .. Len(t) + 1 : At(t, k) \notin chars}
<1>1. /\ i \in Nat \ {0} /\ Len(p) \in Nat /\ Len(t) \in Nat /\ j \in Nat /\ i <= j
      /\ j <= Len(t) + 1
  BY DEF Part
<1>2. ASSUME NEW k \in i .. j - 1
      PROVE  At(t, k) \in chars
  <2>1. k - i + 1 \in 1 .. Len(p) /\ i + (k - i + 1) - 1 = k /\ k <= Len(t)
    BY <1>1
  <2>2. t[i + (k - i + 1) - 1] = p[k - i + 1]
    BY <2>1 DEF Part
  <2>3. p[k - i + 1] \in chars
    BY <2>1
  <2>4. QED
    BY <2>1, <2>2, <2>3 DEF At
<1>3. j \in S
  BY <1>1
<1>4. \A k \in S : j <= k
  <2> SUFFICES ASSUME NEW k \in S, k < j
               PROVE  FALSE
    BY <1>1
  <2>1. k \in i .. j - 1
    BY <1>1
  <2>2. QED
    BY <1>2, <2>1
<1>5. S \subseteq Nat
  BY <1>1
<1>6. Skip(t, i, chars) = Min(S)
  BY DEF Skip
<1>7. Min(S) = j
  <2> HIDE DEF S
  <2>1. \A x \in S : (\A y \in S : x <= y) => x = j
    BY <1>1, <1>3, <1>4, <1>5
  <2>2. QED
    BY <1>3, <1>4, <2>1 DEF Min
<1>8. QED
  BY <1>6, <1>7

(* The parts of the number n are in t one behind the other, then the rest. *)
Laid(t, n, rest, at) ==
  /\ t \in Seq(Characters)
  /\ at.to_sign = 1 + Len(n.spaces)      /\ Part(t, 1, n.spaces)
  /\ at.to_whole = at.to_sign + Len(n.sign) /\ Part(t, at.to_sign, n.sign)
  /\ at.to_point = at.to_whole + Len(n.whole)   /\ Part(t, at.to_whole, n.whole)
  /\ at.to_places = at.to_point + Len(n.point)  /\ Part(t, at.to_point, n.point)
  /\ at.to_e = at.to_places + Len(n.places)     /\ Part(t, at.to_places, n.places)
  /\ at.to_power_sign = at.to_e + Len(n.e)      /\ Part(t, at.to_e, n.e)
  /\ at.to_power = at.to_power_sign + Len(n.power_sign) /\ Part(t, at.to_power_sign, n.power_sign)
  /\ at.to_end = at.to_power + Len(n.power)     /\ Part(t, at.to_power, n.power)
  /\ Len(t) + 1 = at.to_end + Len(rest)      /\ Part(t, at.to_end, rest)

LEMMA LargerAlphabet ==
  ASSUME NEW A, NEW B, A \subseteq B, NEW s \in Seq(A)
  PROVE  s \in Seq(B)
<1>1. Len(s) \in Nat /\ s = [k \in 1 .. Len(s) |-> s[k]] /\ \A k \in 1 .. Len(s) : s[k] \in A
  OBVIOUS
<1>2. \A k \in 1 .. Len(s) : s[k] \in B
  BY <1>1
<1>3. s \in [1 .. Len(s) -> B]
  BY <1>1, <1>2
<1>4. QED
  BY <1>1, <1>3

LEMMA PartsOfNumbers ==
  ASSUME NEW n \in Numbers
  PROVE  /\ n.spaces \in Seq(Characters) /\ n.sign \in Seq(Characters) /\ n.whole \in Seq(Characters)
         /\ n.point \in Seq(Characters) /\ n.places \in Seq(Characters) /\ n.e \in Seq(Characters)
         /\ n.power_sign \in Seq(Characters) /\ n.power \in Seq(Characters)
<1>1. /\ Digits \subseteq Characters /\ Blanks \subseteq Characters /\ "+" \in Characters
      /\ "-" \in Characters /\ "." \in Characters /\ "e" \in Characters /\ "E" \in Characters
  BY Zenon DEF Characters, Exponent, Blanks
<1> HIDE DEF Characters
<1>2. \A s \in Seq(Digits) : s \in Seq(Characters)
  BY <1>1, LargerAlphabet
<1>3. \A s \in Seq(Blanks) : s \in Seq(Characters)
  BY <1>1, LargerAlphabet
<1>4. ASSUME NEW c \in Characters
      PROVE  <<c>> \in Seq(Characters)
  OBVIOUS
<1>5. <<>> \in Seq(Characters)
  OBVIOUS
<1>6. \A s \in Signs : s \in Seq(Characters)
  BY <1>1, <1>4, <1>5, Zenon DEF Signs
<1>7. /\ n.spaces \in Seq(Blanks) /\ n.sign \in Signs /\ n.whole \in Seq(Digits)
      /\ n.point \in {<<>>, <<".">>} /\ n.places \in Seq(Digits)
      /\ n.e \in {<<>>, <<"e">>, <<"E">>}
      /\ n.power_sign \in Signs /\ n.power \in Seq(Digits)
  BY NumbersAssumption
<1>8. n.point \in Seq(Characters) /\ n.e \in Seq(Characters)
  BY <1>1, <1>4, <1>5, <1>7, Zenon
<1>9. QED
  BY <1>2, <1>3, <1>6, <1>7, <1>8

LEMMA RestsAreTexts ==
  ASSUME NEW rest \in Rests
  PROVE  rest \in Seq(Characters)
<1>1. rest \in Seq(STRING)
  BY RestsAssumption
<1>2. Len(rest) \in Nat /\ rest = [k \in 1 .. Len(rest) |-> rest[k]]
  BY <1>1
<1>3. Range(rest) \subseteq Characters
  BY DEF Characters
<1>4. \A k \in 1 .. Len(rest) : rest[k] \in Characters
  BY <1>1, <1>3 DEF Range
<1>5. rest \in [1 .. Len(rest) -> Characters]
  BY <1>2, <1>4
<1>6. QED
  BY <1>2, <1>5

LEMMA WrittenIsLaid ==
  ASSUME NEW n \in Numbers, NEW rest \in Rests
  PROVE  /\ Written(n) \in Seq(Characters)
         /\ \E at : Laid(Written(n) \o rest, n, rest, at) /\ at.to_end = Len(Written(n)) + 1
<1> DEFINE t1 == n.spaces
           t2 == t1 \o n.sign
           t3 == t2 \o n.whole
           t4 == t3 \o n.point
           t5 == t4 \o n.places
           t6 == t5 \o n.e
           t7 == t6 \o n.power_sign
           t8 == t7 \o n.power
           t9 == t8 \o rest
           at == [to_sign |-> Len(t1) + 1, to_whole |-> Len(t2) + 1, to_point |-> Len(t3) + 1,
                  to_places |-> Len(t4) + 1, to_e |-> Len(t5) + 1, to_power_sign |-> Len(t6) + 1,
                  to_power |-> Len(t7) + 1, to_end |-> Len(t8) + 1]
<1>1. /\ n.spaces \in Seq(Characters) /\ n.sign \in Seq(Characters) /\ n.whole \in Seq(Characters)
      /\ n.point \in Seq(Characters) /\ n.places \in Seq(Characters) /\ n.e \in Seq(Characters)
      /\ n.power_sign \in Seq(Characters) /\ n.power \in Seq(Characters) /\ rest \in Seq(Characters)
  BY PartsOfNumbers, RestsAreTexts
<1>2. Written(n) = t8 /\ Written(n) \o rest = t9
  BY Zenon DEF Written
<1>3. /\ at.to_sign = Len(t1) + 1 /\ at.to_whole = Len(t2) + 1 /\ at.to_point = Len(t3) + 1
      /\ at.to_places = Len(t4) + 1 /\ at.to_e = Len(t5) + 1 /\ at.to_power_sign = Len(t6) + 1
      /\ at.to_power = Len(t7) + 1 /\ at.to_end = Len(t8) + 1
  OBVIOUS
<1>4. ASSUME NEW t \in Seq(Characters), NEW q \in Seq(Characters)
      PROVE  Grows(t, q, t \o q)
  BY PartsAppended
<1>5. t1 \in Seq(Characters) /\ Len(t1) \in Nat /\ Part(t1, 1, n.spaces)
  BY <1>1 DEF Part
<1>6. ASSUME NEW t \in Seq(Characters), NEW q \in Seq(Characters)
      PROVE  t \o q \in Seq(Characters)
  OBVIOUS
<1>7. Grows(t1, n.sign, t2) /\ t2 \in Seq(Characters)
  BY <1>1, <1>4, <1>5, <1>6
<1> HIDE DEF t1, t2, t3, t4, t5, t6, t7, t8, t9, at
<1>8. Grows(t2, n.whole, t3) /\ t3 \in Seq(Characters)
  BY <1>1, <1>4, <1>6, <1>7 DEF t3
<1>9. Grows(t3, n.point, t4) /\ t4 \in Seq(Characters)
  BY <1>1, <1>4, <1>6, <1>8 DEF t4
<1>10. Grows(t4, n.places, t5) /\ t5 \in Seq(Characters)
  BY <1>1, <1>4, <1>6, <1>9 DEF t5
<1>11. Grows(t5, n.e, t6) /\ t6 \in Seq(Characters)
  BY <1>1, <1>4, <1>6, <1>10 DEF t6
<1>12. Grows(t6, n.power_sign, t7) /\ t7 \in Seq(Characters)
  BY <1>1, <1>4, <1>6, <1>11 DEF t7
<1>13. Grows(t7, n.power, t8) /\ t8 \in Seq(Characters)
  BY <1>1, <1>4, <1>6, <1>12 DEF t8
<1>14. Grows(t8, rest, t9) /\ t9 \in Seq(Characters)
  BY <1>1, <1>4, <1>6, <1>13 DEF t9
<1>15. /\ Len(n.spaces) \in Nat /\ Len(n.sign) \in Nat /\ Len(n.whole) \in Nat
       /\ Len(n.point) \in Nat /\ Len(n.places) \in Nat /\ Len(n.e) \in Nat
       /\ Len(n.power_sign) \in Nat /\ Len(n.power) \in Nat /\ Len(rest) \in Nat
  BY <1>1
<1>16. /\ at.to_sign = 1 + Len(n.spaces) /\ at.to_whole = at.to_sign + Len(n.sign)
       /\ at.to_point = at.to_whole + Len(n.whole) /\ at.to_places = at.to_point + Len(n.point)
       /\ at.to_e = at.to_places + Len(n.places) /\ at.to_power_sign = at.to_e + Len(n.e)
       /\ at.to_power = at.to_power_sign + Len(n.power_sign) /\ at.to_end = at.to_power + Len(n.power)
       /\ Len(t9) + 1 = at.to_end + Len(rest)
  <2>1. Len(t1) = Len(n.spaces)
    BY DEF t1
  <2>2. /\ Len(t2) = Len(t1) + Len(n.sign) /\ Len(t3) = Len(t2) + Len(n.whole)
        /\ Len(t4) = Len(t3) + Len(n.point) /\ Len(t5) = Len(t4) + Len(n.places)
        /\ Len(t6) = Len(t5) + Len(n.e) /\ Len(t7) = Len(t6) + Len(n.power_sign)
        /\ Len(t8) = Len(t7) + Len(n.power) /\ Len(t9) = Len(t8) + Len(rest)
    BY <1>7, <1>8, <1>9, <1>10, <1>11, <1>12, <1>13, <1>14 DEF Grows
  <2>3. /\ Len(t1) \in Nat /\ Len(t2) \in Nat /\ Len(t3) \in Nat /\ Len(t4) \in Nat
        /\ Len(t5) \in Nat /\ Len(t6) \in Nat /\ Len(t7) \in Nat /\ Len(t8) \in Nat
    BY <1>5, <1>7, <1>8, <1>9, <1>10, <1>11, <1>12, <1>13, <1>14 DEF Grows
  <2>4. at.to_sign = 1 + Len(n.spaces)
    BY <1>3, <2>1, <2>3
  <2>5. \A a, c \in Nat : (a + c) + 1 = (a + 1) + c
    OBVIOUS
  <2>6. at.to_whole = at.to_sign + Len(n.sign)
    <3>1. at.to_whole = Len(t2) + 1 /\ at.to_sign = Len(t1) + 1
      BY <1>3
    <3>2. Len(t2) = Len(t1) + Len(n.sign) /\ Len(t1) \in Nat /\ Len(n.sign) \in Nat
      BY <1>15, <2>2, <2>3
    <3>3. QED
      BY <2>5, <3>1, <3>2
  <2>7. at.to_point = at.to_whole + Len(n.whole)
    <3>1. at.to_point = Len(t3) + 1 /\ at.to_whole = Len(t2) + 1
      BY <1>3
    <3>2. Len(t3) = Len(t2) + Len(n.whole) /\ Len(t2) \in Nat /\ Len(n.whole) \in Nat
      BY <1>15, <2>2, <2>3
    <3>3. QED
      BY <2>5, <3>1, <3>2
  <2>8. at.to_places = at.to_point + Len(n.point)
    <3>1. at.to_places = Len(t4) + 1 /\ at.to_point = Len(t3) + 1
      BY <1>3
    <3>2. Len(t4) = Len(t3) + Len(n.point) /\ Len(t3) \in Nat /\ Len(n.point) \in Nat
      BY <1>15, <2>2, <2>3
    <3>3. QED
      BY <2>5, <3>1, <3>2
  <2>9. at.to_e = at.to_places + Len(n.places)
    <3>1. at.to_e = Len(t5) + 1 /\ at.to_places = Len(t4) + 1
      BY <1>3
    <3>2. Len(t5) = Len(t4) + Len(n.places) /\ Len(t4) \in Nat /\ Len(n.places) \in Nat
      BY <1>15, <2>2, <2>3
    <3>3. QED
      BY <2>5, <3>1, <3>2
  <2>10. at.to_power_sign = at.to_e + Len(n.e)
    <3>1. at.to_power_sign = Len(t6) + 1 /\ at.to_e = Len(t5) + 1
      BY <1>3
    <3>2. Len(t6) = Len(t5) + Len(n.e) /\ Len(t5) \in Nat /\ Len(n.e) \in Nat
      BY <1>15, <2>2, <2>3
    <3>3. QED
      BY <2>5, <3>1, <3>2
  <2>11. at.to_power = at.to_power_sign + Len(n.power_sign)
    <3>1. at.to_power = Len(t7) + 1 /\ at.to_power_sign = Len(t6) + 1
      BY <1>3
    <3>2. Len(t7) = Len(t6) + Len(n.power_sign) /\ Len(t6) \in Nat /\ Len(n.power_sign) \in Nat
      BY <1>15, <2>2, <2>3
    <3>3. QED
      BY <2>5, <3>1, <3>2
  <2>12. at.to_end = at.to_power + Len(n.power)
    <3>1. at.to_end = Len(t8) + 1 /\ at.to_power = Len(t7) + 1
      BY <1>3
    <3>2. Len(t8) = Len(t7) + Len(n.power) /\ Len(t7) \in Nat /\ Len(n.power) \in Nat
      BY <1>15, <2>2, <2>3
    <3>3. QED
      BY <2>5, <3>1, <3>2
  <2>13. Len(t9) + 1 = at.to_end + Len(rest)
    <3>1. Len(t9) = Len(t8) + Len(rest) /\ at.to_end = Len(t8) + 1
      BY <1>3, <2>2
    <3>2. QED
      BY <1>15, <2>3, <3>1
  <2>14. QED
    BY <2>4, <2>6, <2>7, <2>8, <2>9, <2>10, <2>11, <2>12, <2>13
<1>17. Part(t9, at.to_end, rest)
  BY <1>3, <1>14 DEF Grows
<1>18. Part(t9, at.to_power, n.power)
  BY <1>3, <1>13, <1>14, <1>15 DEF Grows
<1>19. Part(t9, at.to_power_sign, n.power_sign)
  BY <1>3, <1>12, <1>13, <1>14, <1>15 DEF Grows
<1>20. Part(t9, at.to_e, n.e)
  BY <1>3, <1>11, <1>12, <1>13, <1>14, <1>15 DEF Grows
<1>21. Part(t9, at.to_places, n.places)
  BY <1>3, <1>10, <1>11, <1>12, <1>13, <1>14, <1>15 DEF Grows
<1>22. Part(t9, at.to_point, n.point)
  BY <1>3, <1>9, <1>10, <1>11, <1>12, <1>13, <1>14, <1>15 DEF Grows
<1>23. Part(t9, at.to_whole, n.whole)
  BY <1>3, <1>8, <1>9, <1>10, <1>11, <1>12, <1>13, <1>14, <1>15 DEF Grows
<1>24. Part(t9, at.to_sign, n.sign)
  BY <1>3, <1>7, <1>8, <1>9, <1>10, <1>11, <1>12, <1>13, <1>14, <1>15 DEF Grows
<1>25. Part(t9, 1, n.spaces)
  BY <1>5, <1>7, <1>8, <1>9, <1>10, <1>11, <1>12, <1>13, <1>14, <1>15 DEF Grows
<1>26. Laid(t9, n, rest, at)
  BY <1>14, <1>16, <1>17, <1>18, <1>19, <1>20, <1>21, <1>22, <1>23, <1>24, <1>25 DEF Laid
<1>27. QED
  BY <1>2, <1>3, <1>13, <1>26

Marks == Digits \cup Exponent \cup Blanks \cup {"+", "-", "."}

(* A text ends for the parser at its first NUL.                            *)
Closed(rest) == rest = <<>> \/ rest[1] = "NUL"

(* Where a part is empty the next one starts, otherwise its first          *)
(* character is seen.                                                      *)
LEMMA StartsOrEmpty ==
  ASSUME NEW t \in Seq(Characters), NEW i, NEW p, Part(t, i, p), Len(p) \in Nat,
         NEW j, j = i + Len(p)
  PROVE  \/ Len(p) = 0 /\ j = i
         \/ Len(p) > 0 /\ At(t, i) = p[1]
<1>1. i \in Nat
  BY DEF Part
<1>2. Len(p) = 0 => j = i
  BY <1>1
<1>3. Len(p) > 0 => At(t, i) = p[1]
  BY PartStarts
<1>4. QED
  BY <1>2, <1>3

LEMMA FirstOf ==
  ASSUME NEW A, NEW s \in Seq(A)
  PROVE  /\ Len(s) \in Nat /\ (s # <<>> <=> Len(s) > 0)
         /\ Len(s) > 0 => s[1] \in A
<1>1. Len(s) \in Nat /\ s = [k \in 1 .. Len(s) |-> s[k]] /\ \A k \in 1 .. Len(s) : s[k] \in A
  OBVIOUS
<1>2. Len(s) = 0 => s = <<>>
  BY <1>1
<1>3. s = <<>> => Len(s) = 0
  OBVIOUS
<1>4. QED
  BY <1>1, <1>2, <1>3

(* The characters that the parser sees where a part starts.                *)
Seen(t, n, rest, at) ==
  /\ At(t, at.to_end) \notin Marks /\ (At(t, at.to_end) = "NUL" <=> Closed(rest))
  /\ At(t, at.to_power) \in Digits \/ At(t, at.to_power) \notin Marks
  /\ n.power_sign = <<>> => At(t, at.to_power_sign) \notin {"+", "-"}
  /\ At(t, at.to_e) \in Exponent <=> n.e # <<>>
  /\ At(t, at.to_e) \in Exponent \/ At(t, at.to_e) \notin Marks
  /\ At(t, at.to_point) = "." <=> n.point # <<>>
  /\ At(t, at.to_point) \notin Digits \cup Blanks \cup {"+", "-"}
  /\ At(t, at.to_whole) \notin Blanks \cup {"+", "-"}
  /\ At(t, at.to_sign) \notin Blanks
  /\ n.sign = <<>> => At(t, at.to_sign) \notin {"+", "-"}
  /\ n.e = <<>> => at.to_e = at.to_end
  /\ n.point = <<>> => at.to_e = at.to_point

LEMMA SeenOfLaid ==
  ASSUME NEW n \in Numbers, NEW rest \in Rests, NEW t, NEW at, Laid(t, n, rest, at)
  PROVE  Seen(t, n, rest, at)
<1>1. t \in Seq(Characters)
  BY DEF Laid
<1>2. /\ n.spaces \in Seq(Blanks) /\ n.sign \in Signs /\ n.whole \in Seq(Digits)
      /\ n.point \in {<<>>, <<".">>} /\ n.places \in Seq(Digits)
      /\ n.point = <<>> => n.places = <<>>
      /\ n.e \in {<<>>, <<"e">>, <<"E">>}
      /\ n.power_sign \in Signs /\ n.power \in Seq(Digits)
      /\ n.e = <<>> => n.power_sign = <<>> /\ n.power = <<>>
  BY NumbersAssumption
<1>3. /\ rest \in Seq(STRING)
      /\ rest # <<>> => rest[1] \notin Digits \cup Exponent \cup Blanks \cup {"+", "-", "."}
  BY RestsAssumption
<1>4. "NUL" \notin Marks
  BY DEF Marks, Digits, Exponent, Blanks
<1>5. /\ "+" \notin Digits /\ "-" \notin Digits /\ "." \notin Digits
      /\ "+" \notin Exponent /\ "-" \notin Exponent /\ "." \notin Exponent
      /\ "+" \notin Blanks /\ "-" \notin Blanks /\ "." \notin Blanks
      /\ Digits \cap Exponent = {} /\ Digits \cap Blanks = {} /\ Exponent \cap Blanks = {}
  BY DEF Digits, Exponent, Blanks
<1>6. At(t, at.to_end) \notin Marks /\ (At(t, at.to_end) = "NUL" <=> Closed(rest))
  <2>1. Part(t, at.to_end, rest) /\ Len(t) + 1 = at.to_end + Len(rest) /\ Len(rest) \in Nat
    <3>1. Part(t, at.to_end, rest) /\ Len(t) + 1 = at.to_end + Len(rest)
      BY Zenon DEF Laid
    <3>2. QED
      BY <1>3, <3>1, FirstOf
  <2>2. CASE rest = <<>>
    <3>1. Len(rest) = 0
      BY <2>2
    <3>2. at.to_end \in Nat /\ Len(t) \in Nat
      BY <1>1, <2>1 DEF Part
    <3>3. ~(at.to_end <= Len(t))
      BY <2>1, <3>1, <3>2
    <3>4. At(t, at.to_end) = "NUL"
      BY <3>3 DEF At
    <3>5. QED
      BY <1>4, <2>2, <3>4 DEF Closed
  <2>3. CASE rest # <<>>
    <3>1. Len(rest) > 0
      BY <1>3, <2>3, FirstOf
    <3>2. At(t, at.to_end) = rest[1]
      BY <1>1, <2>1, <3>1, PartStarts
    <3>3. QED
      BY <1>3, <2>3, <3>2, Zenon DEF Marks, Closed
  <2>4. QED
    BY <2>2, <2>3
<1>7. At(t, at.to_power) \in Digits \/ At(t, at.to_power) \notin Marks
  <2>1. Part(t, at.to_power, n.power) /\ at.to_end = at.to_power + Len(n.power)
    BY DEF Laid
  <2>2. Len(n.power) \in Nat /\ (Len(n.power) > 0 => n.power[1] \in Digits)
    BY <1>2, FirstOf
  <2>3. QED
    BY <1>1, <1>6, <2>1, <2>2, StartsOrEmpty
<1>8. n.power_sign = <<>> => at.to_power = at.to_power_sign
  <2>1. Part(t, at.to_power_sign, n.power_sign) /\ at.to_power = at.to_power_sign + Len(n.power_sign)
    BY DEF Laid
  <2>2. n.power_sign = <<>> => Len(n.power_sign) = 0
    OBVIOUS
  <2>3. QED
    BY <2>1, <2>2 DEF Part
<1>9. n.power_sign = <<>> => At(t, at.to_power_sign) \notin {"+", "-"}
  BY <1>5, <1>7, <1>8 DEF Marks
<1>10. n.e = <<>> => at.to_e = at.to_end
  <2>1. SUFFICES ASSUME n.e = <<>>
                 PROVE  at.to_e = at.to_end
    OBVIOUS
  <2>2. /\ Part(t, at.to_e, n.e) /\ at.to_power_sign = at.to_e + Len(n.e)
        /\ at.to_power = at.to_power_sign + Len(n.power_sign)
        /\ Part(t, at.to_power, n.power) /\ at.to_end = at.to_power + Len(n.power)
    BY DEF Laid
  <2>3. n.power_sign = <<>> /\ Len(n.e) = 0 /\ n.power = <<>> /\ Len(n.power) = 0
    BY <1>2, <2>1
  <2>4. at.to_power_sign = at.to_e /\ at.to_end = at.to_power
    BY <2>2, <2>3 DEF Part
  <2>5. QED
    BY <1>8, <2>3, <2>4
<1>11. /\ At(t, at.to_e) \in Exponent <=> n.e # <<>>
       /\ At(t, at.to_e) \in Exponent \/ At(t, at.to_e) \notin Marks
  <2>1. CASE n.e = <<>>
    BY <1>6, <1>10, <2>1 DEF Marks
  <2>2. CASE n.e # <<>>
    <3>1. Part(t, at.to_e, n.e)
      BY DEF Laid
    <3>2. n.e = <<"e">> \/ n.e = <<"E">>
      BY <1>2, <2>2
    <3>3. Len(n.e) = 1 /\ n.e[1] \in Exponent
      BY <3>2 DEF Exponent
    <3>4. At(t, at.to_e) = n.e[1]
      BY <1>1, <3>1, <3>3, PartStarts
    <3>5. QED
      BY <2>2, <3>3, <3>4
  <2>3. QED
    BY <2>1, <2>2
<1>12. n.point = <<>> => at.to_e = at.to_point
  <2>1. SUFFICES ASSUME n.point = <<>>
                 PROVE  at.to_e = at.to_point
    OBVIOUS
  <2>2. /\ Part(t, at.to_point, n.point) /\ at.to_places = at.to_point + Len(n.point)
        /\ Part(t, at.to_places, n.places) /\ at.to_e = at.to_places + Len(n.places)
    BY DEF Laid
  <2>3. Len(n.point) = 0 /\ n.places = <<>> /\ Len(n.places) = 0
    BY <1>2, <2>1
  <2>4. at.to_places = at.to_point /\ at.to_e = at.to_places
    BY <2>2, <2>3 DEF Part
  <2>5. QED
    BY <2>4
<1>13. /\ At(t, at.to_point) = "." <=> n.point # <<>>
       /\ At(t, at.to_point) \notin Digits \cup Blanks \cup {"+", "-"}
  <2>1. CASE n.point = <<>>
    BY <1>5, <1>11, <1>12, <2>1 DEF Marks
  <2>2. CASE n.point # <<>>
    <3>1. Part(t, at.to_point, n.point)
      BY DEF Laid
    <3>2. n.point = <<".">>
      BY <1>2, <2>2
    <3>3. Len(n.point) = 1 /\ n.point[1] = "."
      BY <3>2
    <3>4. At(t, at.to_point) = n.point[1]
      BY <1>1, <3>1, <3>3, PartStarts
    <3>5. QED
      BY <1>5, <2>2, <3>3, <3>4
  <2>3. QED
    BY <2>1, <2>2
<1>14. At(t, at.to_whole) \notin Blanks \cup {"+", "-"}
  <2>1. Part(t, at.to_whole, n.whole) /\ at.to_point = at.to_whole + Len(n.whole)
    BY DEF Laid
  <2>2. Len(n.whole) \in Nat /\ (Len(n.whole) > 0 => n.whole[1] \in Digits)
    BY <1>2, FirstOf
  <2>3. QED
    <3>1. \/ at.to_point = at.to_whole
          \/ At(t, at.to_whole) = n.whole[1] /\ n.whole[1] \in Digits
      BY <1>1, <2>1, <2>2, StartsOrEmpty
    <3>2. QED
      BY <1>5, <1>13, <3>1
<1>15. n.sign = <<>> => at.to_whole = at.to_sign
  <2>1. Part(t, at.to_sign, n.sign) /\ at.to_whole = at.to_sign + Len(n.sign)
    BY DEF Laid
  <2>2. n.sign = <<>> => Len(n.sign) = 0
    OBVIOUS
  <2>3. QED
    BY <2>1, <2>2 DEF Part
<1>16. At(t, at.to_sign) \notin Blanks /\ (n.sign = <<>> => At(t, at.to_sign) \notin {"+", "-"})
  <2>1. CASE n.sign = <<>>
    <3>1. at.to_whole = at.to_sign
      BY <1>15, <2>1
    <3>2. At(t, at.to_whole) \notin Blanks /\ At(t, at.to_whole) \notin {"+", "-"}
      BY <1>14
    <3>3. QED
      BY <3>1, <3>2
  <2>2. CASE n.sign # <<>>
    <3>1. Part(t, at.to_sign, n.sign)
      BY DEF Laid
    <3>2. n.sign = <<"-">> \/ n.sign = <<"+">>
      BY <1>2, <2>2 DEF Signs
    <3>3. Len(n.sign) = 1 /\ n.sign[1] \in {"+", "-"}
      BY <3>2
    <3>4. At(t, at.to_sign) = n.sign[1]
      BY <1>1, <3>1, <3>3, PartStarts
    <3>5. QED
      BY <1>5, <2>2, <3>3, <3>4
  <2>3. QED
    BY <2>1, <2>2
<1>17. QED
  BY <1>6, <1>7, <1>9, <1>10, <1>11, <1>12, <1>13, <1>14, <1>16 DEF Seen

(* What the functions of a sign read of this sign at i.                    *)
SignRead(t, i, sign, j) ==
  /\ AfterSign(t, i) = j
  /\ parse_sign(t, i) = IF Negative(sign) THEN -1 ELSE 1
  /\ Negative(sign) => FirstDigit(t, i) = i /\ At(t, i) = "-"
  /\ ~Negative(sign) => FirstDigit(t, i) = j

LEMMA SignIs ==
  ASSUME NEW t \in Seq(Characters), NEW i, NEW sign \in Signs, Part(t, i, sign),
         NEW j, j = i + Len(sign), sign = <<>> => At(t, i) \notin {"+", "-"}
  PROVE  SignRead(t, i, sign, j)
<1> USE DEF SignRead
<1>1. i \in Nat
  BY DEF Part
<1>2. CASE sign = <<>>
  <2>1. j = i /\ ~Negative(sign)
    <3>1. Len(sign) = 0 /\ sign # <<"-">>
      BY <1>2
    <3>2. QED
      BY <1>1, <3>1 DEF Negative
  <2>2. QED
    BY <1>2, <2>1 DEF AfterSign, parse_sign, FirstDigit
<1>3. CASE sign = <<"-">>
  <2>1. Len(sign) = 1 /\ sign[1] = "-" /\ Negative(sign)
    BY <1>3 DEF Negative
  <2>2. At(t, i) = "-" /\ j = i + 1
    BY <2>1, PartStarts
  <2>3. QED
    BY <2>1, <2>2 DEF AfterSign, parse_sign, FirstDigit
<1>4. CASE sign = <<"+">>
  <2>1. Len(sign) = 1 /\ sign[1] = "+" /\ ~Negative(sign)
    BY <1>4 DEF Negative
  <2>2. At(t, i) = "+" /\ j = i + 1
    BY <2>1, PartStarts
  <2>3. QED
    BY <2>1, <2>2 DEF AfterSign, parse_sign, FirstDigit
<1>5. QED
  BY <1>2, <1>3, <1>4 DEF Signs

(* Where the parser's loops end and what its tests see.                    *)
Parsed(t, n, at) ==
  /\ Skip(t, 1, Blanks) = at.to_sign
  /\ AfterSign(t, at.to_sign) = at.to_whole
  /\ parse_sign(t, at.to_sign) = IF Negative(n.sign) THEN -1 ELSE 1
  /\ Negative(n.sign) => /\ FirstDigit(t, at.to_sign) = at.to_sign
                         /\ Skip(t, at.to_sign, Digits) = at.to_sign
  /\ ~Negative(n.sign) => FirstDigit(t, at.to_sign) = at.to_whole
  /\ Skip(t, at.to_whole, Digits) = at.to_point
  /\ n.point # <<>> => /\ at.to_places = at.to_point + 1
                       /\ Skip(t, at.to_places, Digits) = at.to_e
  /\ n.e # <<>> => /\ at.to_power_sign = at.to_e + 1
                   /\ AfterSign(t, at.to_power_sign) = at.to_power
                   /\ parse_sign(t, at.to_power_sign) = IF Negative(n.power_sign) THEN -1 ELSE 1
                   /\ Skip(t, at.to_power, Digits) = at.to_end

LEMMA ParsedOfLaid ==
  ASSUME NEW n \in Numbers, NEW rest \in Rests, NEW t, NEW at, Laid(t, n, rest, at)
  PROVE  Parsed(t, n, at)
<1>1. t \in Seq(Characters)
  BY DEF Laid
<1>2. /\ n.spaces \in Seq(Blanks) /\ n.sign \in Signs /\ n.whole \in Seq(Digits)
      /\ n.point \in {<<>>, <<".">>} /\ n.places \in Seq(Digits)
      /\ n.e \in {<<>>, <<"e">>, <<"E">>}
      /\ n.power_sign \in Signs /\ n.power \in Seq(Digits)
  BY NumbersAssumption
<1>3. Seen(t, n, rest, at)
  BY SeenOfLaid
<1>4. Digits \cap Exponent = {} /\ "-" \notin Digits
  BY DEF Digits, Exponent
<1>5. Skip(t, 1, Blanks) = at.to_sign
  <2>1. Part(t, 1, n.spaces) /\ at.to_sign = 1 + Len(n.spaces)
    BY DEF Laid
  <2>2. At(t, at.to_sign) \notin Blanks
    BY <1>3 DEF Seen
  <2>3. QED
    BY <1>1, <1>2, <2>1, <2>2, SkipsPart
<1>6. /\ AfterSign(t, at.to_sign) = at.to_whole
      /\ parse_sign(t, at.to_sign) = IF Negative(n.sign) THEN -1 ELSE 1
      /\ Negative(n.sign) => FirstDigit(t, at.to_sign) = at.to_sign /\ At(t, at.to_sign) = "-"
      /\ ~Negative(n.sign) => FirstDigit(t, at.to_sign) = at.to_whole
  <2>1. Part(t, at.to_sign, n.sign) /\ at.to_whole = at.to_sign + Len(n.sign)
    BY DEF Laid
  <2>2. n.sign = <<>> => At(t, at.to_sign) \notin {"+", "-"}
    BY <1>3 DEF Seen
  <2>3. SignRead(t, at.to_sign, n.sign, at.to_whole)
    BY <1>1, <1>2, <2>1, <2>2, SignIs
  <2>4. QED
    BY <2>3 DEF SignRead
<1>7. Negative(n.sign) => Skip(t, at.to_sign, Digits) = at.to_sign
  <2>1. SUFFICES ASSUME Negative(n.sign)
                 PROVE  Skip(t, at.to_sign, Digits) = at.to_sign
    OBVIOUS
  <2>2. Part(t, at.to_sign, n.sign) /\ Len(n.sign) = 1
    <3>1. Len(<<"-">>) = 1
      OBVIOUS
    <3>2. QED
      BY <2>1, <3>1 DEF Laid, Negative
  <2>3. PICK none : none = <<>>
    OBVIOUS
  <2>4. none \in Seq(Digits) /\ Len(none) = 0
    BY <2>3
  <2>5. Part(t, at.to_sign, none) /\ at.to_sign = at.to_sign + Len(none)
    BY <1>1, <2>2, <2>4 DEF Part
  <2>6. At(t, at.to_sign) \notin Digits
    BY <1>4, <1>6, <2>1
  <2>7. QED
    BY <1>1, <2>4, <2>5, <2>6, SkipsPart
<1>8. Skip(t, at.to_whole, Digits) = at.to_point
  <2>1. Part(t, at.to_whole, n.whole) /\ at.to_point = at.to_whole + Len(n.whole)
    BY DEF Laid
  <2>2. At(t, at.to_point) \notin Digits
    BY <1>3 DEF Seen
  <2>3. QED
    BY <1>1, <1>2, <2>1, <2>2, SkipsPart
<1>9. ASSUME n.point # <<>>
      PROVE  at.to_places = at.to_point + 1 /\ Skip(t, at.to_places, Digits) = at.to_e
  <2>1. /\ at.to_places = at.to_point + Len(n.point)
        /\ Part(t, at.to_places, n.places) /\ at.to_e = at.to_places + Len(n.places)
    BY DEF Laid
  <2>2. At(t, at.to_e) \notin Digits
    BY <1>3, <1>4 DEF Seen, Marks
  <2>3. n.point = <<".">>
    BY <1>2, <1>9
  <2>4. Len(n.point) = 1
    BY <2>3
  <2>5. QED
    BY <1>1, <1>2, <2>1, <2>2, <2>4, SkipsPart
<1>10. ASSUME n.e # <<>>
       PROVE  /\ at.to_power_sign = at.to_e + 1
              /\ AfterSign(t, at.to_power_sign) = at.to_power
              /\ parse_sign(t, at.to_power_sign) = IF Negative(n.power_sign) THEN -1 ELSE 1
              /\ Skip(t, at.to_power, Digits) = at.to_end
  <2>1. /\ at.to_power_sign = at.to_e + Len(n.e)
        /\ Part(t, at.to_power_sign, n.power_sign)
        /\ at.to_power = at.to_power_sign + Len(n.power_sign)
        /\ Part(t, at.to_power, n.power) /\ at.to_end = at.to_power + Len(n.power)
    BY DEF Laid
  <2>2. /\ n.power_sign = <<>> => At(t, at.to_power_sign) \notin {"+", "-"}
        /\ At(t, at.to_end) \notin Digits
    BY <1>3 DEF Seen, Marks
  <2>3. n.e = <<"e">> \/ n.e = <<"E">>
    BY <1>2, <1>10
  <2>4. Len(n.e) = 1
    BY <2>3
  <2>5. /\ AfterSign(t, at.to_power_sign) = at.to_power
        /\ parse_sign(t, at.to_power_sign) = IF Negative(n.power_sign) THEN -1 ELSE 1
    <3>1. SignRead(t, at.to_power_sign, n.power_sign, at.to_power)
      BY <1>1, <1>2, <2>1, <2>2, SignIs
    <3>2. QED
      BY <3>1 DEF SignRead
  <2>6. Skip(t, at.to_power, Digits) = at.to_end
    BY <1>1, <1>2, <2>1, <2>2, SkipsPart
  <2>7. QED
    BY <2>1, <2>4, <2>5, <2>6
<1>11. QED
  BY <1>5, <1>6, <1>7, <1>8, <1>9, <1>10 DEF Parsed

(* The value of one part, and of two behind each other.                    *)
LEMMA ValueIs ==
  ASSUME NEW t, NEW i, NEW p \in Seq(Digits), Part(t, i, p), NEW j, j = i + Len(p)
  PROVE  Accumulate(t, i, j, 0) = Numeral(p) /\ Numeral(p) \in Int
<1> DEFINE d == [k \in 1 .. Len(p) |-> DigitValue(p[k])]
<1>1. PICK n \in Nat : n = Len(p)
  OBVIOUS
<1>2. i \in Int /\ \A k \in 1 .. n : t[i + k - 1] = p[k] /\ p[k] \in Digits
  BY <1>1 DEF Part
<1>3. \A k \in 1 .. n : d[k] = DigitValue(p[k])
  BY <1>1
<1> HIDE DEF d
<1>4. \A k \in 1 .. n : t[i + k - 1] \in Digits /\ d[k] = DigitValue(t[i + k - 1])
  BY <1>2, <1>3
<1>5. PICK f : Scales(f, n, 0, 10, d) /\ Accumulate(t, i, i + n, 0) = f[n]
  <2>1. PICK zero \in Int : zero = 0
    OBVIOUS
  <2>2. DigitsFrom(t, i, n, d)
    BY <1>4 DEF DigitsFrom
  <2>3. \E f : ReachedBy(f, t, i, n, zero, d)
    BY <1>2, <2>2, AccumulateIs
  <2>4. QED
    BY <2>1, <2>3 DEF ReachedBy
<1>6. Numeral(p) = f[n] /\ f[n] \in Int
  <2>1. ValuesOf(p, n, d)
    BY <1>1, <1>3 DEF ValuesOf
  <2>2. QED
    BY <1>5, <2>1, NumeralIs
<1>7. QED
  BY <1>1, <1>5, <1>6

LEMMA GluedValueIs ==
  ASSUME NEW t, NEW i, NEW p \in Seq(Digits), Part(t, i, p), NEW j, j = i + Len(p),
         NEW l, NEW q \in Seq(Digits), Part(t, l, q), NEW m, m = l + Len(q)
  PROVE  Accumulate(t, l, m, Accumulate(t, i, j, 0)) = Numeral(p \o q) /\ Numeral(p \o q) \in Int
<1> DEFINE r == p \o q
           d == [k \in 1 .. Len(r) |-> DigitValue(r[k])]
           b == [k \in 1 .. Len(q) |-> DigitValue(q[k])]
<1>1. PICK n1 \in Nat, n2 \in Nat, n \in Nat : n1 = Len(p) /\ n2 = Len(q) /\ n = n1 + n2
  OBVIOUS
<1>2. /\ r \in Seq(Digits) /\ Len(r) = n
      /\ \A k \in 1 .. n1 : r[k] = p[k]
      /\ \A k \in 1 .. n2 : r[n1 + k] = q[k]
  BY <1>1
<1>3. i \in Int /\ \A k \in 1 .. n1 : t[i + k - 1] = p[k] /\ p[k] \in Digits
  BY <1>1 DEF Part
<1>4. l \in Int /\ \A k \in 1 .. n2 : t[l + k - 1] = q[k] /\ q[k] \in Digits
  BY <1>1 DEF Part
<1> HIDE DEF r
<1>5. /\ \A k \in 1 .. n : d[k] = DigitValue(r[k])
      /\ \A k \in 1 .. n2 : b[k] = DigitValue(q[k])
  BY <1>1, <1>2
<1> HIDE DEF d, b
<1>6. \A k \in 1 .. n1 : d[k] = DigitValue(p[k])
  <2>1. \A k \in 1 .. n1 : k \in 1 .. n
    BY <1>1
  <2>2. QED
    BY <1>2, <1>5, <2>1
<1>7. \A k \in 1 .. n2 : n1 + k \in 1 .. n /\ d[n1 + k] = b[k]
  <2>1. \A k \in 1 .. n2 : n1 + k \in 1 .. n
    BY <1>1
  <2>2. QED
    BY <1>2, <1>5, <2>1
<1>8. PICK f : Scales(f, n1, 0, 10, d) /\ Accumulate(t, i, i + n1, 0) = f[n1]
  <2>1. PICK zero \in Int : zero = 0
    OBVIOUS
  <2>2. DigitsFrom(t, i, n1, d)
    BY <1>3, <1>6 DEF DigitsFrom
  <2>3. \E f : ReachedBy(f, t, i, n1, zero, d)
    BY <1>3, <2>2, AccumulateIs
  <2>4. QED
    BY <2>1, <2>3 DEF ReachedBy
<1>9. f[n1] \in Int /\ f[0] = 0 /\ \A k \in 1 .. n1 : f[k] = f[k - 1] * 10 + d[k]
  <2>1. PICK zero \in Int, ten \in Int : zero = 0 /\ ten = 10
    OBVIOUS
  <2>2. \A k \in 1 .. n1 : d[k] \in Int
    <3>1. ASSUME NEW k \in 1 .. n1
          PROVE  d[k] \in Int
      <4>1. p[k] \in Digits
        BY <1>3
      <4>2. DigitValue(p[k]) \in Nat
        BY <4>1, DigitValues
      <4>3. d[k] = DigitValue(p[k])
        BY <1>6
      <4>4. QED
        BY <4>2, <4>3
    <3>2. QED
      BY <3>1
  <2>3. Scales(f, n1, zero, ten, d)
    BY <1>8, <2>1
  <2>4. Stepwise(f, n1, zero, ten, d)
    BY <2>2, <2>3, ScalesValues
  <2>5. QED
    BY <2>1, <2>4 DEF Stepwise
<1>10. PICK g : Scales(g, n2, f[n1], 10, b) /\ Accumulate(t, l, l + n2, f[n1]) = g[n2]
  <2>1. DigitsFrom(t, l, n2, b)
    BY <1>4, <1>5 DEF DigitsFrom
  <2>2. \E g : ReachedBy(g, t, l, n2, f[n1], b)
    BY <1>4, <1>9, <2>1, AccumulateIs
  <2>3. QED
    BY <2>2 DEF ReachedBy
<1>11. g[0] = f[n1] /\ \A k \in 1 .. n2 : g[k] = g[k - 1] * 10 + b[k]
  BY <1>10 DEF Scales
<1> DEFINE h == [k \in 0 .. n |-> IF k <= n1 THEN f[k] ELSE g[k - n1]]
<1>12. /\ \A k \in 0 .. n1 : h[k] = f[k]
       /\ \A k \in 0 .. n2 : h[n1 + k] = g[k]
  <2>1. \A k \in 0 .. n1 : k \in 0 .. n /\ k <= n1
    BY <1>1
  <2>2. ASSUME NEW k \in 0 .. n2
        PROVE  h[n1 + k] = g[k]
    <3>1. n1 + k \in 0 .. n /\ (n1 + k) - n1 = k /\ (n1 + k <= n1 <=> k = 0) /\ n1 + 0 = n1
      BY <1>1
    <3>2. QED
      BY <1>11, <3>1
  <2>3. QED
    BY <2>1, <2>2
<1>13. h = [k \in 0 .. n |-> h[k]]
  OBVIOUS
<1> HIDE DEF h
<1>14. \A k \in 0 .. n : h[k] = IF k = 0 THEN 0 ELSE h[k - 1] * 10 + d[k]
  <2> SUFFICES ASSUME NEW k \in 0 .. n
               PROVE  h[k] = IF k = 0 THEN 0 ELSE h[k - 1] * 10 + d[k]
    OBVIOUS
  <2>1. CASE k = 0
    BY <1>9, <1>12, <2>1
  <2>2. CASE k \in 1 .. n1
    <3>1. k \in 0 .. n1 /\ k - 1 \in 0 .. n1 /\ k # 0
      BY <2>2
    <3>2. h[k] = f[k] /\ h[k - 1] = f[k - 1] /\ f[k] = f[k - 1] * 10 + d[k]
      BY <1>9, <1>12, <2>2, <3>1
    <3>3. QED
      BY <3>1, <3>2
  <2>3. CASE k > n1
    <3>1. PICK u \in 1 .. n2 : k = n1 + u /\ k - 1 = n1 + (u - 1) /\ u \in 0 .. n2 /\ u - 1 \in 0 .. n2
      <4>1. k - n1 \in 1 .. n2 /\ k = n1 + (k - n1) /\ k - 1 = n1 + ((k - n1) - 1)
        BY <1>1, <2>3
      <4>2. QED
        BY <4>1
    <3>2. h[k] = g[u] /\ h[k - 1] = g[u - 1] /\ d[k] = b[u]
      BY <1>7, <1>12, <3>1
    <3>3. g[u] = g[u - 1] * 10 + b[u] /\ k # 0
      BY <1>11, <2>3, <3>1
    <3>4. QED
      BY <3>2, <3>3
  <2>4. QED
    BY <2>1, <2>2, <2>3
<1>15. Scales(h, n, 0, 10, d)
  BY <1>13, <1>14 DEF Scales
<1>16. Numeral(r) = h[n] /\ h[n] \in Int
  <2>1. ValuesOf(r, n, d)
    BY <1>2, <1>5 DEF ValuesOf
  <2>2. QED
    BY <1>2, <1>15, <2>1, NumeralIs
<1>17. h[n] = g[n2]
  BY <1>1, <1>12
<1>18. Accumulate(t, l, m, Accumulate(t, i, j, 0)) = g[n2]
  BY <1>1, <1>8, <1>10
<1>19. QED
  BY <1>16, <1>17, <1>18 DEF r

LEMMA NumeralOfNone == Numeral(<<>>) = 0
<1> DEFINE f == [k \in 0 .. 0 |-> 0]
<1>1. PICK none, n : none = <<>> /\ n = 0
  OBVIOUS
<1>2. none \in Seq(Digits) /\ n = Len(none)
  BY <1>1
<1>3. Scales(f, n, 0, 10, none) /\ f[n] = 0
  BY <1>1 DEF Scales
<1>4. ValuesOf(none, n, none)
  BY <1>1, <1>2 DEF ValuesOf
<1> HIDE DEF f
<1>5. Numeral(none) = f[n]
  BY <1>2, <1>3, <1>4, NumeralIs
<1>6. QED
  BY <1>1, <1>3, <1>5

LEMMA SignedProduct ==
  ASSUME NEW x \in Int, NEW negative \in BOOLEAN, NEW s, s = IF negative THEN -1 ELSE 1
  PROVE  s * x = SignedValue(negative, x) /\ SignedValue(negative, x) \in Int
<1>1. CASE negative
  <2>1. (-1) * x = -x /\ -x \in Int
    OBVIOUS
  <2>2. QED
    BY <1>1, <2>1 DEF SignedValue
<1>2. CASE ~negative
  <2>1. 1 * x = x
    OBVIOUS
  <2>2. QED
    BY <1>2, <2>1 DEF SignedValue
<1>3. QED
  BY <1>1, <1>2

(* A number of a machine type with w values, half of them not negative.    *)
LEMMA FitsHalf ==
  ASSUME NEW w \in Nat, w % 2 = 0, NEW x \in 0 .. (w \div 2) - 1
  PROVE  2 * x < w
<1>1. w = (w \div 2) * 2 + (w % 2) /\ w \div 2 \in Nat
  OBVIOUS
<1>2. PICK h \in Nat : h = w \div 2 /\ w = 2 * h
  BY <1>1
<1>3. x \in Int /\ x <= h - 1
  BY <1>2
<1>4. QED
  BY <1>2, <1>3

(* What strtod makes of a number: it stops behind it with its value, and   *)
(* with its power of ten if the exponent is an int.                        *)
DoubleOf(n, at, double) ==
  /\ double.value = SignedValue(Negative(n.sign), Numeral(n.whole \o n.places))
  /\ Numeral(n.power) \in 0 .. (IntValues \div 2) - 1 =>
       double.power = SignedValue(Negative(n.power_sign), Numeral(n.power)) - Len(n.places)
  /\ double.end = at.to_end

LEMMA StrtodReads ==
  ASSUME NEW n \in Numbers, NEW rest \in Rests, NEW t, NEW at, Laid(t, n, rest, at),
         NEW double \in strtod(t)
  PROVE  DoubleOf(n, at, double)
<1>1. Parsed(t, n, at) /\ Seen(t, n, rest, at)
  BY ParsedOfLaid, SeenOfLaid
<1>2. /\ n.whole \in Seq(Digits) /\ n.places \in Seq(Digits) /\ n.power \in Seq(Digits)
      /\ n.point = <<>> => n.places = <<>>
      /\ n.e = <<>> => n.power_sign = <<>> /\ n.power = <<>>
  BY NumbersAssumption
<1>3. /\ Part(t, at.to_whole, n.whole) /\ at.to_point = at.to_whole + Len(n.whole)
      /\ Part(t, at.to_places, n.places) /\ at.to_e = at.to_places + Len(n.places)
      /\ Part(t, at.to_power, n.power) /\ at.to_end = at.to_power + Len(n.power)
  BY DEF Laid
<1> DEFINE value    == Accumulate(t, at.to_whole, at.to_point, 0)
           fraction == At(t, at.to_point) = "."
           e        == IF fraction THEN Skip(t, at.to_point + 1, Digits) ELSE at.to_point
           exact    == IF fraction THEN Accumulate(t, at.to_point + 1, e, value) ELSE value
           places   == IF fraction THEN e - at.to_point - 1 ELSE 0
<1>4. strtod(t) =
        IF At(t, e) \in Exponent
        THEN Doubles(parse_sign(t, at.to_sign) * exact, PowerOf(t, e), places, PowerEnd(t, e))
        ELSE Doubles(parse_sign(t, at.to_sign) * exact, {0}, places, e)
  <2>1. /\ Skip(t, 1, Blanks) = at.to_sign /\ AfterSign(t, at.to_sign) = at.to_whole
        /\ Skip(t, at.to_whole, Digits) = at.to_point
    BY <1>1 DEF Parsed
  <2>2. QED
    BY <2>1, Zenon DEF strtod
<1>5. value = Numeral(n.whole) /\ value \in Int
  BY <1>2, <1>3, ValueIs
<1>6. e = at.to_e /\ exact = Numeral(n.whole \o n.places) /\ exact \in Int /\ places = Len(n.places)
  <2>1. CASE n.point = <<>>
    <3>1. ~fraction /\ at.to_e = at.to_point /\ n.places = <<>>
      BY <1>1, <1>2, <2>1 DEF Seen
    <3>2. n.whole \o n.places = n.whole /\ Len(n.places) = 0
      BY <1>2, <3>1
    <3> HIDE DEF value, fraction
    <3>3. QED
      BY <1>5, <3>1, <3>2
  <2>2. CASE n.point # <<>>
    <3>1. fraction /\ at.to_places = at.to_point + 1 /\ Skip(t, at.to_places, Digits) = at.to_e
      BY <1>1, <2>2 DEF Seen, Parsed
    <3> HIDE DEF fraction
    <3>2. e = at.to_e
      BY <3>1
    <3>3. exact = Numeral(n.whole \o n.places) /\ exact \in Int
      <4>1. exact = Accumulate(t, at.to_places, at.to_e, value)
        BY <3>1, <3>2
      <4>2. /\ Accumulate(t, at.to_places, at.to_e, value) = Numeral(n.whole \o n.places)
            /\ Numeral(n.whole \o n.places) \in Int
        BY <1>2, <1>3, GluedValueIs
      <4>3. QED
        BY <4>1, <4>2
    <3>4. places = Len(n.places)
      <4>1. PICK p \in Nat, l \in Nat : p = at.to_point /\ l = Len(n.places)
        <5>1. Part(t, at.to_point, n.point)
          BY DEF Laid
        <5>2. QED
          BY <1>2, <5>1 DEF Part
      <4>2. at.to_e = (p + 1) + l
        BY <1>3, <3>1, <4>1
      <4>3. ((p + 1) + l) - p - 1 = l
        OBVIOUS
      <4>4. places = e - at.to_point - 1
        BY <3>1
      <4>5. places = ((p + 1) + l) - p - 1
        <5> HIDE DEF e, places
        <5>1. QED
          BY <3>2, <4>1, <4>2, <4>4, Zenon
      <4>6. QED
        BY <4>1, <4>3, <4>5
    <3>5. QED
      BY <3>2, <3>3, <3>4
  <2>3. QED
    BY <2>1, <2>2
<1> HIDE DEF value, fraction, e, exact, places
<1>7. parse_sign(t, at.to_sign) * exact = SignedValue(Negative(n.sign), exact)
  <2>1. parse_sign(t, at.to_sign) = IF Negative(n.sign) THEN -1 ELSE 1
    BY <1>1 DEF Parsed
  <2>2. Negative(n.sign) \in BOOLEAN
    BY DEF Negative
  <2>3. QED
    BY <1>6, <2>1, <2>2, SignedProduct
<1>8. CASE n.e = <<>>
  <2>1. ~(At(t, e) \in Exponent) /\ e = at.to_end
    BY <1>1, <1>6, <1>8 DEF Seen
  <2>2. SignedValue(Negative(n.power_sign), Numeral(n.power)) = 0
    <3>1. n.power = <<>> /\ n.power_sign = <<>> /\ ~Negative(<<>>)
      BY <1>2, <1>8 DEF Negative
    <3>2. QED
      BY <3>1, NumeralOfNone DEF SignedValue
  <2>3. PICK l \in Nat : l = Len(n.places)
    BY <1>2
  <2>4. double \in Doubles(parse_sign(t, at.to_sign) * exact, {0}, places, e)
    BY <1>4, <2>1
  <2>5. /\ double.value = parse_sign(t, at.to_sign) * exact
        /\ double.power = 0 - places /\ double.end = e
    BY <2>4 DEF Doubles
  <2>6. 0 - places = SignedValue(Negative(n.power_sign), Numeral(n.power)) - Len(n.places)
    BY <1>6, <2>2, <2>3
  <2>7. QED
    BY <1>6, <1>7, <2>1, <2>5, <2>6, Zenon DEF DoubleOf
<1>9. CASE n.e # <<>>
  <2>1. At(t, e) \in Exponent
    BY <1>1, <1>6, <1>9 DEF Seen
  <2>2. /\ at.to_power_sign = at.to_e + 1
        /\ AfterSign(t, at.to_power_sign) = at.to_power
        /\ parse_sign(t, at.to_power_sign) = IF Negative(n.power_sign) THEN -1 ELSE 1
        /\ Skip(t, at.to_power, Digits) = at.to_end
    BY <1>1, <1>9 DEF Parsed
  <2>3. PowerEnd(t, e) = at.to_end
    BY <1>6, <2>2 DEF PowerEnd
  <2>4. PowerDigits(t, e) = Numeral(n.power)
    <3>1. PowerDigits(t, e) = Accumulate(t, at.to_power, at.to_end, 0)
      BY <1>6, <2>2, <2>3 DEF PowerDigits
    <3>2. Accumulate(t, at.to_power, at.to_end, 0) = Numeral(n.power)
      BY <1>2, <1>3, ValueIs
    <3>3. QED
      BY <3>1, <3>2
  <2>5. double \in Doubles(parse_sign(t, at.to_sign) * exact, PowerOf(t, e), places,
                           PowerEnd(t, e))
    BY <1>4, <2>1
  <2>6. /\ double.value = parse_sign(t, at.to_sign) * exact /\ double.end = PowerEnd(t, e)
        /\ double.power \in {power - places : power \in PowerOf(t, e)}
    BY <2>5 DEF Doubles
  <2>7. ASSUME Numeral(n.power) \in 0 .. (IntValues \div 2) - 1
        PROVE  double.power = SignedValue(Negative(n.power_sign), Numeral(n.power)) - Len(n.places)
    <3>1. 2 * Numeral(n.power) < IntValues
      BY <2>7, FitsHalf, IntValuesAssumption
    <3>2. PowerOf(t, e) = {parse_sign(t, at.to_power_sign) * Numeral(n.power)}
      BY <1>6, <2>2, <2>4, <3>1 DEF PowerOf
    <3>3. parse_sign(t, at.to_power_sign) * Numeral(n.power)
            = SignedValue(Negative(n.power_sign), Numeral(n.power))
      <4>1. Negative(n.power_sign) \in BOOLEAN
        BY DEF Negative
      <4>2. Numeral(n.power) \in Int
        BY <2>7
      <4>3. QED
        BY <2>2, <4>1, <4>2, SignedProduct
    <3>4. QED
      BY <1>6, <2>6, <3>2, <3>3
  <2>8. QED
    BY <1>6, <1>7, <2>3, <2>6, <2>7 DEF DoubleOf
<1>10. QED
  BY <1>8, <1>9

(* strtoll and strtoull read the whole digits behind the sign.             *)
WholeRead(t, n, at) ==
  /\ Accumulate(t, at.to_whole, at.to_point, 0) = Numeral(n.whole)
  /\ Numeral(n.whole) \in Int
  /\ n.whole # <<>> => at.to_point # at.to_whole
  /\ at.to_point = Len(n.spaces \o n.sign \o n.whole) + 1

LEMMA WholeReads ==
  ASSUME NEW n \in Numbers, NEW rest \in Rests, NEW t, NEW at, Laid(t, n, rest, at)
  PROVE  Parsed(t, n, at) /\ WholeRead(t, n, at)
<1>1. Parsed(t, n, at)
  BY ParsedOfLaid
<1>2. /\ n.spaces \in Seq(Characters) /\ n.sign \in Seq(Characters)
      /\ n.whole \in Seq(Characters) /\ n.whole \in Seq(Digits)
  BY NumbersAssumption, PartsOfNumbers
<1>3. /\ Part(t, at.to_whole, n.whole) /\ at.to_point = at.to_whole + Len(n.whole)
      /\ at.to_sign = 1 + Len(n.spaces) /\ at.to_whole = at.to_sign + Len(n.sign)
  BY DEF Laid
<1>4. Accumulate(t, at.to_whole, at.to_point, 0) = Numeral(n.whole) /\ Numeral(n.whole) \in Int
  <2>1. /\ n.whole \in Seq(Digits) /\ Part(t, at.to_whole, n.whole)
        /\ at.to_point = at.to_whole + Len(n.whole)
    BY <1>2, <1>3
  <2>2. QED
    BY <2>1, ValueIs
<1>5. PICK a \in Nat, b \in Nat, c \in Nat :
        a = Len(n.spaces) /\ b = Len(n.sign) /\ c = Len(n.whole)
  BY <1>2
<1>6. at.to_whole = (1 + a) + b /\ at.to_point = ((1 + a) + b) + c
  BY <1>3, <1>5
<1>7. Len(n.spaces \o n.sign \o n.whole) = (a + b) + c
  <2>1. n.spaces \o n.sign \in Seq(Characters) /\ Len(n.spaces \o n.sign) = a + b
    BY <1>2, <1>5
  <2>2. QED
    BY <1>2, <1>5, <2>1
<1>8. n.whole # <<>> => c > 0
  BY <1>2, <1>5, FirstOf
<1>9. at.to_point = Len(n.spaces \o n.sign \o n.whole) + 1
  BY <1>6, <1>7
<1>10. n.whole # <<>> => at.to_point # at.to_whole
  BY <1>6, <1>8
<1>11. QED
  BY <1>1, <1>4, <1>9, <1>10 DEF WholeRead

LEMMA StrtollReads ==
  ASSUME NEW n \in Numbers, NEW rest \in Rests, NEW t, NEW at, Laid(t, n, rest, at),
         n.whole # <<>>, NEW v, v = SignedValue(Negative(n.sign), Numeral(n.whole)),
         v \in -(LongLong \div 2) + 1 .. (LongLong \div 2) - 1
  PROVE  strtoll(t, 10) = {[value |-> v, end |-> Len(n.spaces \o n.sign \o n.whole) + 1]}
<1>1. /\ Skip(t, 1, Blanks) = at.to_sign /\ AfterSign(t, at.to_sign) = at.to_whole
      /\ Skip(t, at.to_whole, Digits) = at.to_point
      /\ Accumulate(t, at.to_whole, at.to_point, 0) = Numeral(n.whole)
      /\ Numeral(n.whole) \in Int
      /\ at.to_point # at.to_whole
      /\ at.to_point = Len(n.spaces \o n.sign \o n.whole) + 1
  <2>1. Parsed(t, n, at) /\ WholeRead(t, n, at)
    BY WholeReads
  <2>2. QED
    BY <2>1 DEF Parsed, WholeRead
<1>2. parse_sign(t, at.to_sign) * Numeral(n.whole) = v
  <2>1. parse_sign(t, at.to_sign) = IF Negative(n.sign) THEN -1 ELSE 1
    <3>1. Parsed(t, n, at)
      BY ParsedOfLaid
    <3>2. QED
      BY <3>1 DEF Parsed
  <2>2. Negative(n.sign) \in BOOLEAN
    BY DEF Negative
  <2>3. QED
    BY <1>1, <2>1, <2>2, SignedProduct
<1>3. 2 * Numeral(n.whole) < LongLong
  <2>1. PICK x \in Int, h \in Nat : x = Numeral(n.whole) /\ h = LongLong \div 2 /\ LongLong = 2 * h
    <3>1. LongLong = (LongLong \div 2) * 2 + (LongLong % 2) /\ LongLong \div 2 \in Nat
      BY LongLongAssumption
    <3>2. LongLong = 2 * (LongLong \div 2)
      BY <3>1, LongLongAssumption
    <3>3. QED
      BY <1>1, <3>1, <3>2
  <2>2. v = x \/ v = -x
    BY <2>1 DEF SignedValue
  <2>3. x <= h - 1
    BY <2>1, <2>2
  <2>4. QED
    BY <2>1, <2>3
<1>4. strtoll(t, 10) = {[value |-> parse_sign(t, at.to_sign) * Numeral(n.whole), end |-> at.to_point]}
  BY <1>1, <1>3 DEF strtoll
<1>5. QED
  BY <1>1, <1>2, <1>4

(* No negative number is read; one that fits is read with its value.       *)
UnsignedRead(t, n, base) ==
  /\ Negative(n.sign) => strtoull(t, base).value = 0
  /\ ~Negative(n.sign) /\ n.whole # <<>> /\ Numeral(n.whole) \in 0 .. LongLong - 1 =>
       strtoull(t, 10) = [value |-> Numeral(n.whole),
                          end |-> Len(n.spaces \o n.sign \o n.whole) + 1]

LEMMA StrtoullReads ==
  ASSUME NEW n \in Numbers, NEW rest \in Rests, NEW t, NEW at, Laid(t, n, rest, at), NEW base
  PROVE  UnsignedRead(t, n, base)
<1>1. /\ Skip(t, 1, Blanks) = at.to_sign
      /\ Skip(t, at.to_whole, Digits) = at.to_point
      /\ Accumulate(t, at.to_whole, at.to_point, 0) = Numeral(n.whole)
      /\ Numeral(n.whole) \in Int
      /\ n.whole # <<>> => at.to_point # at.to_whole
      /\ at.to_point = Len(n.spaces \o n.sign \o n.whole) + 1
  <2>1. Parsed(t, n, at) /\ WholeRead(t, n, at)
    BY WholeReads
  <2>2. QED
    BY <2>1 DEF Parsed, WholeRead
<1>2. ASSUME Negative(n.sign)
      PROVE  strtoull(t, base).value = 0
  <2>1. FirstDigit(t, at.to_sign) = at.to_sign /\ Skip(t, at.to_sign, Digits) = at.to_sign
    <3>1. Parsed(t, n, at)
      BY ParsedOfLaid
    <3>2. QED
      BY <1>2, <3>1 DEF Parsed
  <2>2. strtoull(t, base) = Unread(1) \/ strtoull(t, base) = Unread(at.to_sign)
    BY <1>1, <2>1 DEF strtoull
  <2>3. QED
    BY <2>2 DEF Unread
<1>3. ASSUME ~Negative(n.sign), n.whole # <<>>, Numeral(n.whole) \in 0 .. LongLong - 1
      PROVE  strtoull(t, 10) = [value |-> Numeral(n.whole),
                                end |-> Len(n.spaces \o n.sign \o n.whole) + 1]
  <2>1. FirstDigit(t, at.to_sign) = at.to_whole
    <3>1. Parsed(t, n, at)
      BY ParsedOfLaid
    <3>2. QED
      BY <1>3, <3>1 DEF Parsed
  <2>2. Numeral(n.whole) % LongLong = Numeral(n.whole)
    BY <1>3, LongLongAssumption, WordOfSmall
  <2>3. strtoull(t, 10) = [value |-> Numeral(n.whole) % LongLong, end |-> at.to_point]
    BY <1>1, <1>3, <2>1 DEF strtoull
  <2>4. QED
    BY <1>1, <2>2, <2>3
<1>4. QED
  BY <1>2, <1>3 DEF UnsignedRead

-----------------------------------------------------------------------------
(* Each function is called once. *)

(* The outcomes of the parser that is called. *)
Read(c) ==
  CASE c.function = "strtod"             -> strtod(Text(c))
    [] c.function = "parse_number_value" -> parse_number_value(Text(c))
    [] c.function = "strtoll"            -> strtoll(Text(c), c.base)
    [] c.function = "strtoull"           -> {strtoull(Text(c), c.base)}

CallInv ==
  \/ call = NoCall /\ outcome = Running
  \/ call \in Moves /\ outcome \in {Running, memmove(Memory, call.dest, call.src, call.count)}
  \/ call \in Readings /\ (outcome = Running \/ outcome \in Read(call))

ResultInv ==
  \/ product = None /\ (call = NoCall => left \in Operands /\ right \in Operands)
  \/ left \in Operands /\ right \in Operands /\ product = Multi3(left, right)

LEMMA CallsOnce == RuntimeSpec => [](CallInv /\ ResultInv)
<1>1. RuntimeInit => CallInv /\ ResultInv
  BY DEF RuntimeInit, ProductInit, CallInv, ResultInv, NoCall, Moves, Readings
<1>2. CallInv /\ ResultInv /\ [RuntimeNext]_runtimeVars => (CallInv /\ ResultInv)'
  <2> SUFFICES ASSUME CallInv, ResultInv, [RuntimeNext]_runtimeVars
               PROVE  (CallInv /\ ResultInv)'
    OBVIOUS
  <2>1. CASE Multi3Call
    <3>1. CallInv'
      BY <2>1 DEF Multi3Call, CallInv
    <3>2. ResultInv'
      BY <2>1 DEF Multi3Call, Multiply, ResultInv
    <3>3. QED
      BY <3>1, <3>2
  <2>2. ASSUME NEW function, NEW outcomes, Returns(function, outcomes),
               function # "none",
               function = "memmove" =>
                 outcomes = {memmove(Memory, call.dest, call.src, call.count)},
               call \in Readings => outcomes = Read(call)
        PROVE  (CallInv /\ ResultInv)'
    <3>1. call' = call /\ call.function = function /\ outcome' \in outcomes /\ UNCHANGED productVars
      BY <2>2 DEF Returns
    <3>2. ResultInv'
      BY <3>1 DEF ResultInv, productVars
    <3>3. CASE call \in Moves
      <4>1. function = "memmove"
        BY <3>1, <3>3 DEF Moves
      <4>2. outcome' = memmove(Memory, call.dest, call.src, call.count)
        BY <2>2, <3>1, <4>1
      <4>3. QED
        BY <3>1, <3>2, <3>3, <4>2 DEF CallInv
    <3>4. CASE call \in Readings
      BY <2>2, <3>1, <3>2, <3>4 DEF CallInv
    <3>5. CASE call = NoCall
      BY <2>2, <3>1, <3>5 DEF NoCall
    <3>6. QED
      BY <3>3, <3>4, <3>5 DEF CallInv
  <2>3. CASE Returns("memmove", {memmove(Memory, call.dest, call.src, call.count)})
    <3>1. call \notin Readings
      BY <2>3 DEF Returns, Readings
    <3>2. QED
      BY <2>2, <2>3, <3>1
  <2>4. CASE Returns("strtod", strtod(Text(call)))
    <3>1. Read(call) = strtod(Text(call))
      BY <2>4 DEF Returns, Read
    <3>2. QED
      BY <2>2, <2>4, <3>1
  <2>5. CASE Returns("parse_number_value", parse_number_value(Text(call)))
    <3>1. Read(call) = parse_number_value(Text(call))
      BY <2>5 DEF Returns, Read
    <3>2. QED
      BY <2>2, <2>5, <3>1
  <2>6. CASE Returns("strtoll", strtoll(Text(call), call.base))
    <3>1. Read(call) = strtoll(Text(call), call.base)
      BY <2>6 DEF Returns, Read
    <3>2. QED
      BY <2>2, <2>6, <3>1
  <2>7. CASE Returns("strtoull", {strtoull(Text(call), call.base)})
    <3>1. Read(call) = {strtoull(Text(call), call.base)}
      BY <2>7 DEF Returns, Read
    <3>2. QED
      BY <2>2, <2>7, <3>1
  <2>8. CASE UNCHANGED runtimeVars
    BY <2>8 DEF runtimeVars, productVars, CallInv, ResultInv
  <2>9. QED
    BY <2>1, <2>3, <2>4, <2>5, <2>6, <2>7, <2>8 DEF RuntimeNext
<1>3. QED
  BY <1>1, <1>2, PTL DEF RuntimeSpec

(* __multi3 is the product of its operands modulo 2^128, signed and        *)
(* unsigned, for every width of a word that has two halves.                *)
THEOREM Multi3Multiplies == RuntimeSpec => []ProductIsExact
<1>1. ResultInv => ProductIsExact
  BY OperandsAssumption, SignedProductAgrees DEF ResultInv, ProductIsExact, DoubleWords
<1>2. QED
  BY <1>1, CallsOnce, PTL

(* memmove leaves at dest what was at src, however the two overlap, and    *)
(* everything else alone.                                                  *)
THEOREM MemmoveIsExact == RuntimeSpec => []CopiesAreExact
<1>1. ASSUME CallInv, call.function = "memmove", outcome # Running
      PROVE  outcome = [a \in DOMAIN Memory |->
                          IF a \in call.dest .. call.dest + call.count - 1
                          THEN Memory[call.src + (a - call.dest)] ELSE Memory[a]]
  <2>1. call \in Moves /\ outcome = memmove(Memory, call.dest, call.src, call.count)
    BY <1>1 DEF CallInv, NoCall, Readings
  <2>2. PICK dest \in Nat, src \in Nat, count \in Nat :
          dest = call.dest /\ src = call.src /\ count = call.count
    BY <2>1, MemoryAssumption, FS_CardinalityType DEF Moves
  <2>3. \A i \in 0 .. count - 1 : dest + i \in DOMAIN Memory /\ src + i \in DOMAIN Memory
    BY <2>1, <2>2 DEF Moves
  <2>4. memmove(Memory, dest, src, count) = Copied(Memory, dest, src, 0, count - 1)
    BY <2>3, MemoryAssumption, MemmoveCopies DEF IsMemory
  <2>5. dest + 0 .. dest + (count - 1) = dest .. dest + count - 1
    OBVIOUS
  <2>6. QED
    BY <2>1, <2>2, <2>4, <2>5 DEF Copied
<1>2. CallInv => CopiesAreExact
  BY <1>1 DEF CopiesAreExact
<1>3. QED
  BY <1>2, CallsOnce, PTL

(* Every number is read to its end and with its value, by strtod with its  *)
(* power of ten if the exponent is an int, by strtoll and strtoull where   *)
(* it fits; no negative number is read as an unsigned one, and             *)
(* parse_number_value accepts nothing behind a number but a NUL.           *)
THEOREM NumbersAreReadWhole == RuntimeSpec => []NumbersAreRead
<1>1. ASSUME CallInv, outcome # Running, call \in Readings
      PROVE  NumbersAreRead
  <2>1. PICK n \in Numbers, rest \in Rests : n = call.number /\ rest = call.rest
    BY <1>1 DEF Readings
  <2>2. PICK t : t = Text(call) /\ t = Written(n) \o rest
    BY <2>1 DEF Text
  <2>3. PICK at : Laid(t, n, rest, at) /\ at.to_end = Len(Written(n)) + 1
    BY <2>2, WrittenIsLaid
  <2>4. Written(n) \in Seq(Characters)
    BY WrittenIsLaid
  <2>5. outcome \in Read(call)
    BY <1>1 DEF CallInv, NoCall, Moves, Readings
  <2>6. \A double \in strtod(t) : DoubleOf(n, at, double)
    BY <2>3, StrtodReads
  <2>7. CASE call.function = "strtod"
    <3>1. outcome \in strtod(t)
      BY <2>2, <2>5, <2>7 DEF Read
    <3>2. DoubleOf(n, at, outcome)
      BY <2>6, <3>1
    <3>3. QED
      BY <2>1, <2>3, <2>7, <3>2 DEF NumbersAreRead, DoubleOf
  <2>8. CASE call.function = "parse_number_value"
    <3>1. outcome \in parse_number_value(t)
      BY <2>2, <2>5, <2>8 DEF Read
    <3>2. outcome.accepted <=> (at.to_end # 1 /\ At(t, at.to_end) = "NUL")
      <4>1. PICK double \in strtod(t) :
              outcome = [accepted |-> double.end # 1 /\ At(t, double.end) = "NUL"]
        BY <3>1 DEF parse_number_value
      <4>2. double.end = at.to_end
        BY <2>6 DEF DoubleOf
      <4>3. QED
        BY <4>1, <4>2
    <3>3. at.to_end # 1 <=> Written(n) # <<>>
      <4>1. PICK l \in Nat : l = Len(Written(n)) /\ (Written(n) # <<>> <=> l > 0)
        BY <2>4, FirstOf
      <4>2. at.to_end = l + 1
        BY <2>3, <4>1
      <4>3. QED
        BY <4>1, <4>2
    <3>4. At(t, at.to_end) = "NUL" <=> Closed(rest)
      <4>1. Seen(t, n, rest, at)
        BY <2>3, SeenOfLaid
      <4>2. QED
        BY <4>1 DEF Seen
    <3>5. outcome.accepted <=> (Written(n) # <<>> /\ Closed(rest))
      BY <3>2, <3>3, <3>4
    <3>6. QED
      BY <2>1, <2>8, <3>5 DEF NumbersAreRead, Closed
  <2>9. CASE call.function = "strtoll"
    <3>1. outcome \in strtoll(t, call.base)
      BY <2>2, <2>5, <2>9 DEF Read
    <3>2. PICK v : v = SignedValue(Negative(n.sign), Numeral(n.whole))
      OBVIOUS
    <3>3. ASSUME call.base = 10, n.whole # <<>>,
                 v \in -(LongLong \div 2) + 1 .. (LongLong \div 2) - 1
          PROVE  outcome = [value |-> v, end |-> Len(n.spaces \o n.sign \o n.whole) + 1]
      <4>1. strtoll(t, 10) = {[value |-> v, end |-> Len(n.spaces \o n.sign \o n.whole) + 1]}
        BY <2>3, <3>2, <3>3, StrtollReads
      <4>2. QED
        BY <3>1, <3>3, <4>1
    <3>4. IntegerIsRead(-(LongLong \div 2) + 1 .. (LongLong \div 2) - 1)
      BY <2>1, <3>2, <3>3 DEF IntegerIsRead
    <3>5. QED
      BY <2>9, <3>4 DEF NumbersAreRead
  <2>10. CASE call.function = "strtoull"
    <3>1. outcome = strtoull(t, call.base)
      BY <2>2, <2>5, <2>10 DEF Read
    <3>2. PICK base : base = call.base
      OBVIOUS
    <3>3. UnsignedRead(t, n, base)
      BY <2>3, StrtoullReads
    <3>4. Negative(n.sign) => outcome.value = 0
      BY <3>1, <3>2, <3>3 DEF UnsignedRead
    <3>5. ~Negative(n.sign) => IntegerIsRead(0 .. LongLong - 1)
      <4>1. ASSUME ~Negative(n.sign), call.base = 10, n.whole # <<>>,
                   Numeral(n.whole) \in 0 .. LongLong - 1
            PROVE  outcome = [value |-> Numeral(n.whole),
                              end |-> Len(n.spaces \o n.sign \o n.whole) + 1]
        BY <3>1, <3>3, <4>1 DEF UnsignedRead
      <4>2. ~Negative(n.sign) => SignedValue(Negative(n.sign), Numeral(n.whole)) = Numeral(n.whole)
        BY DEF SignedValue
      <4>3. QED
        BY <2>1, <4>1, <4>2 DEF IntegerIsRead
    <3>6. QED
      BY <2>1, <2>10, <3>4, <3>5 DEF NumbersAreRead
  <2>11. QED
    BY <1>1, <2>7, <2>8, <2>9, <2>10 DEF Readings
<1>2. ASSUME call \in Moves \/ call = NoCall
      PROVE  NumbersAreRead
  BY <1>2 DEF Moves, NoCall, NumbersAreRead
<1>3. CallInv => NumbersAreRead
  BY <1>1, <1>2 DEF CallInv, NumbersAreRead
<1>4. QED
  BY <1>3, CallsOnce, PTL

-----------------------------------------------------------------------------
(* Sums and quotients of words. *)

(* A C unsigned division rounds down. *)
LEMMA QuotientBounds ==
  ASSUME NEW n \in Nat, NEW d \in Nat \ {0}
  PROVE  /\ n \div d \in Nat
         /\ (n \div d) * d <= n
         /\ n < (n \div d) * d + d
  OBVIOUS

(* One carry out of the word. *)
LEMMA WordOfCarry ==
  ASSUME NEW d \in Nat \ {0}, NEW n \in Int, d <= n, n < 2 * d
  PROVE  n % d = n - d
  OBVIOUS

(* One borrow. *)
LEMMA WordOfBorrow ==
  ASSUME NEW d \in Nat \ {0}, NEW n \in Int, -d <= n, n < 0
  PROVE  n % d = n + d
  OBVIOUS

-----------------------------------------------------------------------------
(* wasm_morecore. *)

(* What the address arithmetic of an extension comes to.  "Fits" is the    *)
(* test of the code; the rest is what its wrapping expressions evaluate to. *)
LEMMA AddrSpaceFacts ==
  /\ AddrSpace \in Nat \ {0}
  /\ MaxAddr \in Nat
  /\ MaxAddr = AddrSpace - 1
  /\ PageSize <= AddrSpace
  /\ AddrPages <= AddrSpace
  /\ AddrPages \in Nat \ {0}
  <1>1. AddrPages \in Nat \ {0} /\ PageSize \in Nat \ {0}
    BY SizesAssumption
  <1>2. AddrSpace \in Nat \ {0} /\ PageSize <= AddrSpace /\ AddrPages <= AddrSpace
    BY <1>1 DEF AddrSpace
  <1> QED
    BY <1>1, <1>2 DEF MaxAddr

(* A positive size that passed the test ends where the addition says. *)
LEMMA RequestedEndExact ==
  ASSUME NEW size \in PositiveSizes, heapEnd \in 0 .. MaxAddr, ~AddressWraps(size)
  PROVE  /\ size \in Nat \ {0}
         /\ RequestedEnd(size) = heapEnd + size
         /\ RequestedEnd(size) \in 0 .. MaxAddr
         /\ RequestedEnd(size) > heapEnd
  <1>1. size \in Nat \ {0}
    BY AddrSpaceFacts DEF PositiveSizes
  <1>2. heapEnd + size \in 0 .. AddrSpace - 1
    BY <1>1, AddrSpaceFacts DEF AddressWraps
  <1>3. (heapEnd + size) % AddrSpace = heapEnd + size
    BY <1>2, WordOfSmall, AddrSpaceFacts
  <1> QED
    BY <1>1, <1>2, <1>3, AddrSpaceFacts DEF RequestedEnd, Word

(* While the last page is out of reach, the memory size in bytes is exact. *)
LEMMA CurrentEndExact ==
  ASSUME pages \in Nat, LastPageUnreached
  PROVE  CurrentEnd = pages * PageSize
  <1>1. pages * PageSize \in 0 .. AddrSpace - 1
    BY SizesAssumption, AddrSpaceFacts DEF LastPageUnreached
  <1> QED
    BY <1>1, WordOfSmall, AddrSpaceFacts DEF CurrentEnd, Word

(* A growth that memory.grow grants is the rounding up of the new break,   *)
(* and leaves the last page of the address space alone.                    *)
LEMMA GrowthExact ==
  ASSUME NEW end \in 0 .. MaxAddr, pages \in Nat \ {0}, LastPageUnreached,
         end > pages * PageSize,
         MemoryGrow(GrowPages(end))
  PROVE  /\ pages' \in Nat
         /\ pages' > pages
         /\ end <= pages' * PageSize
         /\ end > (pages' - 1) * PageSize
         /\ pages' * PageSize < AddrSpace
  <1> DEFINE up == end + PageSize - 1
             r  == RequiredPages(end)
  <1>0. /\ PageSize \in Nat \ {0}
        /\ AddrPages \in Nat
        /\ MaxPages \in Nat
        /\ MaxPages <= AddrPages
        /\ up \in Nat
    BY SizesAssumption, AddrSpaceFacts
  <1>1. pages' = pages + GrowPages(end) /\ pages + GrowPages(end) <= MaxPages
    BY DEF MemoryGrow
  <1>2. pages < AddrPages
    BY <1>0, ScaleDown DEF LastPageUnreached, AddrSpace
  <1>3. CASE up < AddrSpace
    <2>1. up % AddrSpace = up
      BY <1>0, <1>3, WordOfSmall, AddrSpaceFacts
    <2>2. r = up \div PageSize
      BY <2>1 DEF RequiredPages, Word
    <2>3. r \in Nat /\ r * PageSize <= up /\ up < r * PageSize + PageSize
      BY <2>2, <1>0, QuotientBounds
    <2>5. /\ pages * PageSize \in Int
          /\ r * PageSize \in Int
          /\ AddrPages * PageSize = AddrSpace
      BY <2>3, <1>0 DEF AddrSpace
    <2>4. end <= r * PageSize /\ r * PageSize < AddrSpace
      BY <2>3, <2>5, AddrSpaceFacts, <1>0, <1>3
    <2>a. pages * PageSize < r * PageSize
      BY <2>4, <2>5
    <2>b. r * PageSize < AddrPages * PageSize
      BY <2>4, <2>5
    <2>c. pages < r
      BY <2>3, <2>a, <1>0, ScaleDown
    <2>d. r < AddrPages
      BY <2>3, <2>b, <1>0, ScaleDown
    <2>6. pages < r /\ r < AddrPages
      BY <2>c, <2>d
    <2>7. GrowPages(end) = r - pages
      <3>1. r - pages \in 0 .. AddrSpace - 1
        BY <2>3, <2>6, AddrSpaceFacts
      <3> QED
        BY <3>1, WordOfSmall, AddrSpaceFacts DEF GrowPages, Word
    <2>8. pages' = r
      BY <1>1, <2>3, <2>7
    <2>9. end > (r - 1) * PageSize
      BY <2>3, <1>0
    <2> QED
      BY <2>3, <2>4, <2>6, <2>8, <2>9
  <1>4. CASE up >= AddrSpace
    <2>a. up < 2 * AddrSpace
      <3>1. end <= AddrSpace - 1 /\ end \in Nat
        BY AddrSpaceFacts
      <3> QED
        BY <3>1, <1>0, AddrSpaceFacts
    <2>1. up % AddrSpace = up - AddrSpace
      <3> HIDE DEF up
      <3>1. /\ AddrSpace \in Nat \ {0}
            /\ up \in Int
            /\ AddrSpace <= up
            /\ up < 2 * AddrSpace
        BY <2>a, <1>0, <1>4, AddrSpaceFacts
      <3> QED
        BY <3>1, WordOfCarry
    <2>2. up - AddrSpace \in 0 .. PageSize - 1
      BY <1>0, <1>4, AddrSpaceFacts
    <2>3. (up - AddrSpace) \div PageSize = 0
      BY <2>2, <1>0, QuotientBounds
    <2>4. r = 0
      BY <2>1, <2>3 DEF RequiredPages, Word
    <2>5. GrowPages(end) = AddrSpace - pages
      <3>1. 0 - pages \in Int /\ -AddrSpace <= 0 - pages /\ 0 - pages < 0
        BY <1>2, AddrSpaceFacts
      <3>2. (0 - pages) % AddrSpace = AddrSpace - pages
        BY <3>1, WordOfBorrow, AddrSpaceFacts
      <3> QED
        BY <2>4, <3>2 DEF GrowPages, Word
    <2>6. PageSize >= 2
      BY <1>0, <1>4, AddrSpaceFacts
    <2>7. AddrSpace > MaxPages
      BY <2>6, <1>0, AddrSpaceFacts DEF AddrSpace
    <2> QED
      BY <1>1, <2>5, <2>7, <1>0, AddrSpaceFacts
  <1> QED
    BY <1>0, <1>3, <1>4, AddrSpaceFacts

-----------------------------------------------------------------------------

(* The regions handed out lie below the break, so the next one, which      *)
(* starts at the break, meets none of them.                                *)
BlocksBelowBreak == \A b \in blocks : b.lo < b.hi /\ b.hi <= heapEnd

(* HeapBacked needs CurrentEnd to be exact, which LastPageUnreached gives; *)
(* BlocksDisjoint needs to know where the earlier regions are.             *)
IInv ==
  /\ TypeOK
  /\ pages # 0
  /\ HeapBacked
  /\ LastPageUnreached
  /\ BlocksBelowBreak
  /\ BlocksDisjoint

LEMMA InitIInv == Init => IInv
  <1> SUFFICES ASSUME Init PROVE IInv
    OBVIOUS
  <1>0. /\ PageSize \in Nat \ {0}
        /\ AddrPages \in Nat
        /\ InitialPages \in Nat \ {0}
        /\ HeapEnd0 \in Nat
        /\ InitialPages < AddrPages
        /\ HeapEnd0 <= InitialPages * PageSize
    BY SizesAssumption
  <1>1. InitialPages * PageSize + PageSize <= AddrSpace
    BY <1>0, ScaleUp DEF AddrSpace
  <1>2. InitialPages * PageSize \in Nat
    BY <1>0
  <1>3. HeapEnd0 \in 0 .. MaxAddr
    BY <1>0, <1>1, <1>2, AddrSpaceFacts
  <1>4. TypeOK
    BY <1>0, <1>3 DEF Init, TypeOK
  <1>5. pages # 0 /\ HeapBacked /\ LastPageUnreached
    BY <1>0, <1>1, <1>2, AddrSpaceFacts DEF Init, HeapBacked, LastPageUnreached
  <1>6. BlocksBelowBreak /\ BlocksDisjoint
    BY DEF Init, BlocksBelowBreak, BlocksDisjoint
  <1> QED
    BY <1>4, <1>5, <1>6 DEF IInv

(* A committed extension puts its region above every earlier one. *)
LEMMA CommitKeepsBlocks ==
  ASSUME IInv, NEW size \in PositiveSizes, ~AddressWraps(size), Commit(size)
  PROVE  /\ heapEnd' \in 0 .. MaxAddr
         /\ blocks' \in SUBSET Block
         /\ ret' \in 0 .. MaxAddr
         /\ BlocksBelowBreak'
         /\ BlocksDisjoint'
  <1> DEFINE new == [lo |-> heapEnd, hi |-> RequestedEnd(size)]
  <1>0. heapEnd \in 0 .. MaxAddr /\ blocks \in SUBSET Block
    BY DEF IInv, TypeOK
  <1>1. RequestedEnd(size) \in 0 .. MaxAddr /\ RequestedEnd(size) > heapEnd
    BY <1>0, RequestedEndExact
  <1>2. heapEnd' = RequestedEnd(size) /\ blocks' = blocks \cup {new} /\ ret' = heapEnd
    BY DEF Commit
  <1>3. new \in Block /\ new.lo = heapEnd /\ new.hi = RequestedEnd(size)
    BY <1>0, <1>1 DEF Block
  <1>4. MaxAddr \in Nat
    BY AddrSpaceFacts
  <1>5. \A b \in blocks : b.lo \in 0 .. MaxAddr /\ b.hi \in 0 .. MaxAddr
    BY <1>0 DEF Block
  <1>6. \A b \in blocks : b.lo < b.hi /\ b.hi <= heapEnd
    BY DEF IInv, BlocksBelowBreak
  <1> HIDE DEF new
  <1>7. BlocksBelowBreak'
    <2>1. \A b \in blocks : b.hi <= RequestedEnd(size)
      BY <1>0, <1>1, <1>4, <1>5, <1>6
    <2>2. new.lo < new.hi /\ new.hi <= RequestedEnd(size)
      BY <1>0, <1>1, <1>3, <1>4
    <2> QED
      BY <1>2, <1>6, <2>1, <2>2 DEF BlocksBelowBreak
  <1>8. BlocksDisjoint'
    <2>1. \A b, c \in blocks : b = c \/ b.hi <= c.lo \/ c.hi <= b.lo
      BY DEF IInv, BlocksDisjoint
    <2>2. \A b \in blocks : b.hi <= new.lo
      BY <1>3, <1>6
    <2> QED
      BY <1>2, <2>1, <2>2 DEF BlocksDisjoint
  <1> QED
    BY <1>0, <1>1, <1>2, <1>3, <1>7, <1>8

(* A call that returns without committing leaves the three variables the   *)
(* invariant is about as they were.                                        *)
LEMMA NoChangeKeepsIInv ==
  ASSUME IInv, UNCHANGED <<heapEnd, pages, blocks>>, ret' \in (0 .. MaxAddr) \cup {Fail}
  PROVE  IInv'
  <1>1. TypeOK'
    BY DEF IInv, TypeOK
  <1>2. pages' # 0 /\ HeapBacked' /\ LastPageUnreached'
    BY DEF IInv, HeapBacked, LastPageUnreached
  <1>3. BlocksBelowBreak' /\ BlocksDisjoint'
    BY DEF IInv, BlocksBelowBreak, BlocksDisjoint
  <1> QED
    BY <1>1, <1>2, <1>3 DEF IInv

LEMMA ExtendInPlaceKeepsIInv ==
  ASSUME IInv, NEW size \in PositiveSizes, ExtendInPlace(size)
  PROVE  IInv'
  <1>0. ~AddressWraps(size) /\ Commit(size) /\ UNCHANGED pages
    BY DEF ExtendInPlace
  <1>1. pages \in Nat /\ pages # 0 /\ LastPageUnreached
    BY DEF IInv, TypeOK
  <1>2. TypeOK' /\ BlocksBelowBreak' /\ BlocksDisjoint'
    BY <1>0, <1>1, CommitKeepsBlocks DEF TypeOK
  <1>3. heapEnd' <= pages * PageSize
    BY <1>1, CurrentEndExact DEF ExtendInPlace, Commit
  <1>4. HeapBacked' /\ LastPageUnreached'
    BY <1>0, <1>1, <1>3 DEF HeapBacked, LastPageUnreached
  <1> QED
    BY <1>0, <1>1, <1>2, <1>4 DEF IInv

LEMMA ExtendByGrowingKeepsIInv ==
  ASSUME IInv, NEW size \in PositiveSizes, ExtendByGrowing(size)
  PROVE  /\ IInv'
         /\ pages' > pages
         /\ heapEnd' > (pages' - 1) * PageSize
  <1> DEFINE end == RequestedEnd(size)
  <1>0. /\ ~AddressWraps(size)
        /\ Commit(size)
        /\ end > CurrentEnd
        /\ MemoryGrow(GrowPages(end))
    BY DEF ExtendByGrowing
  <1>1. pages \in Nat \ {0} /\ LastPageUnreached /\ heapEnd \in 0 .. MaxAddr
    BY DEF IInv, TypeOK
  <1>2. end \in 0 .. MaxAddr /\ end > pages * PageSize
    BY <1>0, <1>1, RequestedEndExact, CurrentEndExact
  <1>3. heapEnd' = end
    BY <1>0 DEF Commit
  <1> HIDE DEF end
  <1>4. /\ pages' \in Nat
        /\ pages' > pages
        /\ end <= pages' * PageSize
        /\ end > (pages' - 1) * PageSize
        /\ pages' * PageSize < AddrSpace
    BY <1>0, <1>1, <1>2, GrowthExact
  <1>5. TypeOK' /\ BlocksBelowBreak' /\ BlocksDisjoint'
    BY <1>0, <1>4, CommitKeepsBlocks DEF TypeOK
  <1>6. HeapBacked' /\ LastPageUnreached'
    BY <1>3, <1>4, AddrSpaceFacts DEF HeapBacked, LastPageUnreached
  <1>7. pages' # 0
    BY <1>1, <1>4
  <1> QED
    BY <1>3, <1>4, <1>5, <1>6, <1>7 DEF IInv

LEMMA NextIInv == IInv /\ [Next]_vars => IInv'
  <1> SUFFICES ASSUME IInv, [Next]_vars PROVE IInv'
    OBVIOUS
  <1>0. heapEnd \in 0 .. MaxAddr /\ ret \in (0 .. MaxAddr) \cup {Fail}
    BY DEF IInv, TypeOK
  <1>1. CASE Query
    BY <1>0, <1>1, NoChangeKeepsIInv DEF Query
  <1>2. ASSUME NEW size \in NegativeSizes, Shrink(size) PROVE IInv'
    BY <1>2, NoChangeKeepsIInv DEF Shrink, ReturnFail
  <1>3. ASSUME NEW size \in PositiveSizes, Overflow(size) PROVE IInv'
    BY <1>3, NoChangeKeepsIInv DEF Overflow, ReturnFail
  <1>4. ASSUME NEW size \in PositiveSizes, ExtendInPlace(size) PROVE IInv'
    BY <1>4, ExtendInPlaceKeepsIInv
  <1>5. ASSUME NEW size \in PositiveSizes, ExtendByGrowing(size) PROVE IInv'
    BY <1>5, ExtendByGrowingKeepsIInv
  <1>6. ASSUME NEW size \in PositiveSizes, GrowRefused(size) PROVE IInv'
    BY <1>6, NoChangeKeepsIInv DEF GrowRefused, ReturnFail
  <1>7. CASE UNCHANGED vars
    BY <1>0, <1>7, NoChangeKeepsIInv DEF vars
  <1> QED
    BY <1>1, <1>2, <1>3, <1>4, <1>5, <1>6, <1>7 DEF Next

LEMMA IInvHolds == Spec => []IInv
  BY InitIInv, NextIInv, PTL DEF Spec

(* wasm_morecore keeps its variables in their C types. *)
THEOREM TypeCorrect == Spec => []TypeOK
  <1>1. IInv => TypeOK
    BY DEF IInv
  <1> QED
    BY <1>1, IInvHolds, PTL

(* The break never passes the end of linear memory: whatever the sizes,    *)
(* the wrapping and the refusals, no byte handed out is out of bounds.     *)
THEOREM HeapAlwaysBacked == Spec => []HeapBacked
  <1>1. IInv => HeapBacked
    BY DEF IInv
  <1> QED
    BY <1>1, IInvHolds, PTL

(* Memory never fills the address space, so current_end is never 0. *)
THEOREM CurrentEndNeverWraps == Spec => []LastPageUnreached
  <1>1. IInv => LastPageUnreached
    BY DEF IInv
  <1> QED
    BY <1>1, IInvHolds, PTL

(* No byte is handed out twice. *)
THEOREM GrantsAreDisjoint == Spec => []BlocksDisjoint
  <1>1. IInv => BlocksDisjoint
    BY DEF IInv
  <1> QED
    BY <1>1, IInvHolds, PTL

(* memory.grow is never asked for a page that the break does not reach. *)
THEOREM NoPageTooMany == Spec => GrowthIsMinimal
  <1> DEFINE A == pages' # pages => pages' > pages /\ heapEnd' > (pages' - 1) * PageSize
  <1>1. IInv /\ [Next]_vars => [A]_vars
    <2> SUFFICES ASSUME IInv, [Next]_vars, pages' # pages PROVE A
      BY DEF vars
    <2>1. PICK size \in PositiveSizes : ExtendByGrowing(size)
      BY DEF Next, vars, Query, Shrink, Overflow, ExtendInPlace, GrowRefused, ReturnFail
    <2> QED
      BY <2>1, ExtendByGrowingKeepsIInv
  <1>2. Spec => [][A]_vars
    BY <1>1, IInvHolds, PTL DEF Spec
  <1> QED
    BY <1>2 DEF GrowthIsMinimal

-----------------------------------------------------------------------------

(* Every call is one the contract allows: an extension is a Grant of       *)
(* exactly the size asked, and a failure moves nothing.                    *)
LEMMA StepImplementsSbrk ==
  IInv /\ [Next]_vars => [Contract!Next]_(Contract!vars)
  <1> SUFFICES ASSUME IInv, [Next]_vars
               PROVE  [Contract!Next]_(Contract!vars)
    OBVIOUS
  <1> USE DEF Contract!Next, Contract!vars
  <1>0. heapEnd \in 0 .. MaxAddr
    BY DEF IInv, TypeOK
  <1>1. CASE Query
    BY <1>1 DEF Query, Contract!Ask
  <1>2. ASSUME ReturnFail PROVE Contract!Refuse
    BY <1>2 DEF ReturnFail, Contract!Refuse
  <1>3. ASSUME NEW size \in PositiveSizes, ~AddressWraps(size), Commit(size)
        PROVE  size \in 1 .. MaxAddr /\ Contract!Grant(size)
    <2>1. /\ size \in Nat \ {0}
          /\ RequestedEnd(size) = heapEnd + size
          /\ RequestedEnd(size) \in 0 .. MaxAddr
      BY <1>0, <1>3, RequestedEndExact
    <2>2. size \in 1 .. MaxAddr /\ heapEnd + size <= MaxAddr
      BY <1>0, <2>1, AddrSpaceFacts
    <2> QED
      BY <1>3, <2>1, <2>2 DEF Commit, Contract!Grant
  <1>4. CASE UNCHANGED vars
    BY <1>4 DEF vars
  <1>5. ASSUME NEW size \in PositiveSizes, ExtendInPlace(size) \/ ExtendByGrowing(size)
        PROVE  \E n \in 1 .. MaxAddr : Contract!Grant(n)
    BY <1>3, <1>5 DEF ExtendInPlace, ExtendByGrowing
  <1>6. ASSUME NEW size \in PositiveSizes, Overflow(size) \/ GrowRefused(size)
        PROVE  Contract!Refuse
    BY <1>2, <1>6 DEF Overflow, GrowRefused
  <1>7. ASSUME NEW size \in NegativeSizes, Shrink(size)
        PROVE  Contract!Refuse
    BY <1>2, <1>7 DEF Shrink
  <1> QED
    BY <1>1, <1>4, <1>5, <1>6, <1>7 DEF Next

(* wasm_morecore is the contiguous, never-trimming MORECORE that the       *)
(* allocator's MORECORE_CONTIGUOUS and MORECORE_CANNOT_TRIM declare.       *)
THEOREM MorecoreImplementsSbrk == Spec => ImplementsSbrk
  <1>1. Init => Contract!Init
    BY DEF Init, Contract!Init
  <1> QED
    BY <1>1, StepImplementsSbrk, IInvHolds, PTL DEF Spec, ImplementsSbrk, Contract!Spec
=============================================================================
