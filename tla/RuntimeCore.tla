----------------------------- MODULE RuntimeCore ----------------------------
(***************************************************************************)
(* src/wasm_runtime_core.cpp: the functions of a C library that the linked *)
(* LLVM code relies on, each called once with every input of a small set:  *)
(* the 128-bit product of WideProduct, the copies between overlapping      *)
(* regions, and the parsers of numbers, on which parse_number_value of     *)
(* dprint_plugin.cpp and the JSON parser depend.                           *)
(*                                                                         *)
(* A text is a sequence of characters, the NUL at its end left out; a NUL  *)
(* may also be inside, from a \u0000 of a JSON string.  A pointer into it  *)
(* is a position, Len(text) + 1 that of the last NUL.  strtod's value is   *)
(* exact: an integer and a power of ten, where the code rounds to a        *)
(* double.                                                                 *)
(***************************************************************************)
EXTENDS WideProduct, Sequences, SequencesExt, FiniteSetsExt

CONSTANTS
  Memory,   (* contents of memory, a function from addresses to bytes       *)
  Numbers,  (* what is written: records of the parts of a number, each a    *)
            (* sequence of characters                                       *)
  Rests,    (* what may follow a number in a text                           *)
  LongLong, (* how many values a long long has                              *)
  IntValues (* how many values an int has                                   *)

Digits   == {"0", "1", "2", "3", "4", "5", "6", "7", "8", "9"}
Exponent == {"e", "E"}
Blanks   == {" ", "TAB", "NEWLINE"}

ASSUME MemoryAssumption ==
  /\ DOMAIN Memory \subseteq Nat
  /\ IsFiniteSet(DOMAIN Memory)
  /\ Memory = [a \in DOMAIN Memory |-> Memory[a]]
Signs    == {<<>>, <<"-">>, <<"+">>}

ASSUME NumbersAssumption ==
  \A number \in Numbers :
    /\ number.spaces \in Seq(Blanks) /\ number.sign \in Signs /\ number.whole \in Seq(Digits)
    /\ number.point \in {<<>>, <<".">>} /\ number.places \in Seq(Digits)
    /\ number.point = <<>> => number.places = <<>>
    /\ number.e \in {<<>>, <<"e">>, <<"E">>}
    /\ number.power_sign \in Signs /\ number.power \in Seq(Digits)
    /\ number.e = <<>> => number.power_sign = <<>> /\ number.power = <<>>
ASSUME RestsAssumption ==
  \A rest \in Rests :
    /\ rest \in Seq(STRING)
    /\ rest # <<>> => rest[1] \notin Digits \cup Exponent \cup Blanks \cup {"+", "-", "."}
ASSUME LongLongAssumption == LongLong \in Nat \ {0} /\ LongLong % 2 = 0
ASSUME IntValuesAssumption == IntValues \in Nat \ {0} /\ IntValues % 2 = 0

VARIABLES
  call,   (* the function called and its arguments *)
  outcome (* what it returns or leaves in memory   *)

runtimeVars == <<productVars, call, outcome>>

NoCall  == [function |-> "none"]
Running == [value |-> "running"]

-----------------------------------------------------------------------------
(* out[i] = in[i] for the bytes i in this order. *)
CopyBytes(memory, dest, src, order) ==
  LET copied[n \in 0 .. Len(order)] ==
        IF n = 0 THEN memory
        ELSE [copied[n - 1] EXCEPT ![dest + order[n]] = copied[n - 1][src + order[n]]]
  IN copied[Len(order)]

Upwards(count) == [n \in 1 .. count |-> n - 1]

(* Faulty variant: memcpy for memmove.                                     *)
CopyUpwards(memory, dest, src, count) == CopyBytes(memory, dest, src, Upwards(count))

memmove(memory, dest, src, count) ==
  CopyBytes(memory, dest, src,
            IF dest < src THEN Upwards(count)
            ELSE IF dest > src THEN Reverse(Upwards(count)) ELSE <<>>)

-----------------------------------------------------------------------------
(* Parsers. *)

At(text, i) == IF i <= Len(text) THEN text[i] ELSE "NUL"

(* The first position from i on whose character is none of these. *)
Skip(text, i, chars) == Min({j \in i .. Len(text) + 1 : At(text, j) \notin chars})

DigitValue(c) == CHOOSE n \in 0 .. 9 : c = <<"0","1","2","3","4","5","6","7","8","9">>[n + 1]

(* value = value * 10 + digit, for the characters from i to before j. *)
Accumulate(text, i, j, value) ==
  LET read[n \in 0 .. j - i] ==
        IF n = 0 THEN value ELSE read[n - 1] * 10 + DigitValue(text[i + n - 1])
  IN  read[j - i]

parse_sign(text, i) == IF At(text, i) = "-" THEN -1 ELSE 1
AfterSign(text, i)  == IF At(text, i) \in {"-", "+"} THEN i + 1 ELSE i

(* Where the exponent behind the e at position e ends, and its digits.     *)
PowerEnd(text, e) == Skip(text, AfterSign(text, e + 1), Digits)
PowerDigits(text, e) == Accumulate(text, AfterSign(text, e + 1), PowerEnd(text, e), 0)

(* Faulty variant: the exponent's sign is passed over.                     *)
PowerUnsigned(text, e) == {PowerDigits(text, e)}

(* The powers of ten that the value may be multiplied by.  The exponent is *)
(* summed up in an int: a sum that overflows is undefined and may be any   *)
(* int, of which a negative one ends the multiplication at once.           *)
PowerOf(text, e) ==
  LET sign == parse_sign(text, e + 1)
  IN IF 2 * PowerDigits(text, e) < IntValues THEN {sign * PowerDigits(text, e)}
     ELSE {sign * rounds : rounds \in 0 .. (IntValues \div 2) - 1}

Doubles(value, powers, places, end) ==
  [value : {value}, power : {power - places : power \in powers}, end : {end}]

(* The outcomes of strtod. *)
strtod(text) ==
  LET start == Skip(text, 1, Blanks)
      whole == AfterSign(text, start)
      point == Skip(text, whole, Digits)
      value == Accumulate(text, whole, point, 0)
      fraction == At(text, point) = "."
      e      == IF fraction THEN Skip(text, point + 1, Digits) ELSE point
      exact  == IF fraction THEN Accumulate(text, point + 1, e, value) ELSE value
      places == IF fraction THEN e - point - 1 ELSE 0
  IN IF At(text, e) \in Exponent
     THEN Doubles(parse_sign(text, start) * exact, PowerOf(text, e), places, PowerEnd(text, e))
     ELSE Doubles(parse_sign(text, start) * exact, {0}, places, e)

(* parse_number_value on a string: strtod reads something, up to a NUL.    *)
parse_number_value(text) ==
  {[accepted |-> double.end # 1 /\ At(text, double.end) = "NUL"] : double \in strtod(text)}

Unread(i) == [value |-> 0, end |-> i]

(* The outcomes of strtoll: a sum that overflows is undefined. *)
strtoll(text, base) ==
  LET start == Skip(text, 1, Blanks)
      first == AfterSign(text, start)
      end   == Skip(text, first, Digits)
      value == Accumulate(text, first, end, 0)
  IN IF base # 10 THEN {Unread(1)}
     ELSE IF end = first THEN {Unread(first)}
     ELSE IF 2 * value < LongLong THEN {[value |-> parse_sign(text, start) * value, end |-> end]}
     ELSE [value : -(LongLong \div 2) .. (LongLong \div 2) - 1, end : {end}]

(* Faulty variant: a minus sign is passed over.                            *)
FirstDigitAnySign(text, start) == AfterSign(text, start)

(* strtoull takes no minus sign. *)
FirstDigit(text, start) == IF At(text, start) = "+" THEN start + 1 ELSE start

strtoull(text, base) ==
  LET first == FirstDigit(text, Skip(text, 1, Blanks))
      end   == Skip(text, first, Digits)
  IN IF base # 10 THEN Unread(1)
     ELSE IF end = first THEN Unread(first)
     ELSE [value |-> Accumulate(text, first, end, 0) % LongLong, end |-> end]

-----------------------------------------------------------------------------
(* Calls. *)

Written(number) ==
  number.spaces \o number.sign \o number.whole \o number.point \o number.places
    \o number.e \o number.power_sign \o number.power

Text(c) == Written(c.number) \o c.rest

Moves ==
  {c \in [function : {"memmove"}, dest : DOMAIN Memory, src : DOMAIN Memory,
          count : 0 .. Cardinality(DOMAIN Memory)] :
     {c.dest + i : i \in 0 .. c.count - 1} \cup {c.src + i : i \in 0 .. c.count - 1}
       \subseteq DOMAIN Memory}

Readings ==
  [function : {"strtod", "parse_number_value"}, number : Numbers, rest : Rests]
    \cup [function : {"strtoll", "strtoull"}, number : Numbers, rest : Rests, base : {10, 16}]

RuntimeInit ==
  /\ outcome = Running
  /\ \/ ProductInit /\ call = NoCall
     \/ left = 0 /\ right = 0 /\ product = None /\ call \in Moves \cup Readings

Multi3Call == call = NoCall /\ Multiply /\ UNCHANGED <<call, outcome>>

Returns(function, outcomes) ==
  /\ call.function = function
  /\ outcome = Running
  /\ outcome' \in outcomes
  /\ UNCHANGED <<productVars, call>>

RuntimeNext ==
  \/ Multi3Call
  \/ Returns("memmove", {memmove(Memory, call.dest, call.src, call.count)})
  \/ Returns("strtod", strtod(Text(call)))
  \/ Returns("parse_number_value", parse_number_value(Text(call)))
  \/ Returns("strtoll", strtoll(Text(call), call.base))
  \/ Returns("strtoull", {strtoull(Text(call), call.base)})

RuntimeSpec == RuntimeInit /\ [][RuntimeNext]_runtimeVars

-----------------------------------------------------------------------------
(* Properties. *)

(* However the regions overlap, memmove leaves at dest what was at src,    *)
(* and the rest of memory as it was.                                       *)
CopiesAreExact ==
  call.function = "memmove" /\ outcome # Running =>
    outcome = [a \in DOMAIN Memory |->
                 IF a \in call.dest .. call.dest + call.count - 1
                 THEN Memory[call.src + (a - call.dest)] ELSE Memory[a]]

(* Each digit times the power of ten of its place. *)
Numeral(digits) ==
  LET n == Len(digits)
      power[k \in 0 .. n] == IF k = 0 THEN 1 ELSE power[k - 1] * 10
      sum[k \in 0 .. n] ==
        IF k = 0 THEN 0 ELSE sum[k - 1] + DigitValue(digits[k]) * power[n - k]
  IN  sum[n]

Negative(sign) == sign = <<"-">>
SignedValue(negative, n) == IF negative THEN -n ELSE n

(* What is read of an integer: its value, when that is one of values.      *)
IntegerIsRead(values) ==
  LET number == call.number
      value  == SignedValue(Negative(number.sign), Numeral(number.whole))
  IN call.base = 10 /\ number.whole # <<>> /\ value \in values =>
       outcome = [value |-> value,
                  end   |-> Len(number.spaces \o number.sign \o number.whole) + 1]

(* Every number is read up to its end and with its value: a double by its  *)
(* digits and point, and by its exponent if that fits an int, an integer   *)
(* if it fits, and no negative number as an unsigned one.                  *)
(* parse_number_value accepts nothing behind a number but a NUL, and what  *)
(* comes after it unread; it does accept a number that lacks its digits.   *)
NumbersAreRead ==
  outcome # Running =>
    LET number == call.number
    IN CASE call.function = "strtod" ->
              /\ outcome.value = SignedValue(Negative(number.sign),
                                             Numeral(number.whole \o number.places))
              /\ Numeral(number.power) \in 0 .. (IntValues \div 2) - 1 =>
                   outcome.power = SignedValue(Negative(number.power_sign), Numeral(number.power))
                                     - Len(number.places)
              /\ outcome.end = Len(Written(number)) + 1
         [] call.function = "parse_number_value" ->
              outcome.accepted <=>
                (Written(number) # <<>> /\ (call.rest = <<>> \/ call.rest[1] = "NUL"))
         [] call.function = "strtoll" ->
              IntegerIsRead(-(LongLong \div 2) + 1 .. (LongLong \div 2) - 1)
         [] call.function = "strtoull" ->
              IF Negative(number.sign) THEN outcome.value = 0
              ELSE IntegerIsRead(0 .. LongLong - 1)
         [] OTHER -> TRUE
=============================================================================
