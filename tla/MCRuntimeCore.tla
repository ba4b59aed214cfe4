---------------------------- MODULE MCRuntimeCore ---------------------------
(* Instance of RuntimeCore for TLC: 2-bit halves and every pair of 8-bit   *)
(* operands; a memory of seven bytes, each different; numbers with and     *)
(* without every part, of up to two digits before and behind the point,    *)
(* read into a long long of 6 bits, their exponents into an int of 4 bits, *)
(* with nothing behind them, other text, or a NUL and other text.          *)
EXTENDS RuntimeCore, TLC

MCOperands == 0 .. 255

MCMemory == [a \in 0 .. 6 |-> 10 + a]

DigitStrings == UNION {[1 .. n -> {"0", "3", "7"}] : n \in 0 .. 2}

Fractions ==
  {[point |-> <<>>, places |-> <<>>]} \cup [point : {<<".">>}, places : DigitStrings]

Powers ==
  {[e |-> <<>>, power_sign |-> <<>>, power |-> <<>>]}
    \cup [e : {<<"e">>}, power_sign : {<<>>, <<"+">>}, power : {<<>>, <<"3">>, <<"7">>}]
    \cup [e : {<<"E">>}, power_sign : {<<"-">>}, power : {<<>>, <<"8">>, <<"3", "0">>}]

MCNumbers ==
  {head @@ fraction @@ power :
     head \in [spaces : {<<>>, <<" ">>, <<"TAB">>}, sign : Signs, whole : DigitStrings],
     fraction \in Fractions, power \in Powers}

MCRests == {<<>>, <<"x">>, <<"NUL", "x">>}
=============================================================================
