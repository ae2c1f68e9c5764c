------------------------------ MODULE MCBigInt ------------------------------
(* Instances of BigInt for TLC: words of three bits.                        *)
EXTENDS BigInt

Plain ==
    {[magnitude |-> m, sign |-> s] :
        m \in {<<0>>, <<1>>, <<5>>, <<7>>, <<0, 1>>, <<7, 1>>, <<1, 7>>, <<7, 7>>,
               <<0, 0, 1>>, <<1, 7, 2>>},
        s \in BOOLEAN}

\* The default constructor, leading zeros and a zero of two words.
Odd ==
    {[magnitude |-> m, sign |-> s] :
        m \in {<<>>, <<2, 0>>, <<0, 0>>}, s \in BOOLEAN}

PlainAndOdd == Plain \cup Odd

\* Within a word, a whole word, and across words.
FewShifts == {0, 1, 2, 3, 7}
=============================================================================
