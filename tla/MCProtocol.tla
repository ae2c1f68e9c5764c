------------------------------ MODULE MCProtocol ------------------------------
(* An instance of Protocol: set_value, then get_value, with arguments that   *)
(* the protocol carries well and some that it does not.                      *)
EXTENDS Protocol

CONSTANTS setter, getter

SetThenGetOrder == <<setter, getter>>
Eol == "\n"
Alphabet == Types \union {"u", "t", "k", "x", "1", Blank, Quote, Newline}
SomeTables == {<<"t">>}
SomeText == <<"x", Blank, "x">>

Command(program, user, table, value) ==
    [program |-> program, user |-> user, table |-> table, key |-> <<"k">>,
     value |-> value]

SomeValues ==
    {<<"1">>, <<"x", Quote>>, <<"x", "x", "x", "1", "1">>,        \* plain
     <<>>, <<Quote, "1">>, <<Quote, "1", Quote>>, <<"x", Blank, "1">>,
     <<Quote, "1", Blank, "1", Quote>>, <<"1", "1", "1", "1", "1", "x">>,
     <<"1", "1", "1", "1", "1", "x", "x">>}
Sets == {Command("set", <<"u">>, <<"t">>, v) : v \in SomeValues}
        \union {Command("set", <<"1">>, <<"t">>, <<"1">>),
                Command("set", <<"u">>, <<"k">>, <<"1">>),
                Command("set", <<"u">>, <<"1">>, <<"1">>),
                Command("set", <<"u">>, <<Quote, "t", Quote>>, <<"1">>)}
Gets == {Command("get", <<"u">>, <<"t">>, <<>>)}
SomeCommandLines ==
    {[c \in {setter, getter} |-> IF c = setter THEN a ELSE b] : a \in Sets, b \in Gets}
    \union {[c \in {setter, getter} |-> Command("get", <<"u">>, <<"t">>, <<>>)]}

=============================================================================
