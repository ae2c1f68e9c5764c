------------------------------- MODULE Messages -------------------------------
(***************************************************************************)
(* The messages of csf_assign05 and how they become lines of text          *)
(* (message.cpp, message_serialization.cpp).  A message has a type and     *)
(* arguments, which are sequences of characters; the word for a type is    *)
(* one character here.                                                     *)
(***************************************************************************)
EXTENDS RobustIO, SequencesExt

CONSTANTS
    Letters,    \* letters and the underscore
    Digits

Blank == " "
Quote == "\""

Requests ==
    {"LOGIN", "CREATE", "PUSH", "POP", "TOP", "SET", "GET", "ADD", "SUB", "MUL",
     "DIV", "BEGIN", "COMMIT", "BYE"}
Types == Requests \union {"OK", "FAILED", "ERROR", "DATA"}

ASSUME BytesAssumption == Letters \union Digits \union Types \union
                          {Blank, Quote, Newline} \subseteq Bytes
ASSUME SeparatorAssumption ==
    /\ Newline \notin Letters \union Digits \union Types \union {Blank, Quote}
    /\ {Blank, Quote} \intersect (Letters \union Digits) = {}

Message(type, args) == [type |-> type, args |-> args]
Invalid == Message("invalid", <<>>)     \* decode has thrown InvalidMessage

-----------------------------------------------------------------------------
(* message.cpp                                                               *)

IsValidIdentifier(s) ==
    /\ s # <<>> /\ s[1] \in Letters
    /\ \A i \in DOMAIN s : s[i] \in Letters \union Digits

IsValid(m) ==
    CASE m.type \in {"LOGIN", "PUSH", "FAILED", "ERROR", "DATA"} -> Len(m.args) = 1
      [] m.type = "CREATE" -> Len(m.args) = 1 /\ IsValidIdentifier(m.args[1])
      [] m.type \in {"SET", "GET"} ->
            /\ Len(m.args) = 2
            /\ IsValidIdentifier(m.args[1]) /\ IsValidIdentifier(m.args[2])
      [] OTHER -> m.type \in Types /\ m.args = <<>>

(* A getter gives the empty string if the message is of another form.        *)
ArgumentIf(m, types, n, i) ==
    IF m.type \in types /\ Len(m.args) = n THEN m.args[i] ELSE <<>>

GetUsername(m) == ArgumentIf(m, {"LOGIN"}, 1, 1)
GetTable(m) ==
    ArgumentIf(m, {"CREATE"}, 1, 1) \o ArgumentIf(m, {"SET", "GET"}, 2, 1)
GetKey(m) ==
    IF m.type \in {"SET", "GET"} /\ Len(m.args) >= 2 THEN m.args[2] ELSE <<>>
GetValue(m) == ArgumentIf(m, {"PUSH", "DATA"}, 1, 1)

-----------------------------------------------------------------------------
(* message_serialization.cpp                                                 *)

Quoted(s) == <<Quote>> \o s \o <<Quote>>

Encode(m) ==
    LET Argument(i) == IF m.type \in {"FAILED", "ERROR"} /\ i = 1
                         THEN Quoted(m.args[i]) ELSE m.args[i]
    IN  <<m.type>>
            \o FlattenSeq([i \in DOMAIN m.args |-> <<Blank>> \o Argument(i)])
            \o <<Newline>>

(* encode throws InvalidMessage.                                             *)
IsTooLong(m) == Len(Encode(m)) > MaxLine

(* The words between blanks, as the extractor of a stream reads them: one    *)
(* character more starts a word, belongs to the last one, or is a blank.     *)
Words[s \in Seq(Bytes)] ==
    LET words == Words[Front(s)]
        begins == words = <<>> \/ s[Len(s) - 1] = Blank
    IN  IF s = <<>> THEN <<>>
        ELSE IF Last(s) = Blank THEN words
        ELSE IF begins THEN Append(words, <<Last(s)>>)
        ELSE Append(Front(words), Append(Last(words), Last(s)))

Unquoted(t) ==
    IF Len(t) >= 2 /\ Last(t) = Quote THEN SubSeq(t, 2, Len(t) - 1) ELSE t

(* Words from one with a quote at its front to one with a quote at its end   *)
(* are one token, without the quotes; so is the rest if no such word comes.  *)
Tokens[words \in Seq(Seq(Bytes))] ==
    LET closing == {j \in DOMAIN words : Last(words[j]) = Quote}
        end == IF closing = {} THEN Len(words) ELSE Min(closing)
        joined == Head(words) \o FlattenSeq([k \in 1 .. end - 1 |->
                                                <<Blank>> \o words[k + 1]])
    IN  CASE words = <<>> -> <<>>
          [] words # <<>> /\ words[1][1] # Quote ->
                <<Head(words)>> \o Tokens[Tail(words)]
          [] OTHER -> <<Unquoted(joined)>> \o Tokens[SubSeq(words, end + 1, Len(words))]

Decode(line) ==
    LET tokens == Tokens[Words[Front(line)]]
    IN  IF \/ line = <<>> \/ Last(line) # Newline \/ tokens = <<>>
           \/ tokens[1] \notin {<<t>> : t \in Types}
          THEN Invalid
          ELSE Message(tokens[1][1], Tail(tokens))

=============================================================================
