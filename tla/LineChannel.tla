----------------------------- MODULE LineChannel -----------------------------
(***************************************************************************)
(* What one direction of a connection promises to whoever sends messages   *)
(* and reads lines: the bytes that were sent come out in order, cut after  *)
(* each newline, and none is lost before the sender or the receiver goes.  *)
(* A line of MaxLine bytes or more is cut before its end, because the      *)
(* reader keeps a byte for the zero at the end of a string.                *)
(***************************************************************************)
EXTENDS Integers, Sequences

CONSTANTS
    Newline,    \* the byte that ends a line
    MaxLine,    \* size of the buffer a line is read into
    NoLine      \* nothing has been received

VARIABLES
    pending,    \* what has been sent and not received
    got,        \* the line that was received last
    sender,     \* the sender has not closed the connection
    receiver    \* nor has the receiver

vars == <<pending, got, sender, receiver>>

IsPrefixOf(s, t) == \E n \in 0 .. Len(t) : s = SubSeq(t, 1, n)

(* The first n bytes are a whole line, or as much of it as fits.             *)
IsFirstLine(n, s) ==
    /\ n \in 1 .. Len(s) /\ n < MaxLine
    /\ \A i \in 1 .. n - 1 : s[i] # Newline
    /\ s[n] = Newline \/ n = MaxLine - 1

Init == pending = <<>> /\ got = NoLine /\ sender = TRUE /\ receiver = TRUE

(* What is sent to a receiver that has gone is lost.                         *)
Put ==
    /\ sender
    /\ IF receiver THEN IsPrefixOf(pending, pending') ELSE pending' = <<>>
    /\ UNCHANGED <<got, sender, receiver>>

Ask == got' = NoLine /\ UNCHANGED <<pending, sender, receiver>>

Take ==
    /\ receiver
    /\ \E n \in 1 .. Len(pending) :
          /\ IsFirstLine(n, pending)
          /\ got' = SubSeq(pending, 1, n)
          /\ pending' = SubSeq(pending, n + 1, Len(pending))
    /\ UNCHANGED <<sender, receiver>>

(* Without a sender the last line may have no newline, or get lost.          *)
TakeRest ==
    /\ ~sender /\ receiver
    /\ got' \in {pending, NoLine} /\ pending' = <<>>
    /\ UNCHANGED <<sender, receiver>>

(* The sender goes; what it has not got rid of is lost.                      *)
Hang ==
    /\ sender /\ sender' = FALSE
    /\ IsPrefixOf(pending', pending)
    /\ UNCHANGED <<got, receiver>>

(* The receiver goes.                                                        *)
Leave ==
    /\ receiver /\ receiver' = FALSE
    /\ pending' = <<>> /\ got' = NoLine
    /\ UNCHANGED sender

Next == Put \/ Ask \/ Take \/ TakeRest \/ Hang \/ Leave

Spec == Init /\ [][Next]_vars

=============================================================================
