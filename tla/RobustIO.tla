------------------------------- MODULE RobustIO -------------------------------
(***************************************************************************)
(* The robust I/O of csf_assign05 (csapp.c) on one direction of a          *)
(* connection.  A pipe is a record of everything in it; every operator     *)
(* takes one and returns what it becomes.                                  *)
(*                                                                         *)
(*   out     what rio_writen has still to write                            *)
(*   wire    what the kernel has taken and not delivered                   *)
(*   rbuf    the unread bytes of rio_t: rio_cnt of them from rio_bufptr    *)
(*   line    usrbuf of rio_readlineb                                       *)
(*   writer  "open"; "closed", so that a reader finds the end of the file  *)
(*           after the last byte; "reset", so that it finds an error       *)
(*   reader  "idle" before the first call, "reading" in rio_readlineb,     *)
(*           "line", "eof" or "error" after it returned a positive number, *)
(*           0 or -1; "closed"; "reset" once the writer's kernel has been  *)
(*           told that nobody reads                                        *)
(***************************************************************************)
EXTENDS Integers, Sequences

CONSTANTS
    Bytes,
    Newline,
    MaxLine,    \* Message::MAX_ENCODED_LEN, maxlen of every rio_readlineb
    RioSize,    \* RIO_BUFSIZE
    NoLine      \* no line has been received

ASSUME NewlineAssumption == Newline \in Bytes
ASSUME MaxLineAssumption == MaxLine \in Nat /\ MaxLine > 1
ASSUME RioSizeAssumption == RioSize \in Nat /\ RioSize > 0
ASSUME NoLineAssumption == NoLine \notin Seq(Bytes)

First(s, n) == SubSeq(s, 1, n)
Rest(s, n) == SubSeq(s, n + 1, Len(s))

NewPipe ==
    [out |-> <<>>, wire |-> <<>>, rbuf |-> <<>>, line |-> <<>>,
     writer |-> "open", reader |-> "idle"]

Pipe ==
    [out : Seq(Bytes), wire : Seq(Bytes), rbuf : Seq(Bytes), line : Seq(Bytes),
     writer : {"open", "closed", "reset"},
     reader : {"idle", "reading", "line", "eof", "error", "closed", "reset"}]

Deserted(p) == p.reader \in {"closed", "reset"}

-----------------------------------------------------------------------------
(* The writer.  write() may take less than it is given; interrupted by a     *)
(* signal, it takes nothing and is called again.                             *)

CanCallWrite(p) == p.writer = "open" /\ p.out = <<>>
CallWrite(p, msg) == [p EXCEPT !.out = msg]

CanWrite(p, n) == p.writer = "open" /\ ~Deserted(p) /\ n \in 1 .. Len(p.out)
Write(p, n) == [p EXCEPT !.out = Rest(@, n), !.wire = @ \o First(p.out, n)]

(* The kernel takes what nobody will read until it is told so; then write()  *)
(* raises SIGPIPE.                                                           *)
CanWriteInVain(p) == p.writer = "open" /\ Deserted(p) /\ p.out # <<>>
WriteInVain(p) == [p EXCEPT !.out = <<>>, !.reader = "reset"]

BreaksPipe(p) == p.writer = "open" /\ p.reader = "reset" /\ p.out # <<>>

(* close() of the writer's descriptor, or the end of its process.            *)
Hung(p, how) == [p EXCEPT !.writer = how, !.out = <<>>]

-----------------------------------------------------------------------------
(* The reader                                                                *)

(* How many bytes rio_readlineb copies from s while there is room.           *)
Taken(s, room) ==
    CHOOSE k \in 0 .. Len(s) :
        /\ k <= room
        /\ \A i \in 1 .. k - 1 : s[i] # Newline
        /\ k \in {room, Len(s)} \/ (k > 0 /\ s[k] = Newline)

IsWhole(line) ==
    \/ Len(line) = MaxLine - 1
    \/ line # <<>> /\ line[Len(line)] = Newline

(* Variant with a bug: the zero is written behind a buffer that is full.     *)
FilledUp(p) ==
    LET k == Taken(p.rbuf, MaxLine - Len(p.line))
        line == p.line \o First(p.rbuf, k)
    IN  [p EXCEPT !.rbuf = Rest(@, k), !.line = line,
                  !.reader = IF Len(line) = MaxLine \/ IsWhole(line) THEN "line"
                                                                 ELSE "reading"]

(* The loop of rio_readlineb until the buffer of rio_t is empty.             *)
Filled(p) ==
    LET k == Taken(p.rbuf, MaxLine - 1 - Len(p.line))
        line == p.line \o First(p.rbuf, k)
    IN  [p EXCEPT !.rbuf = Rest(@, k), !.line = line,
                  !.reader = IF IsWhole(line) THEN "line" ELSE "reading"]

CanReadLine(p) == p.reader \in {"idle", "line", "eof"}
ReadLine(p) == Filled([p EXCEPT !.line = <<>>])

(* rio_read has nothing left and calls read().                               *)
CanRefill(p, n) ==
    p.reader = "reading" /\ n \in 1 .. Len(p.wire) /\ n <= RioSize
Refill(p, n) == Filled([p EXCEPT !.rbuf = First(p.wire, n), !.wire = Rest(@, n)])

MeetsEnd(p) == p.reader = "reading" /\ p.wire = <<>> /\ p.writer # "open"
MeetEnd(p) ==
    [p EXCEPT !.reader = CASE p.writer = "reset" -> "error"
                           [] p.line = <<>>      -> "eof"
                           [] OTHER              -> "line"]

(* close() of the reader's descriptor: the other side learns of it at once   *)
(* if there was something left to read, and when it writes otherwise.        *)
Left(p) ==
    [p EXCEPT !.reader = IF p.wire = <<>> THEN "closed" ELSE "reset",
              !.wire = <<>>, !.rbuf = <<>>, !.line = <<>>]
Reset(p) == IF p.wire = <<>> THEN "closed" ELSE "reset"

=============================================================================
