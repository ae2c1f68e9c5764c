---------------------------- MODULE PipeRefinement ----------------------------
(***************************************************************************)
(* One pipe, with a writer and a reader that call the robust I/O functions *)
(* as they like, and the refinement mapping to LineChannel.                *)
(***************************************************************************)
EXTENDS RobustIO

VARIABLE pipe

(* What becomes of p: q, by a call on the writer's side or the reader's.     *)
Sends(p, q) ==
    \/ \E msg \in Seq(Bytes) : CanCallWrite(p) /\ q = CallWrite(p, msg)
    \/ \E n \in 1 .. Len(p.out) : CanWrite(p, n) /\ q = Write(p, n)
    \/ CanWriteInVain(p) /\ q = WriteInVain(p)
    \/ \E how \in {"closed", "reset"} : p.writer = "open" /\ q = Hung(p, how)

Receives(p, q) ==
    \/ CanReadLine(p) /\ q = ReadLine(p)
    \/ \E n \in 1 .. Len(p.wire) : CanRefill(p, n) /\ q = Refill(p, n)
    \/ MeetsEnd(p) /\ q = MeetEnd(p)
    \/ ~Deserted(p) /\ q = Left(p)

PipeInit == pipe = NewPipe
PipeNext == Sends(pipe, pipe') \/ Receives(pipe, pipe')

PipeSpec == PipeInit /\ [][PipeNext]_pipe

-----------------------------------------------------------------------------
Unread(p) == p.rbuf \o p.wire \o p.out

(* What has not been received: a line in the making is, and a line that has  *)
(* been returned is not, part of it.                                         *)
Pending(p) ==
    CASE Deserted(p)           -> <<>>
      [] p.reader = "reading"  -> p.line \o Unread(p)
      [] OTHER                 -> Unread(p)

Got(p) == IF p.reader = "line" THEN p.line ELSE NoLine

Channel ==
    INSTANCE LineChannel
        WITH pending <- Pending(pipe), got <- Got(pipe),
             sender <- pipe.writer = "open", receiver <- ~Deserted(pipe)

(* However write() and read() cut the bytes, rio_writen and rio_readlineb    *)
(* carry lines: in order, whole if they fit, none lost while both ends stay. *)
CarriesLines == Channel!Spec

=============================================================================
