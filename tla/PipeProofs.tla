------------------------------ MODULE PipeProofs ------------------------------
(***************************************************************************)
(* Theorems about PipeRefinement, for any alphabet, lines and buffers of   *)
(* any size, and any way in which write() and read() cut the bytes.        *)
(***************************************************************************)
EXTENDS PipeRefinement, SequenceTheorems, FiniteSetTheorems,
        WellFoundedInduction, TLAPS

-----------------------------------------------------------------------------
(* Sequences *)

LEMMA EmptyIsSeq == <<>> \in Seq(Bytes) /\ Len(<<>>) = 0
BY EmptySeq

LEMMA Split ==
    ASSUME NEW s \in Seq(Bytes), NEW n \in 0 .. Len(s)
    PROVE  /\ First(s, n) \in Seq(Bytes) /\ Rest(s, n) \in Seq(Bytes)
           /\ First(s, n) \o Rest(s, n) = s
           /\ Len(First(s, n)) = n
           /\ \A i \in 1 .. n : First(s, n)[i] = s[i]
<1>0. Len(s) \in Nat /\ n \in Int
  BY LenProperties
<1>1. \A i \in 1 .. Len(s) : s[i] \in Bytes
  BY ElementOfSeq
<1>2. /\ First(s, n) \in Seq(Bytes)
      /\ Len(First(s, n)) = n
      /\ \A i \in 1 .. n : First(s, n)[i] = s[i]
  <2>1. \A i \in 1 .. n : s[i] \in Bytes
    BY <1>0, <1>1
  <2>2. /\ SubSeq(s, 1, n) \in Seq(Bytes)
        /\ Len(SubSeq(s, 1, n)) = IF 1 <= n THEN n - 1 + 1 ELSE 0
        /\ \A i \in 1 .. n - 1 + 1 : SubSeq(s, 1, n)[i] = s[1 + i - 1]
    BY <1>0, <2>1, SubSeqProperties
  <2> QED
    BY <1>0, <2>2 DEF First
<1>3. Rest(s, n) \in Seq(Bytes)
  <2>1. \A i \in n + 1 .. Len(s) : s[i] \in Bytes
    BY <1>0, <1>1
  <2> QED
    BY <1>0, <2>1, SubSeqProperties DEF Rest
<1>4. First(s, n) \o Rest(s, n) = SubSeq(s, 1, Len(s))
  <2>1. 1 \in 1 .. Len(s) + 1 /\ n \in 1 - 1 .. Len(s) /\ Len(s) \in n .. Len(s)
    BY <1>0
  <2>2. SubSeq(s, 1, n) \o SubSeq(s, n + 1, Len(s)) = SubSeq(s, 1, Len(s))
    BY <2>1, ConcatAdjacentSubSeq
  <2> QED
    BY <2>2 DEF First, Rest
<1> QED
  BY <1>2, <1>3, <1>4, SubSeqFull

\* What is left of a concatenation without its first part.
LEMMA Unjoin ==
    ASSUME NEW s \in Seq(Bytes), NEW t \in Seq(Bytes)
    PROVE  /\ s \o t \in Seq(Bytes)
           /\ Len(s \o t) = Len(s) + Len(t)
           /\ \A i \in 1 .. Len(s) : (s \o t)[i] = s[i]
           /\ SubSeq(s \o t, 1, Len(s)) = s
           /\ SubSeq(s \o t, Len(s) + 1, Len(s \o t)) = t
<1>0. Len(s) \in Nat /\ Len(t) \in Nat
  BY LenProperties
<1>1. /\ s \o t \in Seq(Bytes)
      /\ Len(s \o t) = Len(s) + Len(t)
      /\ \A i \in 1 .. Len(s) + Len(t) :
            (s \o t)[i] = IF i <= Len(s) THEN s[i] ELSE t[i - Len(s)]
  BY ConcatProperties
<1>2. /\ First(s \o t, Len(s)) \in Seq(Bytes)
      /\ Rest(s \o t, Len(s)) \in Seq(Bytes)
      /\ First(s \o t, Len(s)) \o Rest(s \o t, Len(s)) = s \o t
      /\ Len(First(s \o t, Len(s))) = Len(s)
      /\ \A i \in 1 .. Len(s) : First(s \o t, Len(s))[i] = (s \o t)[i]
  <2>1. Len(s) \in 0 .. Len(s \o t)
    BY <1>0, <1>1
  <2> HIDE DEF First, Rest
  <2> QED
    BY <1>1, <2>1, Split
<1>3. First(s \o t, Len(s)) = s
  BY <1>0, <1>1, <1>2, SeqEqual
<1>4. Rest(s \o t, Len(s)) = t
  BY <1>2, <1>3, ConcatSimplifications!cancelLeft, ZenonT(30)
<1> QED
  BY <1>0, <1>1, <1>3, <1>4 DEF First, Rest

LEMMA Assoc ==
    ASSUME NEW s \in Seq(Bytes), NEW t \in Seq(Bytes), NEW u \in Seq(Bytes)
    PROVE  (s \o t) \o u = s \o (t \o u)
BY ConcatAssociative

LEMMA NoBytes ==
    ASSUME NEW s \in Seq(Bytes)
    PROVE  s \o <<>> = s /\ <<>> \o s = s
BY ConcatEmptySeq

-----------------------------------------------------------------------------
(* The loop of rio_readlineb *)

\* The longest common prefix of all the ways to stop is well founded: a set
\* of numbers up to n has a least one.
LEMMA LeastIn ==
    ASSUME NEW n \in Nat, NEW S, S \subseteq 0 .. n, S # {}
    PROVE  \E k \in S : \A j \in S : k <= j
<1> DEFINE Below(k) == S \cap (0 .. k)
           Segments == {Below(k) : k \in S}
<1>1. IsFiniteSet(S)
  <2>1. IsFiniteSet(0 .. n)
    BY FS_Interval
  <2> QED
    BY <2>1, FS_Subset
<1>2. Segments \subseteq FiniteSubsetsOf(S) /\ Segments # {}
  <2>1. \A k \in S : Below(k) \subseteq S /\ IsFiniteSet(Below(k))
    BY <1>1, FS_Subset
  <2>2. \A k \in S : Below(k) \in FiniteSubsetsOf(S)
    BY <2>1 DEF FiniteSubsetsOf
  <2> QED
    BY <2>2
<1>3. \E x \in Segments :
         \A y \in Segments : <<y, x>> \notin StrictSubsetOrdering(S)
  BY <1>2, FS_StrictSubsetOrderingWellFounded, WFMin
<1>4. PICK k \in S :
         \A y \in Segments : <<y, Below(k)>> \notin StrictSubsetOrdering(S)
  BY <1>3
<1>5. ASSUME NEW j \in S, j < k
      PROVE  FALSE
  <2>1. k \in Int /\ j \in Int /\ k >= 0 /\ j >= 0
    OBVIOUS
  <2>2. Below(j) \subseteq Below(k) /\ k \in Below(k) /\ k \notin Below(j)
    BY <1>5, <2>1
  <2>3. <<Below(j), Below(k)>> \in StrictSubsetOrdering(S)
    BY <2>2 DEF StrictSubsetOrdering
  <2> QED
    BY <1>4, <2>3
<1> QED
  BY <1>5

LEMMA TakenIs ==
    ASSUME NEW s \in Seq(Bytes), NEW room \in Nat
    PROVE  /\ Taken(s, room) \in 0 .. Len(s)
           /\ Taken(s, room) <= room
           /\ \A i \in 1 .. Taken(s, room) - 1 : s[i] # Newline
           /\ \/ Taken(s, room) \in {room, Len(s)}
              \/ Taken(s, room) > 0 /\ s[Taken(s, room)] = Newline
<1> DEFINE Stops == {k \in 0 .. Len(s) : \/ k \in {room, Len(s)}
                                         \/ k > 0 /\ s[k] = Newline}
           IsTaken(k) == /\ k <= room
                         /\ \A i \in 1 .. k - 1 : s[i] # Newline
                         /\ k \in {room, Len(s)} \/ (k > 0 /\ s[k] = Newline)
<1>1. Len(s) \in Nat
  BY LenProperties
<1>2. PICK k \in Stops : \A j \in Stops : k <= j
  <2>1. Len(s) \in Stops /\ Stops \subseteq 0 .. Len(s)
    BY <1>1
  <2> QED
    BY <1>1, <2>1, LeastIn
<1>3. k <= room
  BY <1>1, <1>2
<1>4. \A i \in 1 .. k - 1 : s[i] # Newline
  BY <1>1, <1>2
<1>5. \E j \in 0 .. Len(s) : IsTaken(j)
  BY <1>2, <1>3, <1>4
<1>6. Taken(s, room) = CHOOSE j \in 0 .. Len(s) : IsTaken(j)
  BY DEF Taken
<1>7. Taken(s, room) \in 0 .. Len(s) /\ IsTaken(Taken(s, room))
  BY <1>5, <1>6
<1> QED
  BY <1>7

\* A line in the making: it has room for more and no newline yet.
Unfinished(line) ==
    Len(line) < MaxLine - 1 /\ \A i \in 1 .. Len(line) : line[i] # Newline

\* What rio_readlineb returns.
Finished(line) ==
    /\ Len(line) \in 1 .. MaxLine - 1
    /\ \A i \in 1 .. Len(line) - 1 : line[i] # Newline
    /\ line[Len(line)] = Newline \/ Len(line) = MaxLine - 1

\* Filling a line moves bytes from the buffer to the line and keeps their
\* order; it stops at a finished line or with an empty buffer.
LEMMA FilledIs ==
    ASSUME NEW p \in Pipe, Unfinished(p.line)
    PROVE  /\ Filled(p) \in Pipe
           /\ Filled(p).line \o Filled(p).rbuf = p.line \o p.rbuf
           /\ Filled(p).wire = p.wire /\ Filled(p).out = p.out
           /\ Filled(p).writer = p.writer
           /\ \/ Filled(p).reader = "line" /\ Finished(Filled(p).line)
              \/ /\ Filled(p).reader = "reading" /\ Filled(p).rbuf = <<>>
                 /\ Unfinished(Filled(p).line)
<1> DEFINE room == MaxLine - 1 - Len(p.line)
           k == Taken(p.rbuf, room)
           copied == First(p.rbuf, k)
           left == Rest(p.rbuf, k)
           line == p.line \o copied
<1>1. /\ p.rbuf \in Seq(Bytes) /\ p.line \in Seq(Bytes)
      /\ Len(p.rbuf) \in Nat /\ Len(p.line) \in Nat
  BY LenProperties DEF Pipe
<1>2. /\ MaxLine - 1 - Len(p.line) \in Nat /\ Len(p.line) < MaxLine - 1
      /\ room = MaxLine - 1 - Len(p.line)
  <2>1. Len(p.line) < MaxLine - 1 /\ MaxLine \in Nat
    BY MaxLineAssumption DEF Unfinished
  <2> QED
    BY <1>1, <2>1
<1>3. Filled(p) = [p EXCEPT !.rbuf = left, !.line = line,
                      !.reader = IF IsWhole(line) THEN "line" ELSE "reading"]
  BY DEF Filled
<1> HIDE DEF room
<1>4. /\ k \in 0 .. Len(p.rbuf) /\ k <= room
      /\ \A i \in 1 .. k - 1 : p.rbuf[i] # Newline
      /\ k \in {room, Len(p.rbuf)} \/ (k > 0 /\ p.rbuf[k] = Newline)
  BY <1>1, <1>2, TakenIs
<1> HIDE DEF k
<1>5. /\ copied \in Seq(Bytes) /\ left \in Seq(Bytes)
      /\ copied \o left = p.rbuf
      /\ Len(copied) = k
      /\ \A i \in 1 .. k : copied[i] = p.rbuf[i]
  BY <1>1, <1>4, Split
<1>6. k = Len(p.rbuf) => left = <<>>
  BY <1>1, SubSeqEmpty DEF Rest
<1> HIDE DEF copied, left
<1>7. /\ line \in Seq(Bytes)
      /\ Len(line) = Len(p.line) + k
      /\ \A i \in 1 .. Len(p.line) + k :
            line[i] = IF i <= Len(p.line) THEN p.line[i]
                      ELSE copied[i - Len(p.line)]
  BY <1>1, <1>5, ConcatProperties
<1>8. line \o left = p.line \o p.rbuf
  <2>1. (p.line \o copied) \o left = p.line \o (copied \o left)
    BY <1>1, <1>5, Assoc
  <2> QED
    BY <1>5, <2>1
<1> HIDE DEF line
<1>9. /\ Filled(p).line = line /\ Filled(p).rbuf = left
      /\ Filled(p).wire = p.wire /\ Filled(p).out = p.out
      /\ Filled(p).writer = p.writer
      /\ Filled(p).reader = IF IsWhole(line) THEN "line" ELSE "reading"
      /\ Filled(p) \in Pipe
  BY <1>3, <1>5, <1>7 DEF Pipe
<1>10. \A i \in 1 .. Len(line) - 1 : line[i] # Newline
  <2> SUFFICES ASSUME NEW i \in 1 .. Len(line) - 1
               PROVE  line[i] # Newline
    OBVIOUS
  <2>1. CASE i <= Len(p.line)
    BY <1>1, <1>4, <1>7, <2>1, SMTT(30) DEF Unfinished
  <2>2. CASE i > Len(p.line)
    <3>1. i - Len(p.line) \in 1 .. k - 1 /\ i - Len(p.line) \in 1 .. k
      BY <1>1, <1>4, <1>7, <2>2
    <3>2. line[i] = copied[i - Len(p.line)]
      BY <1>1, <1>4, <1>7, <2>2, SMTT(30)
    <3>3. copied[i - Len(p.line)] = p.rbuf[i - Len(p.line)]
      BY <1>5, <3>1
    <3>4. p.rbuf[i - Len(p.line)] # Newline
      BY <1>4, <3>1
    <3> QED
      BY <3>2, <3>3, <3>4
  <2>3. i <= Len(p.line) \/ i > Len(p.line)
    BY <1>1
  <2> QED
    BY <2>1, <2>2, <2>3
<1>11. Len(line) <= MaxLine - 1
  BY <1>1, <1>2, <1>4, <1>7, MaxLineAssumption
<1>12. CASE IsWhole(line)
  <2>1. Len(line) > 0 /\ (line[Len(line)] = Newline \/ Len(line) = MaxLine - 1)
    <3>1. CASE Len(line) = MaxLine - 1
      BY <3>1, MaxLineAssumption
    <3>2. CASE line # <<>> /\ line[Len(line)] = Newline
      BY <1>7, <3>2, EmptySeq, LenProperties
    <3> QED
      BY <1>12, <3>1, <3>2 DEF IsWhole
  <2>2. Finished(line)
    BY <1>1, <1>4, <1>7, <1>10, <1>11, <2>1, MaxLineAssumption DEF Finished
  <2> QED
    BY <1>8, <1>9, <1>12, <2>2
<1>13. CASE ~IsWhole(line)
  <2>1. Len(line) # MaxLine - 1 /\ ~(line # <<>> /\ line[Len(line)] = Newline)
    BY <1>13 DEF IsWhole
  <2>2. Len(line) > 0 => line[Len(line)] # Newline
    BY <2>1, EmptyIsSeq
  <2>3. \A i \in 1 .. Len(line) : line[i] # Newline
    BY <1>1, <1>4, <1>7, <1>10, <2>2
  <2>4. Unfinished(line)
    BY <1>1, <1>4, <1>7, <1>11, <2>1, <2>3, MaxLineAssumption DEF Unfinished
  <2>5. k # room
    <3>1. Len(line) = Len(p.line) + k /\ Len(line) # MaxLine - 1
      BY <1>7, <2>1
    <3>2. Len(p.line) + room = MaxLine - 1
      BY <1>1, <1>2, MaxLineAssumption
    <3> QED
      BY <3>1, <3>2
  <2>6. k > 0 => p.rbuf[k] # Newline
    <3>1. SUFFICES ASSUME k > 0
                   PROVE  p.rbuf[k] # Newline
      OBVIOUS
    <3>2. line[Len(p.line) + k] = copied[k]
      BY <1>1, <1>4, <1>7, <3>1
    <3> QED
      BY <1>1, <1>4, <1>5, <1>7, <2>3, <3>1, <3>2
  <2>7. left = <<>>
    BY <1>4, <1>6, <2>5, <2>6
  <2> QED
    BY <1>8, <1>9, <1>13, <2>4, <2>7
<1> QED
  BY <1>12, <1>13

-----------------------------------------------------------------------------
(* The inductive invariant: a line in the making leaves nothing in the       *)
(* buffer of rio_t, and who has closed the pipe has nothing left to write.   *)

PipeOK(p) ==
    /\ p \in Pipe
    /\ p.reader = "reading" => p.rbuf = <<>> /\ Unfinished(p.line)
    /\ p.writer # "open" => p.out = <<>>

\* A call of rio_readlineb, or of read() in it, leaves a pipe well formed.
LEMMA FilledOK ==
    ASSUME NEW p \in Pipe, Unfinished(p.line), p.writer # "open" => p.out = <<>>
    PROVE  PipeOK(Filled(p))
BY FilledIs DEF PipeOK

LEMMA EmptyUnfinished == Unfinished(<<>>)
BY EmptyIsSeq, MaxLineAssumption DEF Unfinished

\* What is read from: a fresh line, or the line in the making and new bytes.
LEMMA StartsReading ==
    ASSUME NEW p, PipeOK(p), CanReadLine(p)
    PROVE  LET q == [p EXCEPT !.line = <<>>]
           IN  /\ q \in Pipe /\ Unfinished(q.line)
               /\ q.writer # "open" => q.out = <<>>
BY EmptyIsSeq, EmptyUnfinished DEF PipeOK, Pipe

LEMMA GoesOnReading ==
    ASSUME NEW p, PipeOK(p), NEW n \in 1 .. Len(p.wire), CanRefill(p, n)
    PROVE  LET q == [p EXCEPT !.rbuf = First(p.wire, n), !.wire = Rest(@, n)]
           IN  /\ q \in Pipe /\ Unfinished(q.line)
               /\ q.writer # "open" => q.out = <<>>
<1>1. p.wire \in Seq(Bytes) /\ n \in 0 .. Len(p.wire)
  BY LenProperties DEF PipeOK, Pipe
<1>2. First(p.wire, n) \in Seq(Bytes) /\ Rest(p.wire, n) \in Seq(Bytes)
  BY <1>1, Split
<1> QED
  BY <1>2 DEF PipeOK, Pipe, CanRefill

\* A call leaves a well-formed pipe well formed.
LEMMA StepKeepsOK ==
    ASSUME NEW p, NEW q, PipeOK(p), Sends(p, q) \/ Receives(p, q)
    PROVE  PipeOK(q)
<1>1. ASSUME NEW msg \in Seq(Bytes),
             CanCallWrite(p), q = CallWrite(p, msg)
      PROVE  PipeOK(q)
  BY <1>1 DEF PipeOK, Pipe, CanCallWrite, CallWrite
<1>2. ASSUME NEW n \in 1 .. Len(p.out),
             CanWrite(p, n), q = Write(p, n)
      PROVE  PipeOK(q)
  <2>1. /\ p.out \in Seq(Bytes) /\ p.wire \in Seq(Bytes)
        /\ n \in 0 .. Len(p.out)
    BY LenProperties DEF PipeOK, Pipe
  <2>2. First(p.out, n) \in Seq(Bytes) /\ Rest(p.out, n) \in Seq(Bytes)
    BY <2>1, Split
  <2>3. p.wire \o First(p.out, n) \in Seq(Bytes)
    BY <2>1, <2>2, ConcatProperties
  <2> QED
    BY <1>2, <2>2, <2>3 DEF PipeOK, Pipe, CanWrite, Write
<1>3. ASSUME CanWriteInVain(p), q = WriteInVain(p)
      PROVE  PipeOK(q)
  BY <1>3, EmptyIsSeq DEF PipeOK, Pipe, WriteInVain
<1>4. ASSUME NEW how \in {"closed", "reset"}, q = Hung(p, how)
      PROVE  PipeOK(q)
  BY <1>4, EmptyIsSeq DEF PipeOK, Pipe, Hung
<1>5. ASSUME CanReadLine(p), q = ReadLine(p)
      PROVE  PipeOK(q)
  BY <1>5, StartsReading, FilledOK DEF ReadLine
<1>6. ASSUME NEW n \in 1 .. Len(p.wire),
             CanRefill(p, n), q = Refill(p, n)
      PROVE  PipeOK(q)
  BY <1>6, GoesOnReading, FilledOK DEF Refill
<1>7. ASSUME MeetsEnd(p), q = MeetEnd(p)
      PROVE  PipeOK(q)
  BY <1>7 DEF PipeOK, Pipe, MeetEnd
<1>8. ASSUME q = Left(p)
      PROVE  PipeOK(q)
  BY <1>8, EmptyIsSeq DEF PipeOK, Pipe, Left
<1> QED
  BY <1>1, <1>2, <1>3, <1>4, <1>5, <1>6, <1>7, <1>8 DEF Sends, Receives

-----------------------------------------------------------------------------
(* The refinement *)

LEMMA PrefixIs ==
    ASSUME NEW s \in Seq(Bytes), NEW t \in Seq(Bytes)
    PROVE  Channel!IsPrefixOf(s, s \o t)
<1>1. Len(s) \in 0 .. Len(s \o t) /\ SubSeq(s \o t, 1, Len(s)) = s
  BY Unjoin, LenProperties
<1> QED
  BY <1>1 DEF Channel!IsPrefixOf

LEMMA FirstLineIs ==
    ASSUME NEW line \in Seq(Bytes), NEW t \in Seq(Bytes), Finished(line)
    PROVE  /\ Len(line) \in 1 .. Len(line \o t)
           /\ Channel!IsFirstLine(Len(line), line \o t)
           /\ SubSeq(line \o t, 1, Len(line)) = line
           /\ SubSeq(line \o t, Len(line) + 1, Len(line \o t)) = t
<1>1. /\ Len(line \o t) = Len(line) + Len(t)
      /\ \A i \in 1 .. Len(line) : (line \o t)[i] = line[i]
      /\ SubSeq(line \o t, 1, Len(line)) = line
      /\ SubSeq(line \o t, Len(line) + 1, Len(line \o t)) = t
  BY Unjoin
<1>2. Len(line) \in Nat /\ Len(t) \in Nat /\ Len(line) >= 1
  BY LenProperties DEF Finished
<1>3. Len(line) \in 1 .. Len(line \o t)
  BY <1>1, <1>2
<1>4. Len(line) < MaxLine
  BY <1>2, MaxLineAssumption DEF Finished
<1>5. \A i \in 1 .. Len(line) - 1 : (line \o t)[i] # Newline
  BY <1>1, <1>2 DEF Finished
<1>6. (line \o t)[Len(line)] = Newline \/ Len(line) = MaxLine - 1
  BY <1>1, <1>2 DEF Finished
<1> QED
  BY <1>1, <1>3, <1>4, <1>5, <1>6 DEF Channel!IsFirstLine

\* The fields of a well-formed pipe.
LEMMA Fields ==
    ASSUME NEW p \in Pipe
    PROVE  /\ p.rbuf \in Seq(Bytes) /\ p.wire \in Seq(Bytes)
           /\ p.out \in Seq(Bytes) /\ p.line \in Seq(Bytes)
           /\ p.rbuf \o p.wire \in Seq(Bytes) /\ Unread(p) \in Seq(Bytes)
           /\ Pending(p) \in Seq(Bytes)
<1>1. /\ p.rbuf \in Seq(Bytes) /\ p.wire \in Seq(Bytes)
      /\ p.out \in Seq(Bytes) /\ p.line \in Seq(Bytes)
  BY DEF Pipe
<1>2. p.rbuf \o p.wire \in Seq(Bytes)
  BY <1>1, ConcatProperties
<1>3. Unread(p) \in Seq(Bytes)
  BY <1>1, <1>2, ConcatProperties DEF Unread
<1>4. p.line \o Unread(p) \in Seq(Bytes)
  BY <1>1, <1>3, ConcatProperties
<1> QED
  BY <1>1, <1>2, <1>3, <1>4, EmptyIsSeq DEF Pending

\* Bytes that are added to "out" come after everything else.
LEMMA OutIsLast ==
    ASSUME NEW p \in Pipe, ~Deserted(p), NEW msg \in Seq(Bytes)
    PROVE  LET before == [p EXCEPT !.out = <<>>]
           IN  /\ before \in Pipe /\ ~Deserted(before)
               /\ Pending([p EXCEPT !.out = msg]) = Pending(before) \o msg
<1> DEFINE before == [p EXCEPT !.out = <<>>]
           after == [p EXCEPT !.out = msg]
           head == p.rbuf \o p.wire
<1>1. before \in Pipe /\ after \in Pipe
  BY EmptyIsSeq DEF Pipe
<1>2. ~Deserted(before) /\ ~Deserted(after)
  BY DEF Pipe, Deserted
<1>3. p.line \in Seq(Bytes) /\ head \in Seq(Bytes)
  BY Fields
<1>4. Unread(before) = head /\ Unread(after) = head \o msg
  <2>1. Unread(before) = head \o <<>> /\ Unread(after) = head \o msg
    BY DEF Unread, Pipe
  <2> QED
    BY <1>3, <2>1, NoBytes
<1>5. /\ before.reader = p.reader /\ after.reader = p.reader
      /\ before.line = p.line /\ after.line = p.line
  BY DEF Pipe
<1> HIDE DEF before, after, head
<1>6. Pending(after) = Pending(before) \o msg
  <2>1. (p.line \o head) \o msg = p.line \o (head \o msg)
    BY <1>3, Assoc
  <2>2. CASE p.reader = "reading"
    BY <1>2, <1>4, <1>5, <2>1, <2>2 DEF Pending
  <2>3. CASE p.reader # "reading"
    BY <1>2, <1>4, <1>5, <2>3 DEF Pending
  <2> QED
    BY <2>2, <2>3
<1> QED
  BY <1>1, <1>2, <1>6 DEF before, after

\* A write() moves bytes from "out" to "wire" and changes nothing else.
LEMMA WriteKeeps ==
    ASSUME NEW p \in Pipe, NEW n \in 1 .. Len(p.out), ~Deserted(p)
    PROVE  Pending(Write(p, n)) = Pending(p) /\ Got(Write(p, n)) = Got(p)
<1>1. /\ p.rbuf \in Seq(Bytes) /\ p.wire \in Seq(Bytes)
      /\ p.out \in Seq(Bytes) /\ p.rbuf \o p.wire \in Seq(Bytes)
  BY Fields
<1>2. n \in 0 .. Len(p.out)
  BY <1>1, LenProperties
<1>3. /\ First(p.out, n) \in Seq(Bytes) /\ Rest(p.out, n) \in Seq(Bytes)
      /\ First(p.out, n) \o Rest(p.out, n) = p.out
  BY <1>1, <1>2, Split
<1> DEFINE a == First(p.out, n)
           b == Rest(p.out, n)
<1>4. /\ Write(p, n).rbuf = p.rbuf /\ Write(p, n).wire = p.wire \o a
      /\ Write(p, n).out = b /\ Write(p, n).line = p.line
      /\ Write(p, n).reader = p.reader
  BY DEF Write, Pipe
<1> HIDE DEF a, b
<1>5. (p.rbuf \o (p.wire \o a)) \o b = (p.rbuf \o p.wire) \o p.out
  <2>1. p.rbuf \o (p.wire \o a) = (p.rbuf \o p.wire) \o a
    BY <1>1, <1>3, Assoc, ZenonT(30) DEF a
  <2>2. ((p.rbuf \o p.wire) \o a) \o b = (p.rbuf \o p.wire) \o (a \o b)
    BY <1>1, <1>3, Assoc DEF a, b
  <2> QED
    BY <1>3, <2>1, <2>2 DEF a, b
<1>6. Unread(Write(p, n)) = Unread(p)
  BY <1>4, <1>5 DEF Unread
<1> QED
  BY <1>4, <1>6 DEF Pending, Got, Deserted

\* Filling a line loses none of the unread bytes and keeps their order.
LEMMA FilledKeeps ==
    ASSUME NEW p \in Pipe, Unfinished(p.line)
    PROVE  Filled(p).line \o Unread(Filled(p)) = p.line \o Unread(p)
<1> DEFINE f == Filled(p)
<1>1. /\ f \in Pipe /\ f.line \o f.rbuf = p.line \o p.rbuf
      /\ f.wire = p.wire /\ f.out = p.out
  BY FilledIs
<1> HIDE DEF f
<1>2. \A q \in Pipe :
         q.line \o Unread(q) = ((q.line \o q.rbuf) \o q.wire) \o q.out
  <2> SUFFICES ASSUME NEW q \in Pipe
               PROVE  q.line \o Unread(q)
                        = ((q.line \o q.rbuf) \o q.wire) \o q.out
    OBVIOUS
  <2>1. /\ q.rbuf \in Seq(Bytes) /\ q.wire \in Seq(Bytes)
        /\ q.out \in Seq(Bytes) /\ q.line \in Seq(Bytes)
        /\ q.rbuf \o q.wire \in Seq(Bytes)
    BY Fields
  <2>2. (q.line \o (q.rbuf \o q.wire)) \o q.out
          = q.line \o ((q.rbuf \o q.wire) \o q.out)
    BY <2>1, Assoc
  <2>3. (q.line \o q.rbuf) \o q.wire = q.line \o (q.rbuf \o q.wire)
    BY <2>1, Assoc
  <2> QED
    BY <2>2, <2>3 DEF Unread
<1>3. /\ f.line \o Unread(f) = ((f.line \o f.rbuf) \o f.wire) \o f.out
      /\ p.line \o Unread(p) = ((p.line \o p.rbuf) \o p.wire) \o p.out
  BY <1>1, <1>2
<1>4. f.line \o Unread(f) = p.line \o Unread(p)
  BY <1>1, <1>3
<1> QED
  BY <1>4 DEF f

-----------------------------------------------------------------------------
(* What a step of LineChannel does, for a pipe p that becomes q.             *)

SameWriter(p, q) == q.writer = "open" <=> p.writer = "open"
SameReader(p, q) == Deserted(q) <=> Deserted(p)

PutStep(p, q) ==
    /\ p.writer = "open"
    /\ IF ~Deserted(p) THEN Channel!IsPrefixOf(Pending(p), Pending(q))
                      ELSE Pending(q) = <<>>
    /\ Got(q) = Got(p) /\ SameWriter(p, q) /\ SameReader(p, q)

AskStep(p, q) ==
    /\ Got(q) = NoLine
    /\ Pending(q) = Pending(p) /\ SameWriter(p, q) /\ SameReader(p, q)

TakeStep(p, q) ==
    /\ ~Deserted(p)
    /\ \E n \in 1 .. Len(Pending(p)) :
          /\ Channel!IsFirstLine(n, Pending(p))
          /\ Got(q) = SubSeq(Pending(p), 1, n)
          /\ Pending(q) = SubSeq(Pending(p), n + 1, Len(Pending(p)))
    /\ SameWriter(p, q) /\ SameReader(p, q)

TakeRestStep(p, q) ==
    /\ p.writer # "open" /\ ~Deserted(p)
    /\ Got(q) \in {Pending(p), NoLine} /\ Pending(q) = <<>>
    /\ SameWriter(p, q) /\ SameReader(p, q)

HangStep(p, q) ==
    /\ p.writer = "open" /\ q.writer # "open"
    /\ Channel!IsPrefixOf(Pending(q), Pending(p))
    /\ Got(q) = Got(p) /\ SameReader(p, q)

LeaveStep(p, q) ==
    /\ ~Deserted(p) /\ Deserted(q)
    /\ Pending(q) = <<>> /\ Got(q) = NoLine
    /\ SameWriter(p, q)

NoStep(p, q) ==
    /\ Pending(q) = Pending(p) /\ Got(q) = Got(p)
    /\ SameWriter(p, q) /\ SameReader(p, q)

ChannelStep(p, q) ==
    \/ PutStep(p, q) \/ AskStep(p, q) \/ TakeStep(p, q) \/ TakeRestStep(p, q)
    \/ HangStep(p, q) \/ LeaveStep(p, q) \/ NoStep(p, q)

\* A call of rio_readlineb, or of read() in it, takes the first line or none.
LEMMA FilledTakes ==
    ASSUME NEW p, NEW q, ~Deserted(p), NEW r \in Pipe, Unfinished(r.line),
           Pending(p) = r.line \o Unread(r),
           r.writer = p.writer, q = Filled(r)
    PROVE  TakeStep(p, q) \/ AskStep(p, q)
<1>1. /\ q \in Pipe /\ q.writer = p.writer
      /\ \/ q.reader = "line" /\ Finished(q.line)
         \/ q.reader = "reading" /\ q.rbuf = <<>>
  BY FilledIs
<1>2. q.line \o Unread(q) = Pending(p)
  BY FilledKeeps
<1>3. ~Deserted(q)
  BY <1>1 DEF Deserted
<1>4. q.line \in Seq(Bytes) /\ Unread(q) \in Seq(Bytes)
  BY <1>1, Fields
<1>5. CASE q.reader = "line"
  <2>1. Pending(q) = Unread(q) /\ Got(q) = q.line
    BY <1>3, <1>5 DEF Pending, Got
  <2> DEFINE n == Len(q.line)
  <2>2. /\ n \in 1 .. Len(Pending(p))
        /\ Channel!IsFirstLine(n, Pending(p))
        /\ SubSeq(Pending(p), 1, n) = q.line
        /\ SubSeq(Pending(p), n + 1, Len(Pending(p))) = Unread(q)
    <3>1. Finished(q.line)
      BY <1>1, <1>5
    <3>2. /\ n \in 1 .. Len(q.line \o Unread(q))
          /\ Channel!IsFirstLine(n, q.line \o Unread(q))
          /\ SubSeq(q.line \o Unread(q), 1, n) = q.line
          /\ SubSeq(q.line \o Unread(q), n + 1,
                    Len(q.line \o Unread(q))) = Unread(q)
      BY <1>4, <3>1, FirstLineIs
    <3> QED
      BY <1>2, <3>2
  <2> HIDE DEF n
  <2> QED
    BY <1>1, <1>3, <2>1, <2>2 DEF TakeStep, SameWriter, SameReader
<1>6. CASE q.reader = "reading"
  BY <1>1, <1>2, <1>3, <1>6 DEF Pending, Got, AskStep, SameWriter, SameReader
<1> QED
  BY <1>1, <1>5, <1>6

LEMMA ReadLineTakes ==
    ASSUME NEW p, NEW q, PipeOK(p), CanReadLine(p), q = ReadLine(p)
    PROVE  TakeStep(p, q) \/ AskStep(p, q)
<1> DEFINE r == [p EXCEPT !.line = <<>>]
<1>1. r \in Pipe /\ Unfinished(r.line) /\ q = Filled(r)
  BY StartsReading DEF PipeOK, ReadLine
<1>2. ~Deserted(p) /\ Pending(p) = Unread(p)
  BY DEF CanReadLine, Deserted, Pending
<1>3. /\ r.line = <<>> /\ Unread(r) = Unread(p)
      /\ r.writer = p.writer /\ Unread(p) \in Seq(Bytes)
  BY Fields DEF PipeOK, Pipe, Unread
<1> HIDE DEF r
<1>4. Pending(p) = r.line \o Unread(r)
  BY <1>2, <1>3, NoBytes
<1> QED
  BY <1>1, <1>2, <1>3, <1>4, FilledTakes

LEMMA RefillTakes ==
    ASSUME NEW p, NEW q, PipeOK(p), NEW n \in 1 .. Len(p.wire), CanRefill(p, n),
           q = Refill(p, n)
    PROVE  TakeStep(p, q) \/ AskStep(p, q)
<1> DEFINE r == [p EXCEPT !.rbuf = First(p.wire, n), !.wire = Rest(@, n)]
<1>1. r \in Pipe /\ Unfinished(r.line) /\ q = Filled(r)
  BY GoesOnReading DEF PipeOK, Refill
<1>2. /\ ~Deserted(p) /\ Pending(p) = p.line \o Unread(p)
      /\ p.rbuf = <<>> /\ p.wire \in Seq(Bytes)
  BY DEF CanRefill, Deserted, Pending, PipeOK, Pipe
<1>3. Unread(r) = Unread(p)
  <2>1. n \in 0 .. Len(p.wire)
    BY <1>2, LenProperties
  <2>2. First(p.wire, n) \o Rest(p.wire, n) = p.wire
    BY <1>2, <2>1, Split
  <2>3. p.rbuf \o p.wire = p.wire
    BY <1>2, NoBytes
  <2>4. /\ r.rbuf = First(p.wire, n) /\ r.wire = Rest(p.wire, n)
        /\ r.out = p.out
    BY DEF PipeOK, Pipe
  <2> QED
    BY <2>2, <2>3, <2>4 DEF Unread
<1>4. r.line = p.line /\ r.writer = p.writer
  BY DEF PipeOK, Pipe
<1> HIDE DEF r
<1>5. Pending(p) = r.line \o Unread(r)
  BY <1>2, <1>3, <1>4
<1> QED
  BY <1>1, <1>2, <1>4, <1>5, FilledTakes

\* At the end of the file what is left is a line without a newline.
LEMMA MeetEndTakes ==
    ASSUME NEW p, NEW q, PipeOK(p), MeetsEnd(p), q = MeetEnd(p)
    PROVE  TakeRestStep(p, q)
<1>1. /\ p.reader = "reading" /\ p.writer # "open"
      /\ p.rbuf = <<>> /\ p.wire = <<>> /\ p.out = <<>>
      /\ p.line \in Seq(Bytes) /\ p \in Pipe
  BY DEF MeetsEnd, PipeOK, Pipe
<1>2. /\ q.reader \in {"error", "eof", "line"}
      /\ q.line = p.line /\ q.writer = p.writer
      /\ q.rbuf = <<>> /\ q.wire = <<>> /\ q.out = <<>>
  BY <1>1 DEF MeetEnd, Pipe
<1>3. Unread(p) = <<>> /\ Unread(q) = <<>>
  BY <1>1, <1>2, EmptyIsSeq, NoBytes DEF Unread
<1>4. ~Deserted(p) /\ ~Deserted(q)
  BY <1>1, <1>2 DEF Deserted
<1>5. Pending(p) = p.line
  BY <1>1, <1>3, <1>4, NoBytes DEF Pending
<1>6. Pending(q) = <<>> /\ Got(q) \in {Pending(p), NoLine}
  BY <1>2, <1>3, <1>4, <1>5 DEF Pending, Got
<1> QED
  BY <1>1, <1>2, <1>4, <1>6 DEF TakeRestStep, SameWriter, SameReader

LEMMA DesertedIsEmpty == \A p : Deserted(p) => Pending(p) = <<>>
BY DEF Pending, Deserted

LEMMA CallWritePuts ==
    ASSUME NEW p, NEW q, PipeOK(p), NEW msg \in Seq(Bytes), CanCallWrite(p),
           q = CallWrite(p, msg)
    PROVE  PutStep(p, q)
<1>1. /\ p \in Pipe /\ p.out = <<>> /\ p.writer = "open"
      /\ q.writer = "open" /\ q.reader = p.reader
      /\ q.line = p.line
  BY DEF PipeOK, Pipe, CanCallWrite, CallWrite
<1>2. Got(q) = Got(p) /\ (Deserted(q) <=> Deserted(p))
  BY <1>1 DEF Got, Deserted
<1>3. CASE Deserted(p)
  BY <1>1, <1>2, <1>3, DesertedIsEmpty DEF PutStep, SameWriter, SameReader
<1>4. CASE ~Deserted(p)
  <2>1. [p EXCEPT !.out = <<>>] = p
    BY <1>1 DEF Pipe
  <2>2. Pending(q) = Pending(p) \o msg
    BY <1>1, <1>4, <2>1, OutIsLast DEF CallWrite
  <2>3. Pending(p) \in Seq(Bytes)
    BY <1>1, Fields
  <2>4. Channel!IsPrefixOf(Pending(p), Pending(q))
    BY <2>2, <2>3, PrefixIs
  <2> QED
    BY <1>1, <1>2, <1>4, <2>4 DEF PutStep, SameWriter, SameReader
<1> QED
  BY <1>3, <1>4

LEMMA HungHangs ==
    ASSUME NEW p, NEW q, PipeOK(p), NEW how \in {"closed", "reset"}, p.writer = "open",
           q = Hung(p, how)
    PROVE  HangStep(p, q)
<1>1. /\ p \in Pipe /\ q \in Pipe /\ q.writer # "open"
      /\ q.reader = p.reader /\ q.line = p.line
  BY EmptyIsSeq DEF PipeOK, Pipe, Hung
<1>2. Got(q) = Got(p) /\ (Deserted(q) <=> Deserted(p))
  BY <1>1 DEF Got, Deserted
<1>3. Channel!IsPrefixOf(Pending(q), Pending(p))
  <2>1. CASE Deserted(p)
    <3>1. Pending(p) = <<>> /\ Pending(q) = <<>>
      BY <1>2, <2>1, DesertedIsEmpty
    <3>2. Channel!IsPrefixOf(<<>>, <<>> \o <<>>)
      BY EmptyIsSeq, PrefixIs
    <3> QED
      BY <3>1, <3>2, EmptyIsSeq, NoBytes
  <2>2. CASE ~Deserted(p)
    <3> DEFINE before == [p EXCEPT !.out = <<>>]
    <3>1. p.out \in Seq(Bytes) /\ [p EXCEPT !.out = p.out] = p
      BY <1>1 DEF Pipe
    <3>2. /\ before \in Pipe
          /\ Pending([p EXCEPT !.out = p.out])
                = Pending(before) \o p.out
      BY <1>1, <2>2, <3>1, OutIsLast
    <3>3. Pending(q) = Pending(before)
      BY <1>1 DEF Hung, Pending, Unread, Deserted, Pipe
    <3> HIDE DEF before
    <3>4. Channel!IsPrefixOf(Pending(before), Pending(before) \o p.out)
      BY <3>1, <3>2, Fields, PrefixIs
    <3> QED
      BY <3>1, <3>2, <3>3, <3>4
  <2> QED
    BY <2>1, <2>2
<1> QED
  BY <1>1, <1>2, <1>3 DEF HangStep, SameWriter, SameReader

\* Every call is a step of the channel.
LEMMA StepRefines ==
    ASSUME NEW p, NEW q, PipeOK(p), Sends(p, q) \/ Receives(p, q)
    PROVE  ChannelStep(p, q)
<1>1. ASSUME NEW msg \in Seq(Bytes),
             CanCallWrite(p), q = CallWrite(p, msg)
      PROVE  PutStep(p, q)
  BY <1>1, CallWritePuts
<1>2. ASSUME NEW n \in 1 .. Len(p.out),
             CanWrite(p, n), q = Write(p, n)
      PROVE  NoStep(p, q)
  <2>1. Pending(q) = Pending(p) /\ Got(q) = Got(p)
    BY <1>2, WriteKeeps DEF PipeOK, CanWrite
  <2>2. /\ q.writer = p.writer
        /\ (Deserted(q) <=> Deserted(p))
    BY <1>2 DEF PipeOK, Pipe, Write, Deserted
  <2> QED
    BY <2>1, <2>2 DEF NoStep, SameWriter, SameReader
<1>3. ASSUME CanWriteInVain(p), q = WriteInVain(p)
      PROVE  NoStep(p, q)
  <2>1. Deserted(p) /\ Deserted(q) /\ q.writer = p.writer
    BY <1>3 DEF CanWriteInVain, WriteInVain, Deserted, PipeOK, Pipe
  <2>2. Got(p) = NoLine /\ Got(q) = NoLine
    BY <2>1 DEF Got, Deserted
  <2> QED
    BY <2>1, <2>2, DesertedIsEmpty DEF NoStep, SameWriter, SameReader
<1>4. ASSUME NEW how \in {"closed", "reset"}, p.writer = "open",
             q = Hung(p, how)
      PROVE  HangStep(p, q)
  BY <1>4, HungHangs
<1>5. ASSUME CanReadLine(p), q = ReadLine(p)
      PROVE  TakeStep(p, q) \/ AskStep(p, q)
  BY <1>5, ReadLineTakes
<1>6. ASSUME NEW n \in 1 .. Len(p.wire),
             CanRefill(p, n), q = Refill(p, n)
      PROVE  TakeStep(p, q) \/ AskStep(p, q)
  BY <1>6, RefillTakes
<1>7. ASSUME MeetsEnd(p), q = MeetEnd(p)
      PROVE  TakeRestStep(p, q)
  BY <1>7, MeetEndTakes
<1>8. ASSUME ~Deserted(p), q = Left(p)
      PROVE  LeaveStep(p, q)
  <2>1. Deserted(q) /\ q.writer = p.writer
    BY <1>8 DEF Left, Deserted, PipeOK, Pipe
  <2>2. Pending(q) = <<>> /\ Got(q) = NoLine
    BY <2>1 DEF Pending, Got, Deserted
  <2> QED
    BY <1>8, <2>1, <2>2 DEF LeaveStep, SameWriter
<1> QED
  BY <1>1, <1>2, <1>3, <1>4, <1>5, <1>6, <1>7, <1>8 DEF Sends, Receives, ChannelStep

LEMMA ChannelStepIs == ChannelStep(pipe, pipe') => [Channel!Next]_(Channel!vars)
<1>1. PutStep(pipe, pipe') => Channel!Put
  BY DEF PutStep, Channel!Put, SameWriter, SameReader
<1>2. AskStep(pipe, pipe') => Channel!Ask
  BY DEF AskStep, Channel!Ask, SameWriter, SameReader
<1>3. TakeStep(pipe, pipe') => Channel!Take
  BY DEF TakeStep, Channel!Take, SameWriter, SameReader
<1>4. TakeRestStep(pipe, pipe') => Channel!TakeRest
  BY DEF TakeRestStep, Channel!TakeRest, SameWriter, SameReader
<1>5. HangStep(pipe, pipe') => Channel!Hang
  BY DEF HangStep, Channel!Hang, SameReader
<1>6. LeaveStep(pipe, pipe') => Channel!Leave
  BY DEF LeaveStep, Channel!Leave, SameWriter
<1>7. NoStep(pipe, pipe') => UNCHANGED Channel!vars
  BY DEF NoStep, Channel!vars, SameWriter, SameReader
<1> QED
  BY <1>1, <1>2, <1>3, <1>4, <1>5, <1>6, <1>7 DEF ChannelStep, Channel!Next

-----------------------------------------------------------------------------
(* The specification *)

PipeInv == PipeOK(pipe)

LEMMA PipeInvInit == PipeInit => PipeInv
BY EmptyIsSeq DEF PipeInit, PipeInv, PipeOK, NewPipe, Pipe

LEMMA PipeStep == PipeInv /\ [PipeNext]_pipe => PipeInv'
<1> SUFFICES ASSUME PipeInv, [PipeNext]_pipe
             PROVE  PipeInv'
  OBVIOUS
<1>1. CASE PipeNext
  BY <1>1, StepKeepsOK DEF PipeInv, PipeNext
<1>2. CASE UNCHANGED pipe
  BY <1>2 DEF PipeInv
<1> QED
  BY <1>1, <1>2

(* In every state of a pipe, what is in it is well formed: the type of every *)
(* field, and that neither a line in the making nor the bytes of a writer    *)
(* that has gone are anywhere else than the code looks for them.             *)
THEOREM PipeTyped == PipeSpec => []PipeInv
BY PipeInvInit, PipeStep, PTL DEF PipeSpec

(* However the kernel cuts what is written and read, and whoever leaves      *)
(* first, a pipe is a channel of lines: rio_writen and rio_readlineb deliver *)
(* the bytes in order, a line at a time, and lose none of them while both    *)
(* ends stay.                                                                *)
THEOREM PipeCarriesLines == PipeSpec => CarriesLines
<1>1. PipeInit => Channel!Init
  BY EmptyIsSeq, NoBytes
  DEF PipeInit, NewPipe, Channel!Init, Pending, Got, Unread, Deserted
<1>2. PipeInv /\ [PipeNext]_pipe => [Channel!Next]_(Channel!vars)
  <2> SUFFICES ASSUME PipeInv, [PipeNext]_pipe
               PROVE  [Channel!Next]_(Channel!vars)
    OBVIOUS
  <2>1. CASE PipeNext
    BY <2>1, StepRefines, ChannelStepIs DEF PipeInv, PipeNext
  <2>2. CASE UNCHANGED pipe
    BY <2>2 DEF Channel!vars, Pending, Got, Unread, Deserted
  <2> QED
    BY <2>1, <2>2
<1> QED
  BY <1>1, <1>2, PipeTyped, PTL DEF PipeSpec, CarriesLines, Channel!Spec

=============================================================================
