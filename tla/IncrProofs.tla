----------------------------- MODULE IncrProofs -----------------------------
(***************************************************************************)
(* Theorems about IncrClients, for any number of clients: what the counter *)
(* says of the increments, and that somebody gets through.                 *)
(***************************************************************************)
EXTENDS IncrClients, TxServerProofs, FiniteSetTheorems

-----------------------------------------------------------------------------
(* Where a client is in its program, and the thread of the server with it *)

NextOf(c) == Program(c)[step[c]]
Idle(c, reply) == pc[c] = "read" /\ replies[c] = <<reply>>
Own(c) == buffer[c][Table][Key]

(* Before BEGIN, or before GET without -t.                                   *)
Fresh(c) == ~inTxn[c] /\ stack[c] = <<>> /\ Own(c) = None

(* Between two requests of which the first has taken the lock.               *)
Open(c, depth) ==
    /\ Idle(c, "ok") /\ Len(stack[c]) = depth /\ Own(c) = None
    /\ IF c \in transactional THEN inTxn[c] /\ locked[c] = {Table} ELSE ~inTxn[c]

(* The GET has been refused, or is going to be.                              *)
Refused(c) ==
    /\ NextOf(c) = "PUSH"
    /\ \/ Idle(c, "failed") \/ pc[c] \in {"undo", "free", "closed"}
       \/ pc[c] = "drop" /\ then[c] = "failed"

Reading(c) == pc[c] = "drop" /\ ~inTxn[c] /\ replies[c] = <<>>
Writing(c) ==
    /\ pc[c] \in {"lock", "write", "save", "unlock"}
    /\ then[c] = "ok" /\ replies[c] = <<>>
    /\ req[c][1] = Table /\ req[c][2] = Key
RollingBack(c) ==
    /\ pc[c] \in {"undo", "free"} /\ then[c] = "failget" /\ replies[c] = <<>>
    /\ inTxn[c] /\ locked[c] = {Table} /\ req[c] = <<Table, Key, None>>
Committing(c) ==
    /\ pc[c] \in {"apply", "publish", "release"} /\ replies[c] = <<>>
    /\ inTxn[c] /\ locked[c] = {Table} /\ Own(c) # None

AfterGet(c) ==
    \/ Open(c, 1)
    \/ Idle(c, "failed") /\ ~inTxn[c]
    \/ IF c \in transactional
         THEN RollingBack(c)
         ELSE Reading(c) /\ (then[c] = "failed" \/ (then[c] = "ok" /\ Len(stack[c]) = 1))
              /\ Own(c) = None

Running(c) ==
    \/ NextOf(c) = "CONNECT" /\ pc[c] = "new" /\ Fresh(c)
    \/ NextOf(c) = "LOGIN" /\ pc[c] = "login" /\ Fresh(c)
    \/ NextOf(c) = "BEGIN" /\ Idle(c, "ok") /\ Fresh(c)
    \/ /\ NextOf(c) = "GET" /\ Idle(c, "ok") /\ stack[c] = <<>> /\ Own(c) = None
       /\ (inTxn[c] <=> c \in transactional) /\ locked[c] = {}
    \/ NextOf(c) = "PUSH" /\ AfterGet(c)
    \/ NextOf(c) = "ADD" /\ Open(c, 2) /\ stack[c][2] = 1
    \/ NextOf(c) = "SET" /\ Open(c, 1)
    \/ /\ NextOf(c) = "COMMIT" /\ Idle(c, "ok")
       /\ inTxn[c] /\ locked[c] = {Table} /\ Own(c) # None
    \/ /\ NextOf(c) = "BYE"
       /\ \/ Idle(c, "ok") /\ ~inTxn[c]
          \/ IF c \in transactional THEN Committing(c) ELSE Writing(c) /\ ~inTxn[c]

ClientOK(c) ==
    /\ step[c] \in 1 .. Len(Program(c))
    /\ result[c] \in {"running", "ok", "failed"}
    /\ result[c] = "running" => Running(c)
    /\ result[c] = "ok" => NextOf(c) = "BYE" /\ pc[c] = "closed"
    /\ result[c] = "failed" => NextOf(c) = "PUSH" /\ pc[c] = "closed" /\ ~inTxn[c]

ClientsInv ==
    /\ transactional \subseteq Conns
    /\ step \in [Conns -> Nat] /\ DOMAIN result = Conns
    /\ \A c \in Conns : ClientOK(c)
    /\ tables = {Table} /\ owner[Table] # Junk

-----------------------------------------------------------------------------
(* The values on their way *)

Attempts == Cardinality({c \in Conns : HasSet(c)})
Bounded(v) == v \in Vals /\ v <= Attempts

ValuesOK(c) ==
    result[c] = "running" =>
        /\ NextOf(c) = "PUSH" /\ ~Refused(c) => Bounded(stack[c][1])
        /\ NextOf(c) = "ADD" => Bounded(stack[c][1])
        /\ NextOf(c) = "SET" => stack[c][1] \in Nat /\ stack[c][1] <= Attempts + 1
        /\ NextOf(c) = "COMMIT" => Bounded(Own(c))
        /\ NextOf(c) = "BYE" =>
             /\ pc[c] \in {"apply", "publish", "release"} => Bounded(Own(c))
             /\ pc[c] \in {"lock", "write", "save"} => Bounded(req[c][3])

ValuesInv ==
    /\ Bounded(Count)
    /\ temp[Table][Key] = None \/ Bounded(temp[Table][Key])
    /\ \A c \in Conns : ValuesOK(c)

-----------------------------------------------------------------------------
(* Somebody gets through *)

Safe(c) == NextOf(c) \in {"PUSH", "ADD", "SET", "COMMIT", "BYE"} /\ ~Refused(c)
HopeInv == \A c \in Conns : Refused(c) => \E d \in Conns : Safe(d)

-----------------------------------------------------------------------------
(* The count is exact *)

Unpublished(c) ==
    \/ pc[c] = "apply" \/ (pc[c] = "publish" /\ Table \in todo[c])
Counted(c) == NextOf(c) = "BYE" /\ ~Unpublished(c)

ExactOK(c) ==
    result[c] = "running" =>
        /\ NextOf(c) = "PUSH" /\ ~Refused(c) => stack[c][1] = Count
        /\ NextOf(c) = "ADD" => stack[c][1] = Count
        /\ NextOf(c) = "SET" => stack[c][1] = Count + 1
        /\ NextOf(c) = "COMMIT" => Own(c) = Count + 1
        /\ NextOf(c) = "BYE" /\ Unpublished(c) =>
             /\ Own(c) = Count + 1
             /\ temp[Table][Key] = IF pc[c] = "apply" /\ <<Table, Key>> \in writes[c]
                                     THEN None ELSE Own(c)

ExactInv ==
    transactional = Conns /\ robbed = {} =>
        /\ Count = Cardinality({c \in Conns : Counted(c)})
        /\ \A c \in Conns : ExactOK(c)


-----------------------------------------------------------------------------
(* The programs of the clients *)

(* What comes after a request, and which requests come after the SET.        *)
LEMMA Programs ==
    ASSUME NEW c, NEW i \in 1 .. Len(Program(c))
    PROVE  LET p == Program(c)
           IN  /\ p[i] # "BYE" => i + 1 \in 1 .. Len(p)
               /\ p[i] = "CONNECT" => p[i + 1] = "LOGIN"
               /\ p[i] = "LOGIN" =>
                    p[i + 1] = IF c \in transactional THEN "BEGIN" ELSE "GET"
               /\ p[i] = "BEGIN" => p[i + 1] = "GET" /\ c \in transactional
               /\ p[i] = "GET" => p[i + 1] = "PUSH"
               /\ p[i] = "PUSH" => p[i + 1] = "ADD"
               /\ p[i] = "ADD" => p[i + 1] = "SET"
               /\ p[i] = "SET" =>
                    p[i + 1] = IF c \in transactional THEN "COMMIT" ELSE "BYE"
               /\ p[i] = "COMMIT" => p[i + 1] = "BYE" /\ c \in transactional
               /\ p[1] = "CONNECT" /\ 1 \in 1 .. Len(p)
               /\ (\E j \in 1 .. i - 1 : p[j] = "SET") <=> p[i] \in {"COMMIT", "BYE"}
<1>1. CASE c \in transactional
  <2>1. /\ Program(c) = <<"CONNECT", "LOGIN", "BEGIN", "GET", "PUSH", "ADD",
                           "SET", "COMMIT", "BYE">>
        /\ i \in 1 .. 9
    BY <1>1 DEF Program
  <2>2. QED
    BY <1>1, <2>1
<1>2. CASE c \notin transactional
  <2>1. /\ Program(c) = <<"CONNECT", "LOGIN", "GET", "PUSH", "ADD", "SET", "BYE">>
        /\ i \in 1 .. 7
    BY <1>2 DEF Program
  <2>2. QED
    BY <1>2, <2>1
<1>3. QED
  BY <1>1, <1>2

HasSetNow(c) == NextOf(c) \in {"COMMIT", "BYE"}

LEMMA HasSetIs ==
    ASSUME NEW c \in Conns, ClientOK(c)
    PROVE  HasSet(c) <=> HasSetNow(c)
  BY Programs DEF ClientOK, HasSet, HasSetNow, NextOf

(* A client that has sent a request waits to send the next one.              *)
LEMMA Advanced ==
    ASSUME ClientsInv, NEW c \in Conns, result[c] = "running", Advance(c),
           NextOf(c) # "BYE"
    PROVE  /\ step'[c] \in 1 .. Len(Program(c)')
           /\ result' = result /\ transactional' = transactional
           /\ step' \in [Conns -> Nat]
           /\ NextOf(c)' = Program(c)[step[c] + 1]
           /\ \A d \in Conns \ {c} : step'[d] = step[d]
<1>1. /\ step \in [Conns -> Nat] /\ step[c] \in 1 .. Len(Program(c))
  BY DEF ClientsInv, ClientOK
<1>2. /\ step' = [step EXCEPT ![c] = @ + 1] /\ result' = result
      /\ transactional' = transactional
  BY DEF Advance
<1>3. Program(c)' = Program(c)
  BY <1>2 DEF Program
<1>4. step[c] + 1 \in 1 .. Len(Program(c))
  BY <1>1, Programs DEF NextOf
<1>5. QED
  BY <1>1, <1>2, <1>3, <1>4 DEF NextOf

LEMMA Exited ==
    ASSUME ClientsInv, NEW c \in Conns, NEW r, Exit(c, r)
    PROVE  /\ step' = step /\ transactional' = transactional
           /\ result'[c] = r /\ DOMAIN result' = Conns
           /\ \A d \in Conns \ {c} : result'[d] = result[d]
           /\ \A d \in Conns : NextOf(d)' = NextOf(d)
  BY DEF ClientsInv, Exit, NextOf, Program

(* Every step of a client or its thread is one of the server, and none ends  *)
(* the server.                                                               *)
LEMMA ServerStep ==
    ASSUME TypeOK, ClientsInv, ValuesInv, NEW c \in Conns, Client(c) \/ Thread(c)
    PROVE  (Request(c) \/ Internal(c)) /\ ~ArithKills(c) /\ tables' = tables
<1>1. /\ Table \in Tables /\ Key \in Keys /\ Vals = 0 .. Cardinality(Conns)
      /\ IsFiniteSet(Conns)
  BY ClientsAssumption
<1>2. CASE Thread(c)
  <2>1. Internal(c)
    BY <1>2 DEF Thread
  <2>2. tables' = tables
    BY <2>1
    DEF Internal, SetLock, SetWrite, SetSave, UnlockAndReply, FailSet, Apply,
        Publish, Release, Undo, Free, TableSet, CommitChanges, RollbackChanges,
        Unlock, shared
  <2>3. QED
    BY <2>1, <2>2 DEF ClientsInv, ArithKills
<1>3. CASE GiveUp(c)
  BY <1>3 DEF GiveUp, Eof, Disconnect, shared, Request, Session, ClientsInv,
              ArithKills
<1>4. CASE Send(c)
  <2>1. CASE Accept(c) \/ Login(c) \/ Begin(c) \/ Commit(c) \/ Bye(c)
    BY <2>1 DEF Accept, Login, Begin, Commit, Bye, Disconnect, shared, Request,
                Session, ClientsInv, ArithKills
  <2>2. CASE Push(c, 1)
    <3>1. 1 \in Vals
      <4>1. Cardinality(Conns) \in Nat /\ Cardinality(Conns) # 0
        BY <1>1, FS_CardinalityType, FS_EmptySet
      <4>2. QED
        BY <1>1, <4>1
    <3>2. QED
      BY <2>2, <3>1 DEF Push, shared, Request, StackRequest, ClientsInv,
                        ArithKills
  <2>3. CASE /\ ArithOk(c, Sum(stack[c])) /\ Head(replies[c]) = "ok"
             /\ At(c, "ADD")
    <3>1. Open(c, 2) /\ stack[c][2] = 1 /\ Bounded(stack[c][1])
      BY <2>3 DEF ClientsInv, ClientOK, Running, ValuesInv, ValuesOK, At, NextOf
    <3>2. Sum(stack[c]) = stack[c][1] + 1
      BY <3>1 DEF Open, Sum
    <3>3. Attempts \in Nat /\ Attempts < Cardinality(Conns)
      <4> DEFINE S == {d \in Conns : HasSet(d)}
      <4>1. c \notin S
        BY <2>3, HasSetIs DEF ClientsInv, HasSetNow, At, NextOf
      <4>2. S \subseteq Conns /\ S # Conns /\ IsFiniteSet(Conns)
        BY <1>1, <4>1
      <4>3. Cardinality(S) \in Nat /\ Cardinality(S) < Cardinality(Conns)
        BY <4>2, FS_Subset, FS_CardinalityType
      <4>4. QED
        BY <4>3 DEF Attempts
    <3>4. Sum(stack[c]) \in Vals
      <4>1. Cardinality(Conns) \in Nat
        BY <1>1, FS_CardinalityType
      <4>2. QED
        BY <1>1, <3>1, <3>2, <3>3, <4>1 DEF Bounded
    <3>5. QED
      BY <2>3, <3>4 DEF ArithOk, shared, Request, StackRequest, ClientsInv,
                        ArithKills
  <2>4. CASE \/ GetContended(c, Table, Key) \/ GetInTxn(c, Table, Key)
             \/ GetMissing(c, Table, Key) \/ GetAuto(c, Table, Key)
             \/ SetBuffered(c, Table, Key) \/ SetContended(c, Table, Key)
             \/ SetAuto(c, Table, Key)
    <3>1. Request(c)
      BY <1>1, <2>4 DEF Request, TableRequest, OnKey
    <3>2. tables' = tables
      BY <2>4
      DEF GetContended, GetInTxn, GetMissing, GetAuto, SetBuffered, SetContended,
          SetAuto, LockInTxn, shared
    <3>3. QED
      BY <3>1, <3>2 DEF ClientsInv, ArithKills
  <2>5. QED
    BY <1>4, <2>1, <2>2, <2>3, <2>4 DEF Send
<1>5. QED
  BY <1>2, <1>3, <1>4 DEF Client

-----------------------------------------------------------------------------
(* The server's invariants hold of the server with these clients             *)

Base == Known /\ StoredInv

LEMMA BaseInit == IncrInit => Base
<1>1. SUFFICES ASSUME IncrInit PROVE Base
  OBVIOUS
<1>2. TypeOK
  <2>1. 0 \in Vals
    BY ClientsAssumption, FS_CardinalityType
  <2>2. Empty \in Store /\ AllTables(Empty) \in [Tables -> Store]
    BY StoreTypes DEF AllTables
  <2>3. data \in [Tables -> Store]
    BY <1>1, <2>1, <2>2 DEF IncrInit, Store
  <2>4. <<>> \in Seq(Vals) /\ <<>> \in Seq({"ok", "failed", "error"})
    OBVIOUS
  <2>5. SharedTypeOK
    BY <1>1, <2>2, <2>3, ClientsAssumption DEF IncrInit, SharedTypeOK, AllTables
  <2>6. ControlTypeOK
    BY <1>1 DEF IncrInit, ControlTypeOK, Each, Labels, Endings
  <2>7. TxnTypeOK
    BY <1>1, <2>2 DEF IncrInit, TxnTypeOK, Each
  <2>8. OperandTypeOK
    BY <1>1, <2>4 DEF IncrInit, OperandTypeOK, Each
  <2>9. QED
    BY <2>5, <2>6, <2>7, <2>8 DEF TypeOK
<1>3. RequestOK
  BY <1>1 DEF IncrInit, RequestOK, Each
<1>4. LockInv /\ HeldLocksAreOwned
  BY <1>1, NamesAssumption
  DEF IncrInit, LockInv, LockOK, HeldLocksAreOwned, Holds, Each, AllTables
<1>5. ResidueInv /\ SeenInv
  BY <1>1 DEF IncrInit, ResidueInv, SeenInv, SeenOK, Each, AllTables
<1>6. StoredInv
  BY <1>1
  DEF IncrInit, StoredInv, StoredOK, TodoOK, SaveOK, ApplyOK, ReadOK, Each
<1>7. QED
  BY <1>2, <1>3, <1>4, <1>5, <1>6 DEF Base, Known

LEMMA BaseStep ==
    ASSUME Base, [Next]_vars
    PROVE  Base'
<1>1. TypeOK' /\ RequestOK'
  BY TypeInvStep DEF Base, Known
<1>2. LockInv' /\ HeldLocksAreOwned'
  BY LockInvStep, HeldStep DEF Base, Known
<1>3. ResidueInv' /\ SeenInv'
  BY ResidueStep, SeenStep DEF Base, Known
<1>4. StoredInv'
  BY StoredStep DEF Base
<1>5. QED
  BY <1>1, <1>2, <1>3, <1>4 DEF Base, Known

-----------------------------------------------------------------------------
(* A step of c is no step of d                                               *)

(* The requests of a client take it one step on in its program, or end it;   *)
(* the thread that serves it does neither.                                   *)
LEMMA Moves ==
    ASSUME NEW c \in Conns, Client(c) \/ Thread(c)
    PROVE  \/ Advance(c) /\ result[c] = "running" /\ NextOf(c) # "BYE"
           \/ Exit(c, "ok") /\ result[c] = "running"
           \/ Exit(c, "failed") /\ result[c] = "running"
           \/ UNCHANGED clients
<1>1. CASE Send(c)
  BY <1>1 DEF Send, At, NextOf
<1>2. CASE GiveUp(c)
  BY <1>2 DEF GiveUp
<1>3. QED
  BY <1>1, <1>2 DEF Client, Thread

LEMMA OthersStacks ==
    ASSUME TypeOK, NEW c \in Conns, Request(c) \/ Internal(c), ~ArithKills(c),
           NEW d \in Conns, d # c
    PROVE  stack'[d] = stack[d]
<1>1. stack \in [Conns -> Seq(Vals)]
  BY DEF TypeOK, OperandTypeOK
<1>2. CASE Request(c)
  BY <1>1, <1>2, ZenonT(30)
  DEF Request, Session, Accept, AcceptFails, Login, Bye, Eof, Reject, Disconnect,
      StackRequest, Push, Pop, ArithOk, ArithRefused, ArithNoValue, ArithThrows,
      OperandsBack, Pushed, PopOne,
      TableRequest, OnTable, Create, SetRefused, SetNoOperand, GetNoTable, OnKey,
      SetBuffered, SetContended, SetAuto, GetContended, GetInTxn, GetMissing,
      GetAuto, Begin, Commit, operand
<1>3. CASE Internal(c)
  BY <1>3
  DEF Internal, SetLock, SetWrite, SetSave, UnlockAndReply, FailSet, Apply,
      Publish, Release, Undo, Free, operand
<1>4. QED
  BY <1>2, <1>3

(* Nothing of the client d and of its session has changed.                   *)
SameClient(d) ==
    /\ SameFor(d) /\ stack'[d] = stack[d]
    /\ replies'[d] = replies[d] /\ then'[d] = then[d]
    /\ buffer'[d] = buffer[d] /\ writes'[d] = writes[d]
    /\ step'[d] = step[d] /\ result'[d] = result[d]
    /\ transactional' = transactional
    /\ Program(d)' = Program(d) /\ NextOf(d)' = NextOf(d)

LEMMA OthersSame ==
    ASSUME TypeOK, ClientsInv, ValuesInv, NEW c \in Conns, Client(c) \/ Thread(c),
           NEW d \in Conns, d # c
    PROVE  SameClient(d)
<1>1. (Request(c) \/ Internal(c)) /\ ~ArithKills(c)
  BY ServerStep
<1>2. /\ SameFor(d) /\ stack'[d] = stack[d]
      /\ replies'[d] = replies[d] /\ then'[d] = then[d]
      /\ buffer'[d] = buffer[d] /\ writes'[d] = writes[d]
  BY <1>1, OthersUntouched, OthersStacks, OthersReplies, OthersSessions
<1>3. /\ transactional' = transactional
      /\ step'[d] = step[d] /\ result'[d] = result[d]
  BY Moves DEF Advance, Exit, clients, ClientsInv
<1>4. Program(d)' = Program(d)
  BY <1>3 DEF Program
<1>5. QED
  BY <1>2, <1>3, <1>4 DEF SameClient, NextOf

LEMMA OthersOK ==
    ASSUME NEW d \in Conns, SameClient(d), ClientOK(d)
    PROVE  ClientOK(d)' /\ Refused(d)' = Refused(d) /\ Own(d)' = Own(d)
           /\ Committing(d)' = Committing(d) /\ HasSetNow(d)' = HasSetNow(d)
  BY DEF SameClient, SameFor, ClientOK, Running, Refused, Own, Committing, Idle,
         HasSetNow, Fresh, Open, AfterGet, Reading, Writing, RollingBack

-----------------------------------------------------------------------------
(* What a request does, and where it leaves the client                       *)

(* The functions that a request updates, in one place.                       *)
LEMMA Maps ==
    ASSUME Base
    PROVE  /\ pc \in [Conns -> Labels] /\ req \in [Conns -> Targets \cup {None}]
           /\ then \in [Conns -> Endings] /\ todo \in [Conns -> SUBSET Tables]
           /\ writes \in [Conns -> SUBSET (Tables \X Keys)]
           /\ locked \in [Conns -> SUBSET Tables] /\ inTxn \in [Conns -> BOOLEAN]
           /\ buffer \in [Conns -> [Tables -> [Keys -> Vals \cup {None}]]]
           /\ owner \in [Tables -> Conns \cup {None, Junk}]
           /\ data \in [Tables -> Store] /\ temp \in [Tables -> Store]
           /\ stack \in [Conns -> Seq(Vals)]
           /\ replies \in [Conns -> Seq({"ok", "failed", "error"})]
           /\ Table \in Tables /\ Key \in Keys /\ None \notin Vals
           /\ None \notin Conns
           /\ \A c \in Conns : ~inTxn[c] => locked[c] = {}
<1>1. TypeOK /\ LockInv
  BY DEF Base, Known
<1>2. QED
  BY <1>1, Types, ClientsAssumption, NamesAssumption
  DEF OperandTypeOK, TypeOK, Store, LockInv, LockOK

(* The values between the requests are what the table and the stack hold.    *)
LEMMA StackOps ==
    ASSUME NEW s \in Seq(Vals), NEW v
    PROVE  /\ Len(Append(s, v)) = Len(s) + 1 /\ Append(s, v)[Len(s) + 1] = v
           /\ \A i \in 1 .. Len(s) : Append(s, v)[i] = s[i]
           /\ s = <<>> <=> Len(s) = 0
           /\ Len(s) = 1 => SubSeq(s, 1, Len(s) - 1) = <<>>
           /\ Len(s) = 2 => Append(SubSeq(s, 1, Len(s) - 2), v) = <<v>>
<1>1. /\ Len(Append(s, v)) = Len(s) + 1 /\ Append(s, v)[Len(s) + 1] = v
      /\ \A i \in 1 .. Len(s) : Append(s, v)[i] = s[i]
  OBVIOUS
<1>2. s = <<>> <=> Len(s) = 0
  OBVIOUS
<1>3. SubSeq(s, 1, 0) = <<>> /\ Append(<<>>, v) = <<v>>
  OBVIOUS
<1>4. Len(s) = 1 => SubSeq(s, 1, Len(s) - 1) = <<>>
  BY <1>3
<1>5. ASSUME Len(s) = 2 PROVE Append(SubSeq(s, 1, Len(s) - 2), v) = <<v>>
  <2>1. Len(s) - 2 = 0
    BY <1>5
  <2>2. SubSeq(s, 1, Len(s) - 2) = <<>>
    BY <1>3, <2>1
  <2>3. QED
    BY <1>3, <2>2, Zenon
<1>6. QED
  BY <1>1, <1>2, <1>4, <1>5

LEMMA OneElement ==
    ASSUME NEW r
    PROVE  Len(<<r>>) = 1 /\ <<r>> # <<>> /\ Head(<<r>>) = r /\ <<r>>[1] = r
           /\ Append(<<>>, r) = <<r>>
  OBVIOUS

(* Nothing changes but the place of c in its program and its session.        *)
Quiet == UNCHANGED <<tables, owner, data, temp, robbed>>

LEMMA ConnectEffect ==
    ASSUME Base, ClientsInv, NEW c \in Conns, At(c, "CONNECT"), Accept(c), Advance(c)
    PROVE  ClientOK(c)' /\ NextOf(c)' = "LOGIN" /\ Quiet
<1>1. NextOf(c)' = "LOGIN" /\ ClientOK(c) /\ result'[c] = "running"
      /\ step'[c] \in 1 .. Len(Program(c)')
  BY Advanced, Programs DEF At, NextOf, ClientsInv, ClientOK
<1>2. pc[c] = "new" /\ Fresh(c)
  BY <1>1 DEF At, ClientOK, Running, NextOf
<1>3. pc'[c] = "login" /\ Fresh(c)'
  BY <1>2, Maps DEF Accept, Goto, Fresh, Own, txn, operand
<1>4. QED
  BY <1>1, <1>3 DEF Accept, shared, Quiet, ClientOK, Running

LEMMA LoginEffect ==
    ASSUME Base, ClientsInv, NEW c \in Conns, At(c, "LOGIN"), Login(c), Advance(c)
    PROVE  /\ ClientOK(c)' /\ Quiet
           /\ NextOf(c)' = IF c \in transactional THEN "BEGIN" ELSE "GET"
<1>1. /\ ClientOK(c) /\ result'[c] = "running" /\ transactional' = transactional
      /\ NextOf(c)' = IF c \in transactional THEN "BEGIN" ELSE "GET"
      /\ step'[c] \in 1 .. Len(Program(c)')
  BY Advanced, Programs DEF At, NextOf, ClientsInv, ClientOK
<1>2. pc[c] = "login" /\ Fresh(c)
  BY <1>1 DEF At, ClientOK, Running, NextOf
<1>3. Idle(c, "ok")' /\ Fresh(c)' /\ inTxn'[c] = FALSE /\ locked'[c] = {}
  BY <1>2, Maps DEF Login, Reply, Idle, Goto, Fresh, Own, txn, operand
<1>4. stack'[c] = <<>> /\ Own(c)' = None
  BY <1>3 DEF Fresh
<1>5. QED
  BY <1>1, <1>3, <1>4 DEF Login, shared, Quiet, ClientOK, Running

LEMMA BeginEffect ==
    ASSUME Base, ClientsInv, NEW c \in Conns, At(c, "BEGIN"), Begin(c), Advance(c)
    PROVE  ClientOK(c)' /\ NextOf(c)' = "GET" /\ Quiet
<1>1. /\ ClientOK(c) /\ result'[c] = "running" /\ transactional' = transactional
      /\ NextOf(c)' = "GET" /\ c \in transactional
      /\ step'[c] \in 1 .. Len(Program(c)')
  BY Advanced, Programs DEF At, NextOf, ClientsInv, ClientOK
<1>2. Idle(c, "ok") /\ Fresh(c)
  BY <1>1 DEF At, ClientOK, Running, NextOf
<1>3. Idle(c, "ok")' /\ inTxn'[c] = TRUE /\ locked'[c] = {}
      /\ stack'[c] = <<>> /\ Own(c)' = None
  BY <1>2, Maps
  DEF Begin, Answer, Reply, Idle, Goto, Fresh, Own, txn, operand, control
<1>4. QED
  BY <1>1, <1>3 DEF Begin, shared, Quiet, ClientOK, Running

LEMMA ViewIs ==
    ASSUME Base, ValuesInv
    PROVE  /\ View(Table)[Key] = IF temp[Table][Key] # None
                                   THEN temp[Table][Key] ELSE Count
           /\ Bounded(View(Table)[Key]) /\ View(Table)[Key] # None
  BY Maps DEF View, Overlay, ValuesInv, Bounded, Count

(* A GET reads what the table holds, or it is refused: in a transaction when *)
(* the mutex is taken, otherwise when another thread is changing the table.  *)
GetAsked(c) ==
    \/ GetContended(c, Table, Key) \/ GetInTxn(c, Table, Key)
    \/ GetMissing(c, Table, Key) \/ GetAuto(c, Table, Key)

LEMMA GetEffect ==
    ASSUME Base, ClientsInv, ValuesInv, NEW c \in Conns, At(c, "GET"),
           GetAsked(c), Advance(c)
    PROVE  /\ ClientOK(c)' /\ NextOf(c)' = "PUSH"
           /\ data' = data /\ temp' = temp /\ robbed' = robbed
           /\ owner'[Table] \in {owner[Table], c}
           /\ \/ /\ stack'[c][1] = View(Table)[Key] /\ ~Refused(c)'
                 /\ c \in transactional => owner[Table] = None
              \/ /\ Refused(c)'
                 /\ \/ owner[Table] # None
                    \/ \E d \in Conns \ {c} : Mutating(d, Table)
<1> DEFINE v == View(Table)[Key]
<1>1. /\ ClientOK(c) /\ result'[c] = "running" /\ transactional' = transactional
      /\ NextOf(c)' = "PUSH" /\ step'[c] \in 1 .. Len(Program(c)')
  BY Advanced, Programs DEF At, NextOf, ClientsInv, ClientOK
<1>2. /\ Idle(c, "ok") /\ stack[c] = <<>> /\ Own(c) = None
      /\ (inTxn[c] <=> c \in transactional) /\ locked[c] = {}
  BY <1>1 DEF At, ClientOK, Running, NextOf
<1>3. v \in Vals /\ v # None
  BY ViewIs DEF Bounded
<1>4. ReadInTxn(c, Table, Key) = v
  BY <1>2, Maps DEF ReadInTxn, Overlay, Own
<1>5. Append(<<>>, v) = <<v>> /\ Len(<<v>>) = 1 /\ <<v>>[1] = v
  BY OneElement
<1>6. CASE GetInTxn(c, Table, Key)
  <2>1. /\ Idle(c, "ok")' /\ stack'[c] = <<v>> /\ Own(c)' = None /\ inTxn'[c]
        /\ locked'[c] = {Table} /\ c \in transactional /\ owner[Table] = None
        /\ owner'[Table] = c
    BY <1>2, <1>4, <1>5, <1>6, Maps
    DEF GetInTxn, ReceiveGet, Receive, CanLock, LockInTxn, Pushed, Answer, Reply,
        Idle, Own, control
  <2>2. Open(c, 1)' /\ ~Refused(c)'
    BY <1>1, <1>5, <2>1, OneElement DEF Open, Refused, Idle
  <2>3. QED
    BY <1>1, <1>5, <1>6, <2>1, <2>2
    DEF GetInTxn, LockInTxn, ClientOK, Running, AfterGet
<1>7. CASE GetContended(c, Table, Key)
  <2>1. /\ pc'[c] = "undo" /\ then'[c] = "failget" /\ replies'[c] = <<>>
        /\ req'[c] = <<Table, Key, None>> /\ inTxn'[c]
        /\ locked'[c] = {Table} /\ c \in transactional /\ owner[Table] # None
    BY <1>2, <1>7, Maps
    DEF GetContended, CanLock, StartRollback, Goto, ReplyLater
  <2>2. RollingBack(c)' /\ Refused(c)'
    BY <1>1, <2>1 DEF RollingBack, Refused
  <2>3. data' = data /\ temp' = temp /\ robbed' = robbed /\ owner' = owner
    BY <1>7 DEF GetContended, shared
  <2>4. QED
    BY <1>1, <2>1, <2>2, <2>3 DEF ClientOK, Running, AfterGet
<1>8. CASE GetAuto(c, Table, Key)
  <2>1. /\ pc'[c] = "drop" /\ ~inTxn'[c] /\ replies'[c] = <<>>
        /\ Own(c)' = None /\ c \notin transactional
    BY <1>2, <1>8, Maps
    DEF GetAuto, Continue, Goto, ReplyLater, Own, txn
  <2>2. Reading(c)'
    BY <2>1 DEF Reading
  <2>3. data' = data /\ temp' = temp /\ robbed' = robbed /\ owner' = owner
    BY <1>8 DEF GetAuto, shared
  <2>4. PICK x \in UnlockedRead(c, Table, Key) :
          \/ x # None /\ Pushed(c, x) /\ Continue(c, "drop", <<Table, Key, x>>, "ok")
          \/ /\ x = None /\ UNCHANGED operand
             /\ Continue(c, "drop", <<Table, Key, None>>, "failed")
    BY <1>8 DEF GetAuto
  <2>5. CASE x # None
    <3>1. x = v /\ then'[c] = "ok" /\ stack'[c] = <<v>>
      BY <1>2, <1>5, <2>4, <2>5, Maps DEF UnlockedRead, Pushed, Continue
    <3>2. ~Refused(c)'
      BY <2>1, <3>1 DEF Refused, Idle
    <3>3. QED
      BY <1>1, <1>5, <2>1, <2>2, <2>3, <3>1, <3>2 DEF ClientOK, Running, AfterGet
  <2>6. CASE x = None
    <3>1. then'[c] = "failed" /\ \E d \in Conns \ {c} : Mutating(d, Table)
      BY <1>3, <2>4, <2>6, Maps DEF UnlockedRead, Continue
    <3>2. QED
      BY <1>1, <2>1, <2>2, <2>3, <3>1 DEF ClientOK, Running, AfterGet, Refused
  <2>7. QED
    BY <2>5, <2>6
<1>9. ~GetMissing(c, Table, Key)
  BY <1>3, <1>4 DEF GetMissing
<1>10. QED
  BY <1>6, <1>7, <1>8, <1>9 DEF GetAsked

(* PUSH and ADD leave the sum of what was read and 1 on the stack.           *)
LEMMA PushEffect ==
    ASSUME Base, ClientsInv, NEW c \in Conns, At(c, "PUSH"), Answered(c),
           Head(replies[c]) = "ok", Push(c, 1), Advance(c)
    PROVE  /\ ClientOK(c)' /\ NextOf(c)' = "ADD" /\ Quiet
           /\ stack'[c][1] = stack[c][1] /\ ~Refused(c)
<1>1. /\ ClientOK(c) /\ result'[c] = "running" /\ transactional' = transactional
      /\ NextOf(c) = "PUSH" /\ NextOf(c)' = "ADD"
      /\ step'[c] \in 1 .. Len(Program(c)')
  BY Advanced, Programs, SMTT(30) DEF At, NextOf, ClientsInv, ClientOK
<1>2. Head(<<"failed">>) = "failed" /\ Head(<<"ok">>) = "ok"
  BY OneElement
<1>3. ~Idle(c, "failed") /\ pc[c] = "read"
  BY <1>2 DEF Idle, Answered
<1>4. Open(c, 1) /\ ~Refused(c)
  BY <1>1, <1>3
  DEF At, ClientOK, Running, AfterGet, RollingBack, Reading, Refused
<1>5. stack[c] \in Seq(Vals) /\ Len(stack[c]) = 1
  BY <1>4, Maps DEF Open
<1>6. stack'[c] = Append(stack[c], 1)
  BY Maps DEF Push, Pushed
<1>7. Len(stack'[c]) = 2 /\ stack'[c][1] = stack[c][1] /\ stack'[c][2] = 1
  BY <1>5, <1>6, StackOps
<1>8. Open(c, 2)'
  BY <1>1, <1>4, <1>7, Maps
  DEF Push, Answer, Reply, Open, Idle, Own, txn, control
<1>9. QED
  BY <1>1, <1>4, <1>7, <1>8 DEF Push, shared, Quiet, ClientOK, Running

LEMMA AddEffect ==
    ASSUME Base, ClientsInv, NEW c \in Conns, At(c, "ADD"),
           ArithOk(c, Sum(stack[c])), Advance(c)
    PROVE  /\ ClientOK(c)' /\ NextOf(c)' = "SET" /\ Quiet
           /\ stack'[c][1] = stack[c][1] + 1
<1>1. /\ ClientOK(c) /\ result'[c] = "running" /\ transactional' = transactional
      /\ NextOf(c) = "ADD" /\ NextOf(c)' = "SET"
      /\ step'[c] \in 1 .. Len(Program(c)')
  BY Advanced, Programs, SMTT(30) DEF At, NextOf, ClientsInv, ClientOK
<1>2. Open(c, 2) /\ stack[c][2] = 1
  BY <1>1 DEF At, ClientOK, Running
<1>3. Sum(stack[c]) = stack[c][1] + 1
  BY <1>2 DEF Open, Sum
<1>4. stack[c] \in Seq(Vals) /\ Len(stack[c]) = 2
  BY <1>2, Maps DEF Open
<1>5. stack'[c] = <<Sum(stack[c])>>
  <2>1. stack'[c] = Append(SubSeq(stack[c], 1, Len(stack[c]) - 2), Sum(stack[c]))
    BY Maps DEF ArithOk
  <2>2. QED
    BY <1>4, <2>1, StackOps, ZenonT(30)
<1>6. Len(stack'[c]) = 1 /\ stack'[c][1] = stack[c][1] + 1
  BY <1>3, <1>5, OneElement
<1>7. Open(c, 1)'
  BY <1>1, <1>2, <1>6, Maps
  DEF ArithOk, Answer, Reply, Open, Idle, Own, txn, control
<1>8. QED
  BY <1>1, <1>6, <1>7 DEF ArithOk, shared, Quiet, ClientOK, Running

(* SET puts the sum into the buffer or asks for the lock to write it.        *)
SetAsked(c) ==
    \/ SetBuffered(c, Table, Key) \/ SetContended(c, Table, Key)
    \/ SetAuto(c, Table, Key)

LEMMA SetEffect ==
    ASSUME Base, ClientsInv, NEW c \in Conns, At(c, "SET"), SetAsked(c), Advance(c)
    PROVE  /\ ClientOK(c)' /\ Quiet
           /\ stack[c][1] \in Vals
           /\ IF c \in transactional
                THEN NextOf(c)' = "COMMIT" /\ Own(c)' = stack[c][1] /\ pc'[c] = "read"
                ELSE NextOf(c)' = "BYE" /\ pc'[c] = "lock" /\ req'[c][3] = stack[c][1]
<1>1. /\ ClientOK(c) /\ result'[c] = "running" /\ transactional' = transactional
      /\ NextOf(c) = "SET" /\ step'[c] \in 1 .. Len(Program(c)')
      /\ NextOf(c)' = IF c \in transactional THEN "COMMIT" ELSE "BYE"
  BY Advanced, Programs DEF At, NextOf, ClientsInv, ClientOK
<1>2. Open(c, 1)
  BY <1>1 DEF At, ClientOK, Running
<1>3. stack[c] \in Seq(Vals) /\ Len(stack[c]) = 1 /\ TopOf(c) = stack[c][1]
  BY <1>2, Maps DEF Open, TopOf
<1>4. stack[c][1] \in Vals
  BY <1>3, ElementOfSeq
<1>5. IF c \in transactional THEN inTxn[c] /\ locked[c] = {Table} ELSE ~inTxn[c]
  BY <1>2 DEF Open
<1>6. CASE SetBuffered(c, Table, Key)
  <2>1. /\ Idle(c, "ok")' /\ inTxn'[c] /\ locked'[c] = {Table} /\ pc'[c] = "read"
        /\ Own(c)' = stack[c][1] /\ c \in transactional
    BY <1>2, <1>3, <1>5, <1>6, Maps
    DEF SetBuffered, ReceiveSet, Receive, LockInTxn, Answer, Reply, Idle, Own,
        control
  <2>2. owner' = owner
    BY <1>5, <1>6, <2>1, Maps DEF SetBuffered, LockInTxn
  <2>3. Own(c)' # None
    BY <1>4, <2>1, Maps
  <2>4. QED
    BY <1>1, <1>4, <1>6, <2>1, <2>2, <2>3
    DEF SetBuffered, LockInTxn, Quiet, ClientOK, Running
<1>7. CASE SetAuto(c, Table, Key)
  <2>1. /\ pc'[c] = "lock" /\ then'[c] = "ok" /\ replies'[c] = <<>> /\ ~inTxn'[c]
        /\ req'[c] = <<Table, Key, stack[c][1]>> /\ c \notin transactional
    BY <1>3, <1>5, <1>7, Maps DEF SetAuto, Continue, Goto, ReplyLater, txn
  <2>2. Writing(c)'
    BY <2>1 DEF Writing
  <2>3. QED
    BY <1>1, <1>4, <1>7, <2>1, <2>2 DEF SetAuto, shared, Quiet, ClientOK, Running
<1>8. ~SetContended(c, Table, Key)
  BY <1>5 DEF SetContended, CanLock
<1>9. QED
  BY <1>6, <1>7, <1>8 DEF SetAsked

LEMMA CommitEffect ==
    ASSUME Base, ClientsInv, NEW c \in Conns, At(c, "COMMIT"), Commit(c), Advance(c)
    PROVE  /\ ClientOK(c)' /\ NextOf(c)' = "BYE" /\ Quiet
           /\ pc'[c] = "apply" /\ Own(c)' = Own(c)
           /\ pc[c] = "read" /\ locked[c] = {Table} /\ <<Table, Key>> \in writes'[c]
<1>1. /\ ClientOK(c) /\ result'[c] = "running" /\ transactional' = transactional
      /\ NextOf(c) = "COMMIT" /\ NextOf(c)' = "BYE" /\ c \in transactional
      /\ step'[c] \in 1 .. Len(Program(c)')
  BY Advanced, Programs, SMTT(30) DEF At, NextOf, ClientsInv, ClientOK
<1>2. /\ Idle(c, "ok") /\ inTxn[c] /\ locked[c] = {Table} /\ Own(c) # None
  BY <1>1 DEF At, ClientOK, Running
<1>3. /\ pc'[c] = "apply" /\ replies'[c] = <<>> /\ inTxn'[c]
      /\ locked'[c] = {Table} /\ Own(c)' = Own(c) /\ writes'[c] = Buffered(c)
  BY <1>2, Maps DEF Commit, Goto, ReplyLater, Own, txn
<1>4. <<Table, Key>> \in Buffered(c)
  BY <1>2, Maps DEF Buffered, Own
<1>5. Committing(c)'
  BY <1>2, <1>3 DEF Committing
<1>6. QED
  BY <1>1, <1>2, <1>3, <1>4, <1>5
  DEF Commit, shared, Quiet, ClientOK, Running, Idle

(* The two ways in which a client ends.                                      *)
LEMMA ByeEffect ==
    ASSUME Base, ClientsInv, NEW c \in Conns, At(c, "BYE"), Bye(c), Exit(c, "ok")
    PROVE  ClientOK(c)' /\ NextOf(c) = "BYE" /\ NextOf(c)' = "BYE" /\ Quiet
           /\ pc[c] = "read" /\ pc'[c] = "closed"
<1>1. /\ ClientOK(c) /\ NextOf(c) = "BYE" /\ NextOf(c)' = "BYE"
      /\ result'[c] = "ok" /\ step' = step /\ transactional' = transactional
  BY Exited DEF At, NextOf, ClientsInv
<1>2. Program(c)' = Program(c)
  BY <1>1 DEF Program
<1>3. pc'[c] = "closed"
  BY Maps DEF Bye, Disconnect, Goto
<1>4. QED
  BY <1>1, <1>2, <1>3 DEF Bye, Receive, Disconnect, shared, Quiet, ClientOK

LEMMA GiveUpEffect ==
    ASSUME Base, ClientsInv, NEW c \in Conns, GiveUp(c)
    PROVE  ClientOK(c)' /\ Refused(c) /\ NextOf(c)' = "PUSH" /\ Quiet
<1>1. /\ ClientOK(c) /\ result[c] = "running" /\ NextOf(c)' = NextOf(c)
      /\ result'[c] = "failed" /\ step' = step /\ transactional' = transactional
  BY Exited DEF GiveUp, ClientsInv
<1>2. Program(c)' = Program(c)
  BY <1>1 DEF Program
<1>3. Head(<<"failed">>) = "failed" /\ Head(<<"ok">>) = "ok"
  BY OneElement
<1>4. ~Idle(c, "ok") /\ pc[c] = "read"
  BY <1>3 DEF GiveUp, Idle, Answered
<1>5. NextOf(c) = "PUSH" /\ Idle(c, "failed") /\ ~inTxn[c]
  BY <1>1, <1>4
  DEF ClientOK, Running, AfterGet, Open, Reading, RollingBack, Writing, Committing
<1>6. pc'[c] = "closed" /\ inTxn' = inTxn
  BY Maps DEF GiveUp, Eof, Disconnect, Goto
<1>7. QED
  BY <1>1, <1>2, <1>5, <1>6
  DEF GiveUp, Eof, Disconnect, shared, Quiet, ClientOK, Refused

-----------------------------------------------------------------------------
(* What a thread does until it reads the next request                        *)

LEMMA ThreadOf ==
    ASSUME Base, ClientsInv, NEW c \in Conns, Thread(c)
    PROVE  /\ result[c] = "running" /\ result' = result
           /\ step' = step /\ transactional' = transactional
           /\ NextOf(c)' = NextOf(c) /\ step'[c] \in 1 .. Len(Program(c)')
           /\ \/ NextOf(c) = "PUSH" /\ c \in transactional /\ RollingBack(c)
              \/ /\ NextOf(c) = "PUSH" /\ c \notin transactional /\ Reading(c)
                 /\ then[c] = "failed" \/ (then[c] = "ok" /\ Len(stack[c]) = 1)
                 /\ Own(c) = None
              \/ NextOf(c) = "BYE" /\ c \in transactional /\ Committing(c)
              \/ NextOf(c) = "BYE" /\ c \notin transactional /\ Writing(c) /\ ~inTxn[c]
<1>1. step' = step /\ transactional' = transactional /\ result' = result
  BY DEF Thread, clients
<1>2. Program(c)' = Program(c) /\ NextOf(c)' = NextOf(c)
  BY <1>1 DEF Program, NextOf
<1>3. pc[c] \in {"lock", "write", "save", "unlock", "drop", "failset", "apply",
                 "publish", "release", "undo", "free"}
  BY DEF Thread, Internal, SetLock, SetWrite, SetSave, UnlockAndReply, FailSet,
         Apply, Publish, Release, Undo, Free
<1>4. ClientOK(c)
  BY DEF ClientsInv
<1>5. result[c] = "running" /\ Running(c)
  BY <1>3, <1>4 DEF ClientOK
<1>6. ~Idle(c, "ok") /\ ~Idle(c, "failed")
  BY <1>3 DEF Idle
<1>7. QED
  BY <1>1, <1>2, <1>3, <1>4, <1>5, <1>6 DEF ClientOK, Running, AfterGet, Open

LEMMA ReadingEffect ==
    ASSUME Base, ClientsInv, NEW c \in Conns, Thread(c), Reading(c)
    PROVE  /\ ClientOK(c)' /\ data' = data /\ temp' = temp
           /\ owner'[Table] # Junk /\ stack' = stack /\ (Refused(c)' <=> Refused(c))
           /\ NextOf(c) = "PUSH" /\ NextOf(c)' = "PUSH" /\ c \notin transactional
<1>1. /\ result'[c] = "running" /\ transactional' = transactional
      /\ NextOf(c) = "PUSH" /\ NextOf(c)' = "PUSH"
      /\ step'[c] \in 1 .. Len(Program(c)')
      /\ c \notin transactional /\ Own(c) = None
      /\ then[c] = "failed" \/ (then[c] = "ok" /\ Len(stack[c]) = 1)
  BY ThreadOf DEF Reading, RollingBack, Committing, Writing
<1>2. UnlockAndReply(c)
  BY DEF Reading, Thread, Internal, SetLock, SetWrite, SetSave, FailSet,
         Apply, Publish, Release, Undo, Free
<1>3. Append(<<>>, then[c]) = <<then[c]>> /\ <<"ok">> # <<"failed">>
  BY OneElement
<1>4. /\ pc'[c] = "read" /\ replies'[c] = <<then[c]>>
      /\ ~inTxn'[c] /\ stack' = stack /\ Own(c)' = None
      /\ data' = data /\ temp' = temp
  BY <1>1, <1>2, <1>3, Maps
  DEF UnlockAndReply, Unlock, ReplyNow, Finish, Continue, Goto, Reading, Idle, Own,
      txn, operand
<1>5. owner'[Table] # Junk
  BY <1>2, Maps, NamesAssumption DEF UnlockAndReply, Unlock, ClientsInv
<1>6. CASE then[c] = "ok"
  <2>1. Open(c, 1)' /\ ~Refused(c) /\ ~Refused(c)'
    BY <1>1, <1>3, <1>4, <1>6 DEF Open, Refused, Idle, Reading
  <2>2. QED
    BY <1>1, <1>4, <1>5, <2>1 DEF ClientOK, Running, AfterGet
<1>7. CASE then[c] = "failed"
  <2>1. Idle(c, "failed")' /\ Refused(c) /\ Refused(c)'
    BY <1>1, <1>4, <1>7 DEF Refused, Idle, Reading
  <2>2. QED
    BY <1>1, <1>4, <1>5, <2>1 DEF ClientOK, Running, AfterGet
<1>8. QED
  BY <1>1, <1>6, <1>7

LEMMA RollingBackEffect ==
    ASSUME Base, ClientsInv, NEW c \in Conns, Thread(c), RollingBack(c)
    PROVE  /\ ClientOK(c)' /\ data' = data
           /\ temp'[Table][Key] \in {temp[Table][Key], None}
           /\ owner'[Table] # Junk /\ NextOf(c) = "PUSH" /\ NextOf(c)' = "PUSH"
           /\ Refused(c) /\ Refused(c)'
<1>1. /\ result'[c] = "running" /\ transactional' = transactional
      /\ NextOf(c) = "PUSH" /\ NextOf(c)' = "PUSH"
      /\ step'[c] \in 1 .. Len(Program(c)') /\ c \in transactional
  BY ThreadOf DEF Reading, RollingBack, Committing, Writing
<1>2. /\ pc[c] \in {"undo", "free"} /\ then[c] = "failget" /\ replies[c] = <<>>
      /\ inTxn[c] /\ locked[c] = {Table} /\ req[c] = <<Table, Key, None>>
      /\ Refused(c)
  BY <1>1 DEF RollingBack, Refused
<1>3. Append(<<>>, "failed") = <<"failed">>
  BY OneElement
<1>4. Undo(c) \/ Free(c)
  BY <1>2
  DEF Thread, Internal, SetLock, SetWrite, SetSave, UnlockAndReply, FailSet, Apply,
      Publish, Release
<1>5. CASE Undo(c)
  <2>1. RollingBack(c)'
    BY <1>2, <1>5, Maps DEF Undo, Visit, Loop, Goto, RollingBack, txn
  <2>2. data' = data /\ owner' = owner
    BY <1>5 DEF Undo, RollbackChanges, shared
  <2>3. temp'[Table][Key] \in {temp[Table][Key], None}
    <3>1. ASSUME NEW t \in Tables, temp' = [temp EXCEPT ![t] = Empty]
          PROVE  temp'[Table][Key] \in {temp[Table][Key], None}
      BY <3>1, Maps DEF Empty
    <3>2. QED
      BY <1>5, <3>1 DEF Undo, RollbackChanges, shared
  <2>4. QED
    BY <1>1, <1>2, <2>1, <2>2, <2>3
    DEF ClientsInv, ClientOK, Running, AfterGet, Refused, RollingBack
<1>6. CASE Free(c) /\ todo[c] # {}
  <2>1. RollingBack(c)'
    BY <1>2, <1>6, Maps DEF Free, Visit, RollingBack, txn
  <2>2. data' = data /\ temp' = temp /\ owner'[Table] # Junk
    BY <1>6, Maps, NamesAssumption DEF Free, Unlock, ClientsInv
  <2>3. QED
    BY <1>1, <1>2, <2>1, <2>2 DEF ClientOK, Running, AfterGet, Refused, RollingBack
<1>7. CASE Free(c) /\ todo[c] = {}
  <2>1. Idle(c, "failed")' /\ ~inTxn'[c]
    BY <1>2, <1>3, <1>7, Maps
    DEF Free, Visit, EndTxn, Finish, Continue, Goto, ReplyNow, Idle
  <2>2. data' = data /\ temp' = temp /\ owner' = owner
    BY <1>2, <1>7 DEF Free, Visit, shared
  <2>3. QED
    BY <1>1, <1>2, <2>1, <2>2 DEF ClientsInv, ClientOK, Running, AfterGet, Refused
<1>8. QED
  BY <1>4, <1>5, <1>6, <1>7

(* SET outside a transaction writes its value and publishes it.              *)
LEMMA WritingEffect ==
    ASSUME Base, ClientsInv, ValuesInv, NEW c \in Conns, Thread(c), Writing(c)
    PROVE  /\ ClientOK(c)' /\ owner'[Table] # Junk
           /\ data'[Table][Key] \in {Count, View(Table)[Key]}
           /\ \/ temp'[Table][Key] \in {temp[Table][Key], None}
              \/ pc[c] = "write" /\ temp'[Table][Key] = req[c][3]
           /\ pc'[c] \in {"write", "save"} =>
                 pc[c] \in {"lock", "write"} /\ req'[c] = req[c]
           /\ pc'[c] \in {"write", "save", "unlock", "read"}
           /\ NextOf(c) = "BYE" /\ NextOf(c)' = "BYE" /\ c \notin transactional
<1>1. /\ result'[c] = "running" /\ transactional' = transactional
      /\ NextOf(c) = "BYE" /\ NextOf(c)' = "BYE"
      /\ step'[c] \in 1 .. Len(Program(c)') /\ c \notin transactional /\ ~inTxn[c]
  BY ThreadOf DEF Reading, RollingBack, Committing, Writing
<1>2. /\ pc[c] \in {"lock", "write", "save", "unlock"} /\ then[c] = "ok"
      /\ replies[c] = <<>> /\ req[c][1] = Table /\ req[c][2] = Key
  BY DEF Writing
<1>3. Append(<<>>, "ok") = <<"ok">>
  BY OneElement
<1>4. owner[Table] # Junk /\ \A d \in Conns : d # Junk
  BY NamesAssumption DEF ClientsInv
<1>5. CASE SetLock(c)
  <2>1. Writing(c)' /\ ~inTxn'[c] /\ pc'[c] = "write" /\ req'[c] = req[c]
    BY <1>1, <1>2, <1>5, Maps DEF SetLock, Goto, Writing, txn
  <2>2. data' = data /\ temp' = temp /\ owner'[Table] # Junk
    BY <1>4, <1>5, Maps DEF SetLock
  <2>3. QED
    BY <1>1, <1>2, <1>5, <2>1, <2>2 DEF SetLock, ClientOK, Running, Count
<1>6. CASE SetWrite(c)
  <2>1. Writing(c)' /\ ~inTxn'[c] /\ pc'[c] = "save" /\ req'[c] = req[c]
    BY <1>1, <1>2, <1>6, Maps DEF SetWrite, Goto, Writing, txn
  <2>2. data' = data /\ temp'[Table][Key] = req[c][3] /\ owner' = owner
    BY <1>2, <1>6, Maps DEF SetWrite, TableSet, Store
  <2>3. QED
    BY <1>1, <1>2, <1>4, <1>6, <2>1, <2>2 DEF SetWrite, ClientOK, Running, Count
<1>7. CASE SetSave(c)
  <2>1. Writing(c)' /\ ~inTxn'[c] /\ pc'[c] = "unlock"
    BY <1>1, <1>2, <1>7, Maps DEF SetSave, Goto, Writing, txn
  <2>2. /\ data'[Table][Key] = View(Table)[Key] /\ temp'[Table][Key] = None
        /\ owner' = owner
    BY <1>2, <1>7, Maps DEF SetSave, CommitChanges, Empty
  <2>3. QED
    BY <1>1, <1>4, <2>1, <2>2 DEF ClientOK, Running
<1>8. CASE UnlockAndReply(c)
  <2>1. Idle(c, "ok")' /\ ~inTxn'[c] /\ pc'[c] = "read"
    BY <1>1, <1>2, <1>3, <1>8, Maps
    DEF UnlockAndReply, ReplyNow, Finish, Continue, Goto, Idle, txn
  <2>2. data' = data /\ temp' = temp /\ owner'[Table] # Junk
    BY <1>2, <1>8, Maps, NamesAssumption DEF UnlockAndReply, Unlock
  <2>3. QED
    BY <1>1, <2>1, <2>2 DEF ClientOK, Running, Count
<1>9. QED
  BY <1>2, <1>5, <1>6, <1>7, <1>8
  DEF Thread, Internal, FailSet, Apply, Publish, Release, Undo, Free

(* COMMIT applies the buffered writes, publishes them and lets go.           *)
LEMMA CommittingEffect ==
    ASSUME Base, ClientsInv, NEW c \in Conns, Thread(c), Committing(c)
    PROVE  /\ ClientOK(c)' /\ owner'[Table] # Junk
           /\ NextOf(c) = "BYE" /\ NextOf(c)' = "BYE" /\ c \in transactional
           /\ Committing(c)' \/ pc'[c] = "read"
           /\ pc'[c] # "read" => Own(c)' = Own(c)
           /\ \/ /\ pc[c] = "apply" /\ pc'[c] = "apply" /\ data' = data
                 /\ \E w \in writes[c] :
                      /\ writes'[c] = writes[c] \ {w}
                      /\ temp'[Table][Key] = IF w = <<Table, Key>>
                                               THEN Own(c) ELSE temp[Table][Key]
              \/ /\ pc[c] = "apply" /\ pc'[c] = "publish" /\ writes[c] = {}
                 /\ todo'[c] = {Table} /\ data' = data /\ temp' = temp
              \/ /\ pc[c] = "publish" /\ pc'[c] = "publish"
                 /\ todo[c] = {Table} /\ todo'[c] = {}
                 /\ data'[Table][Key] = View(Table)[Key]
                 /\ temp'[Table][Key] = None
              \/ /\ pc[c] \in {"publish", "release"} /\ pc'[c] \in {"release", "read"}
                 /\ pc[c] = "publish" => todo[c] = {}
                 /\ data' = data /\ temp' = temp
<1>1. /\ result'[c] = "running" /\ transactional' = transactional
      /\ NextOf(c) = "BYE" /\ NextOf(c)' = "BYE"
      /\ step'[c] \in 1 .. Len(Program(c)') /\ c \in transactional
  BY ThreadOf DEF Reading, RollingBack, Committing, Writing
<1>2. /\ pc[c] \in {"apply", "publish", "release"} /\ replies[c] = <<>>
      /\ inTxn[c] /\ locked[c] = {Table} /\ Own(c) # None
  BY DEF Committing
<1>3. Append(<<>>, "ok") = <<"ok">>
  BY OneElement
<1>4. owner[Table] # Junk
  BY DEF ClientsInv
<1>5. ASSUME pc'[c] \in {"apply", "publish", "release"}, replies' = replies,
             UNCHANGED txn
      PROVE  Committing(c)' /\ Own(c)' = Own(c) /\ ClientOK(c)'
  <2>1. Committing(c)' /\ Own(c)' = Own(c)
    BY <1>2, <1>5 DEF Committing, Own, txn
  <2>2. QED
    BY <1>1, <2>1 DEF ClientOK, Running
<1>6. CASE Apply(c) /\ writes[c] # {}
  <2>1. PICK w \in writes[c] :
           /\ TableSet(c, w[1], w[2], buffer[c][w[1]][w[2]])
           /\ writes' = [writes EXCEPT ![c] = @ \ {w}]
           /\ pc' = pc
    BY <1>6 DEF Apply
  <2>2. w[1] \in Tables /\ w[2] \in Keys /\ w = <<w[1], w[2]>>
    BY Maps
  <2>3. writes'[c] = writes[c] \ {w} /\ data' = data /\ owner' = owner
    BY <2>1, Maps DEF TableSet
  <2>4. w = <<Table, Key>> <=> w[1] = Table /\ w[2] = Key
    BY <2>2
  <2>5. temp'[Table][Key] = IF w[1] = Table /\ w[2] = Key
                              THEN Own(c) ELSE temp[Table][Key]
    BY <2>1, <2>2, Maps DEF TableSet, Own, Store
  <2>6. pc[c] = "apply" /\ pc'[c] = "apply" /\ replies' = replies /\ UNCHANGED txn
    BY <1>6, <2>1 DEF Apply
  <2>7. Committing(c)' /\ Own(c)' = Own(c) /\ ClientOK(c)'
    BY <1>5, <2>6
  <2>8. QED
    BY <1>1, <1>4, <2>3, <2>4, <2>5, <2>6, <2>7
<1>7. CASE Apply(c) /\ writes[c] = {}
  <2>1. /\ pc[c] = "apply" /\ pc'[c] = "publish" /\ todo'[c] = {Table}
        /\ UNCHANGED <<shared, txn, replies>>
    BY <1>2, <1>7, Maps DEF Apply, Loop, Goto
  <2>2. QED
    BY <1>1, <1>4, <1>5, <1>7, <2>1 DEF shared
<1>8. CASE Publish(c) /\ todo[c] # {}
  <2>1. PICK t \in Tables : Visit(c, t) /\ CommitChanges(c, t)
    BY <1>8 DEF Publish
  <2>2. t = Table /\ todo[c] = {Table}
    BY <1>2, <1>8, <2>1, Maps DEF Publish, Visit, Base, StoredInv, StoredOK, TodoOK
  <2>3. pc[c] = "publish" /\ pc'[c] = "publish" /\ todo'[c] = {}
        /\ replies' = replies /\ UNCHANGED txn
    BY <1>8, <2>1, <2>2, Maps DEF Publish, Visit
  <2>4. /\ data'[Table][Key] = View(Table)[Key] /\ temp'[Table][Key] = None
        /\ owner' = owner
    BY <2>1, <2>2, Maps DEF CommitChanges, Empty
  <2>5. QED
    BY <1>1, <1>4, <1>5, <2>2, <2>3, <2>4
<1>9. CASE Publish(c) /\ todo[c] = {}
  <2>1. /\ pc[c] = "publish" /\ pc'[c] = "release"
        /\ UNCHANGED <<shared, txn, replies>>
    BY <1>9, Maps DEF Publish, Loop, Goto, Visit
  <2>2. QED
    BY <1>1, <1>4, <1>5, <1>9, <2>1 DEF shared
<1>10. CASE Release(c) /\ todo[c] # {}
  <2>1. /\ pc[c] = "release" /\ pc'[c] = "release" /\ UNCHANGED <<txn, replies>>
    BY <1>10, Maps DEF Release, Visit
  <2>2. data' = data /\ temp' = temp /\ owner'[Table] # Junk
    BY <1>4, <1>10, Maps, NamesAssumption DEF Release, Unlock
  <2>3. QED
    BY <1>1, <1>5, <2>1, <2>2
<1>11. CASE Release(c) /\ todo[c] = {}
  <2>1. /\ pc[c] = "release" /\ pc'[c] = "read" /\ Idle(c, "ok")' /\ ~inTxn'[c]
        /\ UNCHANGED shared
    BY <1>2, <1>3, <1>11, Maps
    DEF Release, Visit, EndTxn, Finish, Continue, Goto, ReplyNow, Idle
  <2>2. QED
    BY <1>1, <1>4, <2>1 DEF shared, ClientOK, Running
<1>12. QED
  BY <1>2, <1>6, <1>7, <1>8, <1>9, <1>10, <1>11
  DEF Thread, Internal, SetLock, SetWrite, SetSave, UnlockAndReply, FailSet, Undo,
      Free

-----------------------------------------------------------------------------
(* Every client is where its program says                                    *)

(* The cases of a step of the client c or its thread.                        *)
Requested(c) ==
    \/ At(c, "CONNECT") /\ Accept(c) /\ Advance(c)
    \/ At(c, "LOGIN") /\ Login(c) /\ Advance(c)
    \/ At(c, "BEGIN") /\ Begin(c) /\ Advance(c)
    \/ At(c, "GET") /\ GetAsked(c) /\ Advance(c)
    \/ /\ At(c, "PUSH") /\ Push(c, 1) /\ Advance(c)
       /\ Answered(c) /\ Head(replies[c]) = "ok"
    \/ At(c, "ADD") /\ ArithOk(c, Sum(stack[c])) /\ Advance(c)
    \/ At(c, "SET") /\ SetAsked(c) /\ Advance(c)
    \/ At(c, "COMMIT") /\ Commit(c) /\ Advance(c)
    \/ At(c, "BYE") /\ Bye(c) /\ Exit(c, "ok")
    \/ GiveUp(c)

Working(c) == Reading(c) \/ RollingBack(c) \/ Writing(c) \/ Committing(c)

LEMMA StepCases ==
    ASSUME Base, ClientsInv, NEW c \in Conns, Client(c) \/ Thread(c)
    PROVE  Requested(c) \/ (Thread(c) /\ Working(c))
<1>1. CASE Client(c)
  BY <1>1 DEF Client, Send, Requested, GetAsked, SetAsked
<1>2. CASE Thread(c)
  BY <1>2, ThreadOf DEF Working
<1>3. QED
  BY <1>1, <1>2

LEMMA OwnOK ==
    ASSUME Base, ClientsInv, ValuesInv, NEW c \in Conns, Client(c) \/ Thread(c)
    PROVE  ClientOK(c)' /\ owner'[Table] # Junk
<1>1. owner[Table] # Junk /\ c # Junk
  BY NamesAssumption DEF ClientsInv
<1>2. CASE Requested(c)
  BY <1>1, <1>2, ConnectEffect, LoginEffect, BeginEffect, GetEffect, PushEffect,
     AddEffect, SetEffect, CommitEffect, ByeEffect, GiveUpEffect
  DEF Requested, Quiet
<1>3. CASE Thread(c) /\ Working(c)
  BY <1>3, ReadingEffect, RollingBackEffect, WritingEffect, CommittingEffect
  DEF Working
<1>4. QED
  BY <1>2, <1>3, StepCases

LEMMA ClientsStep ==
    ASSUME Base, ClientsInv, ValuesInv, NEW c \in Conns, Client(c) \/ Thread(c)
    PROVE  ClientsInv'
<1>1. ClientOK(c)' /\ owner'[Table] # Junk /\ tables' = tables
  BY OwnOK, ServerStep DEF Base, Known
<1>2. ASSUME NEW d \in Conns, d # c PROVE ClientOK(d)'
  BY <1>2, OthersSame, OthersOK DEF Base, Known, ClientsInv
<1>3. transactional' = transactional /\ step' \in [Conns -> Nat]
      /\ DOMAIN result' = Conns
  BY Moves, Advanced, Exited DEF ClientsInv, clients
<1>4. QED
  BY <1>1, <1>2, <1>3 DEF ClientsInv

LEMMA ClientsInit == IncrInit => ClientsInv
<1>1. SUFFICES ASSUME IncrInit PROVE ClientsInv
  OBVIOUS
<1>2. ASSUME NEW c \in Conns PROVE ClientOK(c)
  <2>1. step[c] = 1 /\ result[c] = "running"
    BY <1>1 DEF IncrInit, Each
  <2>2. step[c] \in 1 .. Len(Program(c)) /\ NextOf(c) = "CONNECT"
    <3>1. CASE c \in transactional
      BY <2>1, <3>1 DEF Program, NextOf
    <3>2. CASE c \notin transactional
      BY <2>1, <3>2 DEF Program, NextOf
    <3>3. QED
      BY <3>1, <3>2
  <2>3. pc[c] = "new" /\ Fresh(c)
    BY <1>1, ClientsAssumption DEF IncrInit, Each, Fresh, Own, AllTables, Empty
  <2>4. QED
    BY <2>1, <2>2, <2>3 DEF ClientOK, Running
<1>3. owner[Table] # Junk
  BY <1>1, ClientsAssumption, NamesAssumption DEF IncrInit, AllTables
<1>4. transactional \subseteq Conns
  BY <1>1, ClientsAssumption DEF IncrInit
<1>5. QED
  BY <1>1, <1>2, <1>3, <1>4 DEF IncrInit, ClientsInv, Each

-----------------------------------------------------------------------------
(* The values on their way are bounded by the attempts                       *)

(* The step of a client in its program goes from one request to the next.    *)
LEMMA Onward ==
    ASSUME Base, ClientsInv, NEW c \in Conns, Client(c) \/ Thread(c)
    PROVE  HasSetNow(c) => HasSetNow(c)'
<1>1. step[c] \in 1 .. Len(Program(c))
  BY DEF ClientsInv, ClientOK
<1>2. CASE Advance(c) /\ result[c] = "running" /\ NextOf(c) # "BYE"
  <2>1. NextOf(c)' = Program(c)[step[c] + 1]
    BY <1>2, Advanced
  <2>2. HasSetNow(c) => Program(c)[step[c] + 1] = "BYE"
    BY <1>1, <1>2, Programs DEF HasSetNow, NextOf
  <2>3. QED
    BY <2>1, <2>2 DEF HasSetNow
<1>3. CASE Exit(c, "ok") \/ Exit(c, "failed")
  BY <1>3, Exited DEF HasSetNow
<1>4. CASE UNCHANGED clients
  BY <1>4 DEF clients, HasSetNow, NextOf, Program
<1>5. QED
  BY <1>2, <1>3, <1>4, Moves

(* The attempts only grow, by one when a SET is sent.                        *)
LEMMA AttemptsGrow ==
    ASSUME Base, ClientsInv, ValuesInv, NEW c \in Conns, Client(c) \/ Thread(c)
    PROVE  /\ Attempts \in Nat /\ Attempts' \in Nat /\ Attempts <= Attempts'
           /\ ~HasSetNow(c) /\ HasSetNow(c)' => Attempts' = Attempts + 1
<1> DEFINE S == {d \in Conns : HasSet(d)}
           N == {d \in Conns : HasSetNow(d)}
<1>1. IsFiniteSet(Conns)
  BY ClientsAssumption
<1>2. S = N /\ IsFiniteSet(N)
  <2>1. S = N
    BY HasSetIs DEF ClientsInv
  <2>2. QED
    BY <1>1, <2>1, FS_Subset
<1>3. S' = N' /\ IsFiniteSet(N') /\ N' \subseteq Conns
  <2>1. ClientsInv'
    BY ClientsStep
  <2>2. ASSUME NEW d \in Conns PROVE HasSet(d)' <=> HasSetNow(d)'
    <3>1. ClientOK(d)'
      BY <2>1 DEF ClientsInv
    <3>2. (step[d] \in 1 .. Len(Program(d)))'
      BY <3>1 DEF ClientOK
    <3>3. LET p == Program(d)'
          IN  (\E j \in 1 .. step'[d] - 1 : p[j] = "SET")
                  <=> p[step'[d]] \in {"COMMIT", "BYE"}
      <4>1. CASE d \in transactional'
        <5>1. /\ Program(d)' = <<"CONNECT", "LOGIN", "BEGIN", "GET", "PUSH", "ADD",
                                 "SET", "COMMIT", "BYE">>
              /\ step'[d] \in 1 .. 9
          BY <3>2, <4>1 DEF Program
        <5>2. QED
          BY <5>1
      <4>2. CASE d \notin transactional'
        <5>1. /\ Program(d)' = <<"CONNECT", "LOGIN", "GET", "PUSH", "ADD", "SET",
                                 "BYE">>
              /\ step'[d] \in 1 .. 7
          BY <3>2, <4>2 DEF Program
        <5>2. QED
          BY <5>1
      <4>3. QED
        BY <4>1, <4>2
    <3>4. QED
      BY <3>3 DEF HasSet, HasSetNow, NextOf
  <2>3. S' = N'
    BY <2>2
  <2>4. QED
    BY <1>1, <2>3, FS_Subset
<1>4. ASSUME NEW d \in Conns, d # c PROVE HasSetNow(d)' <=> HasSetNow(d)
  BY <1>4, OthersSame DEF SameClient, HasSetNow, Base, Known
<1>5. HasSetNow(c) => HasSetNow(c)'
  BY Onward
<1>6. N \subseteq N' /\ (~HasSetNow(c) /\ HasSetNow(c)' => N' = N \cup {c} /\ c \notin N)
  BY <1>4, <1>5
<1>7. Cardinality(N) <= Cardinality(N') /\ Cardinality(N) \in Nat
      /\ Cardinality(N') \in Nat
  BY <1>2, <1>3, <1>6, FS_Subset, FS_CardinalityType
<1>8. ~HasSetNow(c) /\ HasSetNow(c)' => Cardinality(N') = Cardinality(N) + 1
  BY <1>2, <1>6, FS_AddElement
<1>9. Attempts = Cardinality(N) /\ Attempts' = Cardinality(N')
  BY <1>2, <1>3 DEF Attempts
<1>10. QED
  BY <1>7, <1>8, <1>9

LEMMA OthersValues ==
    ASSUME NEW d \in Conns, SameClient(d), ClientOK(d), ValuesOK(d),
           Attempts \in Nat, Attempts' \in Nat, Attempts <= Attempts',
           Vals \subseteq Nat
    PROVE  ValuesOK(d)'
<1>1. Refused(d)' = Refused(d) /\ Own(d)' = Own(d)
  BY OthersOK
<1>2. \A v : Bounded(v) => Bounded(v)'
  BY DEF Bounded
<1>3. /\ result'[d] = result[d] /\ NextOf(d)' = NextOf(d) /\ stack'[d] = stack[d]
      /\ pc'[d] = pc[d] /\ req'[d] = req[d]
  BY DEF SameClient, SameFor
<1>4. SUFFICES ASSUME result[d] = "running" PROVE ValuesOK(d)'
  BY <1>3 DEF ValuesOK
<1>5. /\ NextOf(d) = "PUSH" /\ ~Refused(d)' => Bounded(stack[d][1])
      /\ NextOf(d) = "ADD" => Bounded(stack[d][1])
      /\ NextOf(d) = "SET" => stack[d][1] \in Nat /\ stack[d][1] <= Attempts'+ 1
      /\ NextOf(d) = "COMMIT" => Bounded(Own(d))
      /\ NextOf(d) = "BYE" =>
           /\ pc[d] \in {"apply", "publish", "release"} => Bounded(Own(d))
           /\ pc[d] \in {"lock", "write", "save"} => Bounded(req[d][3])
  BY <1>1, <1>4 DEF ValuesOK
<1>6. QED
  BY <1>1, <1>2, <1>3, <1>5 DEF ValuesOK, Bounded

(* What c's step does to its own value and to those of the tuple.            *)
LEMMA OwnValues ==
    ASSUME Base, ClientsInv, ValuesInv, NEW c \in Conns, Client(c) \/ Thread(c)
    PROVE  ValuesOK(c)' /\ Bounded(Count)'
           /\ (temp[Table][Key] = None \/ Bounded(temp[Table][Key]))'
<1> DEFINE Tuple == /\ Bounded(Count)'
                    /\ (temp[Table][Key] = None \/ Bounded(temp[Table][Key]))'
<1>1. Vals \subseteq Nat /\ None \notin Vals
  BY ClientsAssumption, Maps, FS_CardinalityType
<1>2. /\ Attempts \in Nat /\ Attempts' \in Nat /\ Attempts <= Attempts'
      /\ ~HasSetNow(c) /\ HasSetNow(c)' => Attempts' = Attempts + 1
  BY AttemptsGrow
<1>3. \A v : Bounded(v) => Bounded(v)'
  BY <1>1, <1>2 DEF Bounded
<1>4. ValuesOK(c) /\ Bounded(Count) /\ Bounded(View(Table)[Key])
      /\ (temp[Table][Key] = None \/ Bounded(temp[Table][Key]))
  BY ViewIs DEF ValuesInv
<1>5. ASSUME UNCHANGED <<data, temp>> PROVE Tuple
  BY <1>3, <1>4, <1>5 DEF Count, Bounded
<1>6. CASE At(c, "CONNECT") /\ Accept(c) /\ Advance(c)
  BY <1>5, <1>6, ConnectEffect DEF ValuesOK, Quiet
<1>7. CASE At(c, "LOGIN") /\ Login(c) /\ Advance(c)
  BY <1>5, <1>7, LoginEffect DEF ValuesOK, Quiet
<1>8. CASE At(c, "BEGIN") /\ Begin(c) /\ Advance(c)
  BY <1>5, <1>8, BeginEffect DEF ValuesOK, Quiet
<1>9. CASE At(c, "GET") /\ GetAsked(c) /\ Advance(c)
  <2>1. /\ NextOf(c)' = "PUSH" /\ UNCHANGED <<data, temp>>
        /\ stack'[c][1] = View(Table)[Key] \/ Refused(c)'
    BY <1>9, GetEffect
  <2>2. Refused(c)' \/ Bounded(stack[c][1])'
    BY <1>3, <1>4, <2>1 DEF Bounded
  <2>3. QED
    BY <1>5, <2>1, <2>2 DEF ValuesOK
<1>10. CASE /\ At(c, "PUSH") /\ Push(c, 1) /\ Advance(c)
            /\ Answered(c) /\ Head(replies[c]) = "ok"
  <2>1. /\ NextOf(c)' = "ADD" /\ UNCHANGED <<data, temp>> /\ Bounded(stack[c][1])
        /\ stack'[c][1] = stack[c][1]
    BY <1>4, <1>10, PushEffect DEF Quiet, At, NextOf, ValuesOK
  <2>2. Bounded(stack[c][1])'
    BY <1>3, <2>1 DEF Bounded
  <2>3. QED
    BY <1>5, <2>1, <2>2 DEF ValuesOK
<1>11. CASE At(c, "ADD") /\ ArithOk(c, Sum(stack[c])) /\ Advance(c)
  <2>1. /\ NextOf(c)' = "SET" /\ UNCHANGED <<data, temp>> /\ Bounded(stack[c][1])
        /\ stack'[c][1] = stack[c][1] + 1
    BY <1>4, <1>11, AddEffect DEF Quiet, At, NextOf, ValuesOK
  <2>2. stack'[c][1] \in Nat /\ stack'[c][1] <= Attempts' + 1
    <3>1. stack[c][1] \in Nat /\ stack[c][1] <= Attempts
      BY <1>1, <2>1 DEF Bounded
    <3>2. QED
      BY <1>2, <2>1, <3>1
  <2>3. QED
    BY <1>5, <2>1, <2>2 DEF ValuesOK
<1>12. CASE At(c, "SET") /\ SetAsked(c) /\ Advance(c)
  <2>1. /\ UNCHANGED <<data, temp>> /\ stack[c][1] \in Vals /\ ClientOK(c)'
        /\ \/ NextOf(c)' = "COMMIT" /\ Own(c)' = stack[c][1] /\ pc'[c] = "read"
           \/ NextOf(c)' = "BYE" /\ pc'[c] = "lock" /\ req'[c][3] = stack[c][1]
    BY <1>12, SetEffect DEF Quiet
  <2>2. Attempts' = Attempts + 1
    BY <1>2, <1>12, <2>1 DEF At, NextOf, HasSetNow
  <2>3. stack[c][1] <= Attempts'
    BY <1>4, <1>12, <2>2 DEF At, NextOf, ValuesOK
  <2>4. /\ NextOf(c)' = "COMMIT" => Bounded(Own(c))'
        /\ NextOf(c)' = "BYE" => Bounded(req[c][3])'
    BY <2>1, <2>3 DEF Bounded
  <2>5. QED
    BY <1>5, <2>1, <2>4 DEF ValuesOK
<1>13. CASE At(c, "COMMIT") /\ Commit(c) /\ Advance(c)
  <2>1. /\ NextOf(c)' = "BYE" /\ UNCHANGED <<data, temp>> /\ Bounded(Own(c))
        /\ Own(c)' = Own(c) /\ pc'[c] = "apply"
    BY <1>4, <1>13, CommitEffect DEF Quiet, At, NextOf, ValuesOK
  <2>2. Bounded(Own(c))'
    BY <1>3, <2>1 DEF Bounded
  <2>3. QED
    BY <1>5, <2>1, <2>2 DEF ValuesOK
<1>14. CASE (At(c, "BYE") /\ Bye(c) /\ Exit(c, "ok")) \/ GiveUp(c)
  <2>1. UNCHANGED <<data, temp>> /\ result'[c] # "running"
    BY <1>14, ByeEffect, GiveUpEffect, Exited DEF Quiet, GiveUp
  <2>2. QED
    BY <1>5, <2>1 DEF ValuesOK
<1>15. CASE Thread(c) /\ Reading(c)
  <2>1. /\ result[c] = "running" /\ NextOf(c) = "PUSH" /\ NextOf(c)' = "PUSH"
        /\ UNCHANGED <<data, temp, stack>> /\ (Refused(c)' <=> Refused(c))
    BY <1>15, ReadingEffect, ThreadOf
  <2>2. Refused(c)' \/ Bounded(stack[c][1])'
    BY <1>3, <1>4, <2>1 DEF ValuesOK, Bounded
  <2>3. QED
    BY <1>5, <2>1, <2>2 DEF ValuesOK
<1>16. CASE Thread(c) /\ RollingBack(c)
  <2>1. /\ NextOf(c)' = "PUSH" /\ Refused(c)' /\ data' = data
        /\ temp'[Table][Key] \in {temp[Table][Key], None}
    BY <1>16, RollingBackEffect
  <2>2. Tuple
    BY <1>3, <1>4, <2>1 DEF Count, Bounded
  <2>3. QED
    BY <2>1, <2>2 DEF ValuesOK
<1>17. CASE Thread(c) /\ Writing(c)
  <2>1. /\ NextOf(c) = "BYE" /\ NextOf(c)' = "BYE" /\ result[c] = "running"
        /\ data'[Table][Key] \in {Count, View(Table)[Key]}
        /\ \/ temp'[Table][Key] \in {temp[Table][Key], None}
           \/ pc[c] = "write" /\ temp'[Table][Key] = req[c][3]
        /\ pc'[c] \in {"write", "save"} =>
              pc[c] \in {"lock", "write"} /\ req'[c] = req[c]
        /\ pc'[c] \in {"write", "save", "unlock", "read"}
    BY <1>17, WritingEffect, ThreadOf
  <2>2. pc[c] \in {"lock", "write", "save"} => Bounded(req[c][3])
    BY <1>4, <2>1 DEF ValuesOK
  <2>3. Tuple
    BY <1>3, <1>4, <2>1, <2>2 DEF Count, Bounded
  <2>4. pc'[c] \in {"write", "save"} => Bounded(req[c][3])'
    BY <1>3, <2>1, <2>2 DEF Bounded
  <2>5. QED
    BY <2>1, <2>3, <2>4 DEF ValuesOK
<1>18. CASE Thread(c) /\ Committing(c)
  <2>1. /\ NextOf(c) = "BYE" /\ NextOf(c)' = "BYE" /\ result[c] = "running"
        /\ data'[Table][Key] \in {Count, View(Table)[Key]}
        /\ \/ temp'[Table][Key] \in {temp[Table][Key], None}
           \/ temp'[Table][Key] = Own(c)
        /\ Committing(c)' \/ pc'[c] = "read"
        /\ pc'[c] # "read" => Own(c)' = Own(c)
    BY <1>18, CommittingEffect, ThreadOf DEF Count
  <2>2. Bounded(Own(c))
    BY <1>4, <1>18, <2>1 DEF ValuesOK, Committing
  <2>3. Tuple
    BY <1>3, <1>4, <2>1, <2>2 DEF Count, Bounded
  <2>4. pc'[c] # "read" => Bounded(Own(c))'
    BY <1>3, <2>1, <2>2 DEF Bounded
  <2>5. QED
    BY <2>1, <2>3, <2>4 DEF ValuesOK, Committing
<1>19. QED
  BY <1>6, <1>7, <1>8, <1>9, <1>10, <1>11, <1>12, <1>13, <1>14, <1>15, <1>16,
     <1>17, <1>18, StepCases
  DEF Requested, Working

LEMMA ValuesStep ==
    ASSUME Base, ClientsInv, ValuesInv, NEW c \in Conns, Client(c) \/ Thread(c)
    PROVE  ValuesInv'
<1>1. Vals \subseteq Nat
  BY ClientsAssumption, FS_CardinalityType
<1>2. ASSUME NEW d \in Conns, d # c PROVE ValuesOK(d)'
  <2>1. SameClient(d)
    BY <1>2, OthersSame DEF Base, Known
  <2>2. Attempts \in Nat /\ Attempts' \in Nat /\ Attempts <= Attempts'
    BY AttemptsGrow
  <2>3. ClientOK(d) /\ ValuesOK(d)
    BY DEF ClientsInv, ValuesInv
  <2>4. QED
    BY <1>1, <2>1, <2>2, <2>3, OthersValues
<1>3. QED
  BY <1>2, OwnValues DEF ValuesInv

-----------------------------------------------------------------------------
(* A refused client has been refused for the sake of another                 *)

(* A client that has its GET behind it will be told OK at the end.           *)
LEMMA SafeStays ==
    ASSUME Base, ClientsInv, ValuesInv, NEW c \in Conns, Client(c) \/ Thread(c),
           NEW d \in Conns, Safe(d)
    PROVE  Safe(d)'
<1>1. CASE d # c
  <2>1. SameClient(d) /\ ClientOK(d)
    BY <1>1, OthersSame DEF Base, Known, ClientsInv
  <2>2. Refused(d)' = Refused(d) /\ NextOf(d)' = NextOf(d)
    BY <2>1, OthersOK DEF SameClient
  <2>3. QED
    BY <2>2 DEF Safe
<1>2. CASE d = c /\ Requested(c)
  <2>1. NextOf(c)' \in {"ADD", "SET", "COMMIT", "BYE"}
    BY <1>2, PushEffect, AddEffect, SetEffect, CommitEffect, ByeEffect, GiveUpEffect
    DEF Requested, Safe, At, NextOf
  <2>2. QED
    BY <1>2, <2>1 DEF Safe, Refused
<1>3. CASE d = c /\ Thread(c) /\ Working(c)
  BY <1>3, ReadingEffect, RollingBackEffect, WritingEffect, CommittingEffect
  DEF Working, Safe, Refused
<1>4. QED
  BY <1>1, <1>2, <1>3, StepCases

LEMMA HolderSafe ==
    ASSUME Base, ClientsInv, NEW d \in Conns, owner[Table] = d
    PROVE  Safe(d)
<1>1. Holds(d, Table)
  BY Maps DEF Base, Known, LockInv, LockOK
<1>2. Table \in locked[d] => inTxn[d]
  BY Maps
<1>3. <<Table, Key, None>> # None
  BY Maps, NamesAssumption DEF Targets
<1>4. ~RollingBack(d)
  <2>1. SUFFICES ASSUME RollingBack(d) PROVE FALSE
    OBVIOUS
  <2>2. pc[d] \in {"undo", "free"} /\ req[d] # None /\ req[d][1] = Table
    BY <1>3, <2>1 DEF RollingBack
  <2>3. QED
    BY <1>1, <2>2 DEF Holds
<1>5. ClientOK(d)
  BY DEF ClientsInv
<1>6. CASE result[d] # "running"
  BY <1>1, <1>2, <1>5, <1>6 DEF ClientOK, Safe, Refused, Holds
<1>7. CASE result[d] = "running"
  <2>1. Running(d)
    BY <1>5, <1>7 DEF ClientOK
  <2>2. inTxn[d] \/ pc[d] \in {"write", "save", "unlock"}
    BY <1>1, <1>2 DEF Holds
  <2>3. CASE NextOf(d) = "PUSH"
    <3>1. Open(d, 1)
      BY <1>4, <2>1, <2>2, <2>3 DEF Running, AfterGet, Reading, Idle
    <3>2. Idle(d, "ok") /\ ~Idle(d, "failed")
      BY <3>1, OneElement DEF Open, Idle
    <3>3. QED
      BY <2>3, <3>2 DEF Safe, Refused, Idle
  <2>4. CASE NextOf(d) # "PUSH"
    BY <1>1, <2>1, <2>2, <2>4 DEF Running, Fresh, Idle, Holds, Safe, Refused
  <2>5. QED
    BY <2>3, <2>4
<1>8. QED
  BY <1>6, <1>7

LEMMA MutatorSafe ==
    ASSUME ClientsInv, NEW d \in Conns, Mutating(d, Table)
    PROVE  Safe(d) \/ Refused(d)
<1>1. pc[d] \in {"write", "save", "apply", "publish", "undo"}
  BY DEF Mutating
<1>2. ClientOK(d)
  BY DEF ClientsInv
<1>3. QED
  BY <1>1, <1>2
  DEF ClientOK, Running, AfterGet, Fresh, Open, Idle, Reading, RollingBack, Safe,
      Refused

LEMMA HopeStep ==
    ASSUME Base, ClientsInv, ValuesInv, HopeInv, NEW c \in Conns,
           Client(c) \/ Thread(c)
    PROVE  HopeInv'
<1>1. SUFFICES ASSUME NEW e \in Conns, Refused(e)' PROVE \E d \in Conns : Safe(d)
  BY SafeStays DEF HopeInv
<1>2. CASE Refused(e)
  BY <1>2 DEF HopeInv
<1>3. CASE ~Refused(e)
  <2>1. e = c
    <3>1. ASSUME e # c PROVE FALSE
      <4>1. SameClient(e) /\ ClientOK(e)
        BY <3>1, OthersSame DEF Base, Known, ClientsInv
      <4>2. QED
        BY <1>1, <1>3, <4>1, OthersOK
    <3>2. QED
      BY <3>1
  <2>2. At(c, "GET") /\ GetAsked(c) /\ Advance(c)
    <3>1. NextOf(c)' = "PUSH" /\ ~Refused(c) /\ Refused(c)'
      BY <1>1, <1>3, <2>1 DEF Refused
    <3>2. ~(Thread(c) /\ Working(c))
      BY <3>1, ReadingEffect, RollingBackEffect, WritingEffect, CommittingEffect
      DEF Working
    <3>3. QED
      BY <3>1, <3>2, StepCases, ConnectEffect, LoginEffect, BeginEffect, PushEffect,
         AddEffect, SetEffect, CommitEffect, ByeEffect, GiveUpEffect
      DEF Requested
  <2>3. owner[Table] # None \/ \E d \in Conns \ {c} : Mutating(d, Table)
    BY <1>1, <2>1, <2>2, GetEffect
  <2>4. CASE owner[Table] # None
    <3>1. owner[Table] \in Conns
      BY <2>4, Maps DEF ClientsInv
    <3>2. QED
      BY <3>1, HolderSafe
  <2>5. CASE \E d \in Conns \ {c} : Mutating(d, Table)
    BY <2>5, MutatorSafe DEF HopeInv
  <2>6. QED
    BY <2>3, <2>4, <2>5
<1>4. QED
  BY <1>2, <1>3

-----------------------------------------------------------------------------
(* With -t everywhere, and no table robbed, no increment is lost             *)

(* From its GET until it has published, a client owns the table.             *)
Invested(d) ==
    /\ result[d] = "running"
    /\ \/ NextOf(d) = "PUSH" /\ ~Refused(d)
       \/ NextOf(d) \in {"ADD", "SET", "COMMIT"}
       \/ NextOf(d) = "BYE" /\ Unpublished(d)

LEMMA InvestedOwns ==
    ASSUME Base, ClientsInv, robbed = {}, NEW d \in transactional, Invested(d)
    PROVE  owner[Table] = d
<1>1. d \in Conns /\ Running(d)
  BY DEF Invested, ClientsInv, ClientOK
<1>2. locked[d] = {Table} /\ pc[d] \in {"read", "apply", "publish"}
  BY <1>1
  DEF Invested, Running, AfterGet, Open, Idle, RollingBack, Refused, Committing,
      Unpublished
<1>3. Holds(d, Table)
  BY <1>2 DEF Holds
<1>4. QED
  BY <1>1, <1>3, Maps DEF Base, Known, HeldLocksAreOwned

LEMMA OthersExact ==
    ASSUME Base, ClientsInv, ValuesInv, NEW c \in Conns, Client(c) \/ Thread(c),
           robbed' = {}, robbed = {}, NEW d \in transactional, d # c, ExactOK(d)
    PROVE  ExactOK(d)'
<1>1. d \in Conns /\ ClientOK(d)
  BY DEF ClientsInv
<1>2. SameClient(d) /\ Refused(d)' = Refused(d) /\ Own(d)' = Own(d)
  BY <1>1, OthersSame, OthersOK DEF Base, Known
<1>3. CASE Invested(d)
  <2>1. owner[Table] = d
    BY <1>3, InvestedOwns
  <2>2. (Request(c) \/ Internal(c)) /\ ~ArithKills(c)
    BY ServerStep DEF Base, Known
  <2>3. data'[Table] = data[Table] /\ temp'[Table] = temp[Table]
    BY <2>1, <2>2, ChangedByOwner, Maps DEF Base, Known
  <2>4. QED
    BY <1>2, <2>3
    DEF ExactOK, SameClient, SameFor, Count, Unpublished
<1>4. CASE ~Invested(d)
  BY <1>2, <1>4 DEF Invested, ExactOK, SameClient, SameFor, Unpublished
<1>5. QED
  BY <1>3, <1>4

(* What c's step does to the count, and to what it knows of the count.       *)
LEMMA OwnExact ==
    ASSUME Base, ClientsInv, ValuesInv, NEW c \in transactional,
           Client(c) \/ Thread(c), robbed = {}, ExactOK(c)
    PROVE  /\ ExactOK(c)'
           /\ \/ Count' = Count /\ (Counted(c)' <=> Counted(c))
              \/ Count' = Count + 1 /\ ~Counted(c) /\ Counted(c)'
<1>1. c \in Conns /\ ClientOK(c) /\ TypeOK
  BY DEF ClientsInv, Base, Known
<1>2. UNCHANGED <<data, temp>> =>
        Count' = Count /\ temp'[Table][Key] = temp[Table][Key]
  BY DEF Count
<1>3. CASE \/ At(c, "CONNECT") /\ Accept(c) /\ Advance(c)
           \/ At(c, "LOGIN") /\ Login(c) /\ Advance(c)
           \/ At(c, "BEGIN") /\ Begin(c) /\ Advance(c)
  <2>1. /\ NextOf(c) \in {"CONNECT", "LOGIN", "BEGIN"} /\ UNCHANGED <<data, temp>>
        /\ NextOf(c)' \in {"LOGIN", "BEGIN", "GET"}
    BY <1>1, <1>3, ConnectEffect, LoginEffect, BeginEffect DEF Quiet, At, NextOf
  <2>2. QED
    BY <1>2, <2>1 DEF ExactOK, Counted
<1>4. CASE At(c, "GET") /\ GetAsked(c) /\ Advance(c)
  <2>1. /\ NextOf(c) = "GET" /\ NextOf(c)' = "PUSH" /\ UNCHANGED <<data, temp>>
        /\ \/ stack'[c][1] = View(Table)[Key] /\ owner[Table] = None
           \/ Refused(c)'
    BY <1>1, <1>4, GetEffect DEF At, NextOf
  <2>2. owner[Table] = None => View(Table)[Key] = Count
    <3>1. pc[c] = "read"
      BY <1>1, <2>1, <1>4 DEF ClientOK, Running, Idle, At, NextOf
    <3>2. owner[Table] = None => temp[Table] = Empty
      BY <1>1, <3>1, CleanBetween, Maps DEF Base
    <3>3. QED
      BY <3>2, ViewIs, Maps DEF Empty
  <2>3. QED
    BY <1>2, <2>1, <2>2 DEF ExactOK, Counted
<1>5. CASE /\ At(c, "PUSH") /\ Push(c, 1) /\ Advance(c)
           /\ Answered(c) /\ Head(replies[c]) = "ok"
  <2>1. /\ NextOf(c) = "PUSH" /\ NextOf(c)' = "ADD" /\ UNCHANGED <<data, temp>>
        /\ result[c] = "running" /\ stack'[c][1] = stack[c][1] /\ ~Refused(c)
    BY <1>1, <1>5, PushEffect DEF Quiet, At, NextOf
  <2>2. QED
    BY <1>2, <2>1 DEF ExactOK, Counted
<1>6. CASE At(c, "ADD") /\ ArithOk(c, Sum(stack[c])) /\ Advance(c)
  <2>1. /\ NextOf(c) = "ADD" /\ NextOf(c)' = "SET" /\ UNCHANGED <<data, temp>>
        /\ result[c] = "running" /\ stack'[c][1] = stack[c][1] + 1
    BY <1>1, <1>6, AddEffect DEF Quiet, At, NextOf
  <2>2. QED
    BY <1>2, <2>1 DEF ExactOK, Counted
<1>7. CASE At(c, "SET") /\ SetAsked(c) /\ Advance(c)
  <2>1. /\ NextOf(c) = "SET" /\ NextOf(c)' = "COMMIT" /\ UNCHANGED <<data, temp>>
        /\ result[c] = "running" /\ Own(c)' = stack[c][1]
    BY <1>1, <1>7, SetEffect DEF Quiet, At, NextOf
  <2>2. QED
    BY <1>2, <2>1 DEF ExactOK, Counted
<1>8. CASE At(c, "COMMIT") /\ Commit(c) /\ Advance(c)
  <2>1. /\ NextOf(c) = "COMMIT" /\ NextOf(c)' = "BYE" /\ UNCHANGED <<data, temp>>
        /\ result[c] = "running" /\ pc'[c] = "apply" /\ Own(c)' = Own(c)
        /\ pc[c] = "read" /\ <<Table, Key>> \in writes'[c]
    BY <1>1, <1>8, CommitEffect DEF Quiet, At, NextOf
  <2>2. owner[Table] = c
    BY <2>1, InvestedOwns DEF Invested
  <2>3. temp[Table][Key] = None
    BY <1>1, <2>1, <2>2, CleanBetween, Maps DEF Base, Empty
  <2>4. QED
    BY <1>2, <2>1, <2>3 DEF ExactOK, Counted, Unpublished
<1>9. CASE At(c, "BYE") /\ Bye(c) /\ Exit(c, "ok")
  <2>1. /\ NextOf(c) = "BYE" /\ NextOf(c)' = "BYE" /\ UNCHANGED <<data, temp>>
        /\ pc[c] = "read" /\ pc'[c] = "closed"
    BY <1>1, <1>9, ByeEffect DEF Quiet
  <2>2. QED
    BY <1>2, <2>1 DEF ExactOK, Counted, Unpublished
<1>10. CASE GiveUp(c) \/ (Thread(c) /\ RollingBack(c))
  <2>1. /\ NextOf(c) = "PUSH" /\ NextOf(c)' = "PUSH" /\ data' = data
        /\ result'[c] = "running" => Refused(c)'
    BY <1>1, <1>10, GiveUpEffect, RollingBackEffect, Exited
    DEF Quiet, GiveUp, Refused
  <2>2. QED
    BY <2>1 DEF ExactOK, Counted, Count
<1>11. CASE Thread(c) /\ Committing(c)
  <2>1. /\ result[c] = "running" /\ NextOf(c) = "BYE" /\ NextOf(c)' = "BYE"
        /\ pc'[c] # "read" => Own(c)' = Own(c)
    BY <1>1, <1>11, CommittingEffect, ThreadOf
  <2>2. CASE /\ pc[c] = "apply" /\ pc'[c] = "apply" /\ data' = data
             /\ \E w \in writes[c] :
                  /\ writes'[c] = writes[c] \ {w}
                  /\ temp'[Table][Key] = IF w = <<Table, Key>>
                                           THEN Own(c) ELSE temp[Table][Key]
    <3>1. PICK w \in writes[c] :
             /\ writes'[c] = writes[c] \ {w}
             /\ temp'[Table][Key] = IF w = <<Table, Key>>
                                      THEN Own(c) ELSE temp[Table][Key]
      BY <2>2
    <3>2. <<Table, Key>> \in writes'[c] <=>
            <<Table, Key>> \in writes[c] /\ w # <<Table, Key>>
      BY <3>1
    <3>3. Count' = Count
      BY <2>2 DEF Count
    <3>4. QED
      BY <2>1, <2>2, <3>1, <3>2, <3>3 DEF ExactOK, Counted, Unpublished
  <2>3. CASE /\ pc[c] = "apply" /\ pc'[c] = "publish" /\ writes[c] = {}
             /\ todo'[c] = {Table} /\ data' = data /\ temp' = temp
    BY <1>2, <2>1, <2>3 DEF ExactOK, Counted, Unpublished
  <2>4. CASE /\ pc[c] = "publish" /\ pc'[c] = "publish"
             /\ todo[c] = {Table} /\ todo'[c] = {}
             /\ data'[Table][Key] = View(Table)[Key]
    <3>1. temp[Table][Key] = Own(c) /\ Own(c) = Count + 1
      BY <2>1, <2>4 DEF ExactOK, Unpublished
    <3>2. Own(c) # None
      BY <1>11 DEF Committing
    <3>3. Count' = Count + 1
      BY <2>4, <3>1, <3>2, ViewIs DEF Count
    <3>4. QED
      BY <2>1, <2>4, <3>3 DEF ExactOK, Counted, Unpublished
  <2>5. CASE /\ pc[c] \in {"publish", "release"} /\ pc'[c] \in {"release", "read"}
             /\ pc[c] = "publish" => todo[c] = {}
             /\ data' = data /\ temp' = temp
    BY <1>2, <2>1, <2>5 DEF ExactOK, Counted, Unpublished
  <2>6. QED
    BY <1>1, <1>11, <2>2, <2>3, <2>4, <2>5, CommittingEffect
<1>12. ~(Thread(c) /\ Reading(c)) /\ ~(Thread(c) /\ Writing(c))
  BY <1>1, ReadingEffect, WritingEffect
<1>13. QED
  BY <1>1, <1>3, <1>4, <1>5, <1>6, <1>7, <1>8, <1>9, <1>10, <1>11, <1>12, StepCases
  DEF Requested, Working

LEMMA ExactStep ==
    ASSUME Base, ClientsInv, ValuesInv, ExactInv, NEW c \in Conns,
           Client(c) \/ Thread(c)
    PROVE  ExactInv'
<1> DEFINE C == {d \in Conns : Counted(d)}
<1>1. SUFFICES ASSUME transactional' = Conns, robbed' = {}
               PROVE  /\ Count' = Cardinality(C')
                      /\ \A d \in Conns : ExactOK(d)'
  BY DEF ExactInv
<1>2. (Request(c) \/ Internal(c)) /\ ~ArithKills(c)
  BY ServerStep DEF Base, Known
<1>3. robbed = {}
  BY <1>1, <1>2, OthersKeepTheirs DEF Base, Known
<1>4. transactional = Conns
  BY <1>1, Moves DEF Advance, Exit, clients
<1>5. Count = Cardinality(C) /\ \A d \in Conns : ExactOK(d)
  BY <1>3, <1>4 DEF ExactInv
<1>6. \A d \in Conns : ExactOK(d)'
  BY <1>1, <1>3, <1>4, <1>5, OwnExact, OthersExact
<1>7. ASSUME NEW d \in Conns, d # c PROVE Counted(d)' <=> Counted(d)
  BY <1>7, OthersSame DEF Base, Known, SameClient, SameFor, Counted, Unpublished
<1>8. IsFiniteSet(C)
  BY ClientsAssumption, FS_Subset
<1>9. CASE Count' = Count /\ (Counted(c)' <=> Counted(c))
  <2>1. C' = C
    BY <1>7, <1>9
  <2>2. QED
    BY <1>5, <1>6, <1>9, <2>1
<1>10. CASE Count' = Count + 1 /\ ~Counted(c) /\ Counted(c)'
  <2>1. C' = C \cup {c} /\ c \notin C
    BY <1>7, <1>10
  <2>2. Cardinality(C') = Cardinality(C) + 1
    BY <1>8, <2>1, FS_AddElement
  <2>3. QED
    BY <1>5, <1>6, <1>10, <2>2
<1>11. QED
  BY <1>3, <1>4, <1>5, <1>9, <1>10, OwnExact

-----------------------------------------------------------------------------
(* The theorems                                                              *)

IncrInv == Base /\ ClientsInv /\ ValuesInv /\ HopeInv /\ ExactInv

LEMMA IncrInvInit == IncrInit => IncrInv
<1>1. SUFFICES ASSUME IncrInit PROVE IncrInv
  OBVIOUS
<1>2. Base /\ ClientsInv
  BY <1>1, BaseInit, ClientsInit
<1>3. Table \in Tables /\ Key \in Keys /\ IsFiniteSet(Conns)
      /\ Vals = 0 .. Cardinality(Conns)
  BY ClientsAssumption
<1>4. Count = 0 /\ temp[Table][Key] = None
  BY <1>1, <1>3 DEF IncrInit, Count, AllTables, Empty
<1>5. ASSUME NEW c \in Conns
      PROVE  NextOf(c) = "CONNECT" /\ ~Refused(c) /\ ~HasSet(c) /\ ~Counted(c)
  <2>1. step[c] = 1 /\ step[c] \in 1 .. Len(Program(c))
    BY <1>1, <1>2 DEF IncrInit, Each, ClientsInv, ClientOK
  <2>2. NextOf(c) = "CONNECT"
    BY <2>1, Programs DEF NextOf
  <2>3. ~HasSet(c)
    BY <2>1 DEF HasSet
  <2>4. QED
    BY <2>2, <2>3 DEF Refused, Counted
<1>6. Bounded(0)
  <2>1. Attempts = 0
    BY <1>5, FS_EmptySet DEF Attempts
  <2>2. QED
    BY <1>3, <2>1, FS_CardinalityType DEF Bounded
<1>7. ValuesInv
  BY <1>4, <1>5, <1>6 DEF ValuesInv, ValuesOK
<1>8. HopeInv
  BY <1>5 DEF HopeInv
<1>9. ExactInv
  <2>1. {c \in Conns : Counted(c)} = {}
    BY <1>5
  <2>2. QED
    BY <1>4, <1>5, <2>1, FS_EmptySet DEF ExactInv, ExactOK
<1>10. QED
  BY <1>2, <1>7, <1>8, <1>9 DEF IncrInv

LEMMA IncrInvStep ==
    ASSUME IncrInv, [IncrNext]_allVars
    PROVE  IncrInv'
<1>1. Base /\ ClientsInv /\ ValuesInv /\ HopeInv /\ ExactInv
  BY DEF IncrInv
<1>2. CASE IncrNext
  <2>1. PICK c \in Conns : Client(c) \/ Thread(c)
    BY <1>2 DEF IncrNext
  <2>2. Base'
    BY <1>1, <2>1, ServerStep, BaseStep DEF Next, Base, Known
  <2>3. QED
    BY <1>1, <2>1, <2>2, ClientsStep, ValuesStep, HopeStep, ExactStep DEF IncrInv
<1>3. CASE UNCHANGED allVars
  <2>1. UNCHANGED vars /\ UNCHANGED clients
    BY <1>3 DEF allVars
  <2>2. Base'
    BY <1>1, <2>1, BaseStep
  <2>3. /\ UNCHANGED <<tables, owner, data, temp, robbed, pc, req, then, todo, writes>>
        /\ UNCHANGED <<inTxn, locked, buffer, stack, replies>>
        /\ UNCHANGED <<transactional, step, result>>
    BY <2>1 DEF vars, shared, control, txn, operand, clients
  <2>4. ASSUME NEW c \in Conns
        PROVE  /\ ClientOK(c)' /\ SameClient(c) /\ Own(c)' = Own(c)
               /\ Refused(c)' = Refused(c) /\ HasSet(c)' = HasSet(c)
               /\ Safe(c)' = Safe(c) /\ Counted(c)' = Counted(c)
    <3>1. SameClient(c) /\ ClientOK(c)
      BY <1>1, <2>3 DEF ClientsInv, SameClient, SameFor, Program, NextOf
    <3>2. ClientOK(c)' /\ Refused(c)' = Refused(c) /\ Own(c)' = Own(c)
      BY <3>1, OthersOK
    <3>3. HasSet(c)' = HasSet(c) /\ Counted(c)' = Counted(c)
      BY <2>3 DEF HasSet, Program, NextOf, Counted, Unpublished
    <3>4. QED
      BY <3>1, <3>2, <3>3 DEF Safe, SameClient
  <2>5. ClientsInv' /\ HopeInv'
    BY <1>1, <2>3, <2>4 DEF ClientsInv, HopeInv
  <2>6. Attempts' = Attempts
    BY <2>4 DEF Attempts
  <2>7. ValuesInv'
    <3>1. ASSUME NEW c \in Conns PROVE ValuesOK(c)'
      BY <1>1, <2>3, <2>4, <2>6
      DEF ValuesInv, ValuesOK, Bounded, SameClient
    <3>2. QED
      BY <1>1, <2>3, <2>6, <3>1 DEF ValuesInv, Bounded, Count
  <2>8. ExactInv'
    <3>1. ASSUME NEW c \in Conns, ExactOK(c) PROVE ExactOK(c)'
      BY <2>3, <2>4, <3>1 DEF ExactOK, SameClient, Count, Unpublished
    <3>2. {c \in Conns : Counted(c)}' = {c \in Conns : Counted(c)}
      BY <2>4
    <3>3. QED
      BY <1>1, <2>3, <3>1, <3>2 DEF ExactInv, Count
  <2>9. QED
    BY <2>2, <2>5, <2>7, <2>8 DEF IncrInv
<1>4. QED
  BY <1>2, <1>3

(* The clients and the server stay in step, whatever the interleaving.       *)
THEOREM ClientsInStep == IncrSpec => []IncrInv
<1>1. IncrInit => IncrInv
  BY IncrInvInit
<1>2. IncrInv /\ [IncrNext]_allVars => IncrInv'
  BY IncrInvStep
<1>3. QED
  BY <1>1, <1>2, PTL DEF IncrSpec

(* The server's own invariants survive the composition with its clients:     *)
(* no step of a client is one that the server does not allow.                *)
THEOREM ClientsUseTheServer == IncrSpec => [][Next]_vars
<1>1. IncrInv /\ [IncrNext]_allVars => [Next]_vars
  <2>1. SUFFICES ASSUME IncrInv, [IncrNext]_allVars PROVE [Next]_vars
    OBVIOUS
  <2>2. CASE IncrNext
    BY <2>1, <2>2, ServerStep DEF IncrNext, Next, IncrInv, Base, Known
  <2>3. CASE UNCHANGED allVars
    BY <2>3 DEF allVars
  <2>4. QED
    BY <2>1, <2>2, <2>3
<1>2. QED
  BY <1>1, ClientsInStep, PTL DEF IncrSpec

(* For any number of clients, with or without -t: neither the count nor what *)
(* is on its way to it ever exceeds the number of increments attempted.      *)
THEOREM CountBounded == IncrSpec => []NeverTooHigh
<1>1. IncrInv => NeverTooHigh
  BY DEF IncrInv, ValuesInv, Bounded, Attempts, NeverTooHigh
<1>2. QED
  BY <1>1, ClientsInStep, PTL

(* With -t everywhere, and as long as no table is robbed, the final count is *)
(* the number of clients that were told OK, for any number of them.          *)
THEOREM NoIncrementLost == IncrSpec => []SuccessesCounted
<1>1. IncrInv => SuccessesCounted
  <2>1. SUFFICES ASSUME IncrInv, Ended, robbed = {}, transactional = Conns
                 PROVE  Count = Cardinality(Successes)
    BY DEF SuccessesCounted
  <2>2. Count = Cardinality({c \in Conns : Counted(c)})
    BY <2>1 DEF IncrInv, ExactInv
  <2>3. ASSUME NEW c \in Conns PROVE Counted(c) <=> result[c] = "ok"
    <3>1. ClientOK(c) /\ pc[c] = "closed" /\ result[c] # "running"
      BY <2>1 DEF IncrInv, ClientsInv, Ended
    <3>2. QED
      BY <3>1 DEF ClientOK, Counted, Unpublished
  <2>4. {c \in Conns : Counted(c)} = Successes
    BY <2>3 DEF Successes
  <2>5. QED
    BY <2>2, <2>4
<1>2. QED
  BY <1>1, ClientsInStep, PTL

(* As soon as there are clients at all, not all of them give way to each     *)
(* other: when all have ended, somebody was told OK.                         *)
THEOREM OneGetsThrough ==
    ASSUME Conns # {}
    PROVE  IncrSpec => []SomebodySucceeds
<1>1. IncrInv => SomebodySucceeds
  <2>1. SUFFICES ASSUME IncrInv, Ended PROVE Successes # {}
    BY DEF SomebodySucceeds
  <2>2. PICK c \in Conns : TRUE
    OBVIOUS
  <2>3. \A d \in Conns : /\ result[d] \in {"ok", "failed"}
                         /\ result[d] = "failed" => Refused(d)
    BY <2>1 DEF IncrInv, ClientsInv, ClientOK, Ended, Refused
  <2>4. CASE result[c] = "ok"
    BY <2>4 DEF Successes
  <2>5. CASE result[c] = "failed"
    <3>1. PICK d \in Conns : Safe(d)
      BY <2>1, <2>3, <2>5 DEF IncrInv, HopeInv
    <3>2. result[d] = "ok"
      BY <2>3, <3>1 DEF Safe
    <3>3. QED
      BY <3>2 DEF Successes
  <2>6. QED
    BY <2>3, <2>4, <2>5
<1>2. QED
  BY <1>1, ClientsInStep, PTL

=============================================================================
