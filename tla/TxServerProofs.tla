--------------------------- MODULE TxServerProofs ---------------------------
(***************************************************************************)
(* Theorems about TxServer, for every set of connections, tables, keys and *)
(* values: typing first, then the invariants about locks, and last that it *)
(* implements AtomicStore: the step simulation and its invariant.          *)
(***************************************************************************)
EXTENDS StoreRefinement, SequenceTheorems, TLAPS

-----------------------------------------------------------------------------
(* Typing of the operators the actions are built from *)

LEMMA StoreTypes ==
    /\ Empty \in Store
    /\ \A under, over \in Store : Overlay(under, over) \in Store
  BY DEF Empty, Store, Overlay

LEMMA TableSetType ==
    ASSUME SharedTypeOK, NEW c \in Conns, NEW t \in Tables, NEW k \in Keys,
           NEW v \in Vals \cup {None}, TableSet(c, t, k, v)
    PROVE  SharedTypeOK'
  BY DEF SharedTypeOK, TableSet, Trespass, Store

LEMMA CommitChangesType ==
    ASSUME SharedTypeOK, NEW c \in Conns, NEW t \in Tables, CommitChanges(c, t)
    PROVE  SharedTypeOK'
<1>1. View(t) \in Store
  BY StoreTypes DEF View, SharedTypeOK
<1>2. QED
  BY <1>1, StoreTypes DEF SharedTypeOK, CommitChanges, Trespass

LEMMA RollbackChangesType ==
    ASSUME SharedTypeOK, NEW c \in Conns, NEW t \in Tables, RollbackChanges(c, t)
    PROVE  SharedTypeOK'
  BY StoreTypes DEF SharedTypeOK, RollbackChanges, Trespass

LEMMA UnlockType ==
    ASSUME SharedTypeOK, NEW c \in Conns, NEW t \in Tables, Unlock(c, t)
    PROVE  SharedTypeOK'
  BY DEF SharedTypeOK, Unlock

LEMMA LockInTxnType ==
    ASSUME SharedTypeOK, TxnTypeOK, NEW c \in Conns, NEW t \in Tables,
           LockInTxn(c, t)
    PROVE  SharedTypeOK' /\ locked' \in [Conns -> SUBSET Tables]
  BY DEF SharedTypeOK, TxnTypeOK, LockInTxn

LEMMA ContinueType ==
    ASSUME ControlTypeOK, NEW c \in Conns, NEW l \in Labels,
           NEW x \in Targets \cup {None}, NEW e \in Endings, Continue(c, l, x, e)
    PROVE  ControlTypeOK'
  BY DEF ControlTypeOK, Continue, Goto

LEMMA FinishType ==
    ASSUME ControlTypeOK, NEW c \in Conns, Finish(c)
    PROVE  ControlTypeOK'
  BY ContinueType DEF Finish, Labels, Endings

LEMMA StartRollbackType ==
    ASSUME ControlTypeOK, locked' \in [Conns -> SUBSET Tables], NEW c \in Conns,
           NEW x \in Targets \cup {None}, NEW e \in Endings, StartRollback(c, x, e)
    PROVE  ControlTypeOK'
  BY DEF ControlTypeOK, StartRollback, Goto, Labels

LEMMA LoopType ==
    ASSUME ControlTypeOK, TxnTypeOK, NEW c \in Conns, NEW l \in Labels, Loop(c, l)
    PROVE  ControlTypeOK'
  BY DEF ControlTypeOK, TxnTypeOK, Loop, Goto

LEMMA VisitType ==
    ASSUME ControlTypeOK, NEW c \in Conns, NEW t \in Tables, Visit(c, t)
    PROVE  ControlTypeOK'
  BY DEF ControlTypeOK, Visit

LEMMA GotoType ==
    ASSUME ControlTypeOK, NEW c \in Conns, NEW l \in Labels, Goto(c, l),
           UNCHANGED <<req, then, todo, writes>>
    PROVE  ControlTypeOK'
  BY DEF ControlTypeOK, Goto

LEMMA EndTxnType ==
    ASSUME TxnTypeOK, NEW c \in Conns, EndTxn(c)
    PROVE  /\ inTxn' \in [Conns -> BOOLEAN]
           /\ locked' \in [Conns -> SUBSET Tables]
           /\ seen' \in [Conns -> SUBSET (Tables \X Keys \X Vals)]
  BY DEF TxnTypeOK, EndTxn

Answers == {"ok", "failed", "error"}

LEMMA ReplyType ==
    ASSUME OperandTypeOK, NEW c \in Conns, NEW r \in Answers,
           Reply(c, r) \/ ReplyNow(c, r) \/ ReplyLater(c)
    PROVE  replies' \in [Conns -> Seq(Answers)]
<1>1. replies \in [Conns -> Seq(Answers)]
  BY DEF OperandTypeOK, Answers
<1>2. Append(replies[c], r) \in Seq(Answers) /\ <<r>> \in Seq(Answers)
      /\ <<>> \in Seq(Answers)
  <2>1. <<>> \in Seq(Answers) /\ Append(replies[c], r) \in Seq(Answers)
    BY <1>1, EmptySeq, AppendProperties
  <2>2. <<r>> = Append(<<>>, r)
    OBVIOUS
  <2>3. QED
    BY <2>1, <2>2, EmptySeq, AppendProperties
<1>3. QED
  BY <1>1, <1>2 DEF Reply, ReplyNow, ReplyLater

LEMMA PushedType ==
    ASSUME OperandTypeOK, NEW c \in Conns, NEW v \in Vals, Pushed(c, v)
    PROVE  stack' \in [Conns -> Seq(Vals)] /\ hasStack' \in [Conns -> BOOLEAN]
  BY DEF OperandTypeOK, Pushed

LEMMA PopOneType ==
    ASSUME OperandTypeOK, NEW c \in Conns, stack[c] # <<>>, PopOne(c)
    PROVE  stack' \in [Conns -> Seq(Vals)] /\ hasStack' \in [Conns -> BOOLEAN]
<1>1. SubSeq(stack[c], 1, Len(stack[c]) - 1) \in Seq(Vals)
  BY SubSeqProperties, LenProperties DEF OperandTypeOK
<1>2. QED
  BY <1>1 DEF OperandTypeOK, PopOne

LEMMA TopOfType ==
    ASSUME OperandTypeOK, NEW c \in Conns, stack[c] # <<>>
    PROVE  TopOf(c) \in Vals
  BY ElementOfSeq, EmptySeq, LenProperties DEF OperandTypeOK, TopOf

LEMMA OperandsBackType ==
    ASSUME OperandTypeOK, NEW c \in Conns, OperandsBack(c)
    PROVE  stack' \in [Conns -> Seq(Vals)]
<1> DEFINE s == stack[c]
           n == Len(s)
<1>1. s \in Seq(Vals) /\ n \in Nat
  BY LenProperties DEF OperandTypeOK
<1>2. ASSUME n >= 2 PROVE Swapped(s) \in Seq(Vals)
  <2>1. n \in 1 .. n /\ n - 1 \in 1 .. n
    BY <1>1, <1>2
  <2>2. s[n] \in Vals /\ s[n - 1] \in Vals
    BY <1>1, <2>1, ElementOfSeq
  <2> DEFINE u == [s EXCEPT ![n] = s[n - 1]]
  <2>3. u \in Seq(Vals) /\ Len(u) = n
    BY <1>1, <2>1, <2>2, ExceptSeq
  <2>4. [u EXCEPT ![n - 1] = s[n]] \in Seq(Vals)
    BY <2>1, <2>2, <2>3, ExceptSeq
  <2>5. QED
    BY <2>4 DEF Swapped
<1>3. QED
  BY <1>1, <1>2 DEF OperandTypeOK, OperandsBack

-----------------------------------------------------------------------------
(* Typing of the specification *)

(* A request handled in several steps stays on record until the thread reads *)
(* the next one.                                                             *)
RequestOK ==
    \A c \in Conns :
        /\ \/ pc[c] \in {"lock", "write", "save", "unlock", "drop", "failset"}
           \/ pc[c] \in {"undo", "free"} /\ then[c] = "failset"
           => req[c] \in Targets
        /\ pc[c] \in {"lock", "write", "save", "unlock", "drop"}
           => then[c] \in {"ok", "failed"}

LEMMA InitType == Init => TypeOK /\ RequestOK
<1>1. SUFFICES ASSUME Init PROVE TypeOK /\ RequestOK
  OBVIOUS
<1>2. SharedTypeOK
  BY <1>1, StoreTypes DEF Init, SharedTypeOK, AllTables
<1>3. ControlTypeOK /\ RequestOK
  BY <1>1 DEF Init, ControlTypeOK, RequestOK, Each, Labels, Endings
<1>4. TxnTypeOK
  BY <1>1, StoreTypes DEF Init, TxnTypeOK, Each, AllTables
<1>5. OperandTypeOK
  BY <1>1, EmptySeq DEF Init, OperandTypeOK, Each
<1>6. QED
  BY <1>2, <1>3, <1>4, <1>5 DEF TypeOK

LEMMA SessionType ==
    ASSUME TypeOK, NEW c \in Conns, Session(c)
    PROVE  TypeOK'
<1> USE DEF TypeOK
<1>1. CASE Accept(c) \/ AcceptFails(c)
  <2>1. ControlTypeOK'
    BY <1>1, GotoType DEF Accept, AcceptFails, Labels
  <2>2. QED
    BY <1>1, <2>1 DEF Accept, AcceptFails, shared, txn, operand,
                      SharedTypeOK, TxnTypeOK, OperandTypeOK
<1>2. CASE Login(c)
  <2>1. ControlTypeOK'
    BY <1>2, GotoType DEF Login, Labels
  <2>2. OperandTypeOK'
    BY <1>2, ReplyType DEF Login, operand, OperandTypeOK, Answers
  <2>3. QED
    BY <1>2, <2>1, <2>2 DEF Login, shared, txn, SharedTypeOK, TxnTypeOK
<1>3. CASE Bye(c) \/ Eof(c) \/ Reject(c)
  <2>1. Disconnect(c)
    BY <1>3 DEF Bye, Eof, Reject
  <2>2. ControlTypeOK'
    BY <2>1, GotoType DEF Disconnect, Labels
  <2>3. SharedTypeOK' /\ TxnTypeOK'
    BY <2>1, StoreTypes DEF Disconnect, shared, AllTables, SharedTypeOK, TxnTypeOK
  <2>4. replies' \in [Conns -> Seq(Answers)]
    BY <1>3, ReplyType DEF Bye, Eof, Reject, OperandTypeOK, Answers
  <2>5. OperandTypeOK'
    BY <2>1, <2>4, EmptySeq DEF Disconnect, OperandTypeOK, Answers
  <2>6. QED
    BY <2>2, <2>3, <2>5
<1>4. QED
  BY <1>1, <1>2, <1>3 DEF Session

LEMMA AnswerType ==
    ASSUME TypeOK, NEW c \in Conns, NEW r \in Answers, Answer(c, r)
    PROVE  ControlTypeOK' /\ replies' \in [Conns -> Seq(Answers)]
<1>1. ControlTypeOK'
  BY DEF Answer, control, TypeOK, ControlTypeOK
<1>2. QED
  BY <1>1, ReplyType DEF Answer, TypeOK

LEMMA StackRequestType ==
    ASSUME TypeOK, NEW c \in Conns, StackRequest(c)
    PROVE  TypeOK'
<1> USE DEF TypeOK
<1>1. CASE \E v \in Vals : Push(c, v)
  <2>1. PICK v \in Vals : Push(c, v)
    BY <1>1
  <2>2. ControlTypeOK' /\ OperandTypeOK'
    BY <2>1, AnswerType, PushedType DEF Push, OperandTypeOK, Answers
  <2>3. QED
    BY <2>1, <2>2 DEF Push, shared, txn, SharedTypeOK, TxnTypeOK
<1>2. CASE \E v \in Vals : ArithOk(c, v)
  <2>1. PICK v \in Vals : ArithOk(c, v)
    BY <1>2
  <2>2. SubSeq(stack[c], 1, Len(stack[c]) - 2) \in Seq(Vals)
    BY <2>1, SubSeqProperties, LenProperties DEF OperandTypeOK, ArithOk
  <2>3. ControlTypeOK' /\ OperandTypeOK'
    BY <2>1, <2>2, AnswerType, AppendProperties DEF ArithOk, OperandTypeOK, Answers
  <2>4. QED
    BY <2>1, <2>3 DEF ArithOk, shared, txn, SharedTypeOK, TxnTypeOK
<1>3. CASE Pop(c)
  <2>1. ControlTypeOK' /\ replies' \in [Conns -> Seq(Answers)]
    BY <1>3, AnswerType DEF Pop, Answers
  <2>2. OperandTypeOK'
    BY <1>3, <2>1, PopOneType DEF Pop, OperandTypeOK, operand, Answers
  <2>3. QED
    BY <1>3, <2>1, <2>2 DEF Pop, shared, txn, SharedTypeOK, TxnTypeOK
<1>4. CASE ArithRefused(c) \/ ArithNoValue(c)
  <2>1. ControlTypeOK' /\ replies' \in [Conns -> Seq(Answers)]
    BY <1>4, AnswerType DEF ArithRefused, ArithNoValue, Answers
  <2>2. OperandTypeOK'
    BY <1>4, <2>1, OperandsBackType
    DEF ArithRefused, ArithNoValue, OperandTypeOK, operand, Answers
  <2>3. QED
    BY <1>4, <2>1, <2>2
    DEF ArithRefused, ArithNoValue, shared, txn, SharedTypeOK, TxnTypeOK
<1>5. CASE ArithThrows(c)
  <2>1. SharedTypeOK' /\ TxnTypeOK'
    BY <1>5 DEF ArithThrows, shared, txn, SharedTypeOK, TxnTypeOK
  <2>2. ControlTypeOK'
    <3>1. CASE UNCHANGED control
      BY <3>1 DEF control, ControlTypeOK
    <3>2. CASE StartRollback(c, None, "threw")
      BY <2>1, <3>2, StartRollbackType DEF TxnTypeOK, Endings
    <3>3. QED
      BY <1>5, <3>1, <3>2 DEF ArithThrows
  <2>3. OperandTypeOK'
    BY <1>5, OperandsBackType, ReplyType DEF ArithThrows, OperandTypeOK, Answers
  <2>4. QED
    BY <2>1, <2>2, <2>3
<1>6. CASE ArithKills(c)
  <2>1. SharedTypeOK' /\ TxnTypeOK'
    BY <1>6, StoreTypes DEF ArithKills, SharedTypeOK, TxnTypeOK, Each, AllTables
  <2>2. ControlTypeOK'
    BY <1>6 DEF ArithKills, ControlTypeOK, Each, Labels, Endings
  <2>3. OperandTypeOK'
    BY <1>6, EmptySeq DEF ArithKills, OperandTypeOK, Each
  <2>4. QED
    BY <2>1, <2>2, <2>3
<1>7. QED
  BY <1>1, <1>2, <1>3, <1>4, <1>5, <1>6 DEF StackRequest

(* A value read through Overlay is a value or None.                          *)
LEMMA ReadTypes ==
    ASSUME TypeOK, NEW c \in Conns, NEW t \in Tables, NEW k \in Keys
    PROVE  /\ View(t)[k] \in Vals \cup {None}
           /\ ReadInTxn(c, t, k) \in Vals \cup {None}
           /\ UnlockedRead(c, t, k) \subseteq Vals \cup {None}
<1>1. View(t) \in Store /\ buffer[c][t] \in Store
  BY StoreTypes DEF TypeOK, SharedTypeOK, TxnTypeOK, View
<1>2. Overlay(View(t), buffer[c][t]) \in Store
  BY <1>1, StoreTypes
<1>3. QED
  BY <1>1, <1>2 DEF Store, ReadInTxn, UnlockedRead

LEMMA SetRefusedType ==
    ASSUME TypeOK, NEW c \in Conns, NEW t \in Tables,
           SetRefused(c, t) \/ SetNoOperand(c, t) \/ GetNoTable(c, t)
    PROVE  TypeOK'
<1> USE DEF TypeOK
<1>1. SharedTypeOK'
  BY UnlockType DEF SetRefused, SetNoOperand, GetNoTable, shared, SharedTypeOK
<1>2. Answer(c, "failed") /\ UNCHANGED <<txn, operand>>
  BY DEF SetRefused, SetNoOperand, GetNoTable
<1>3. QED
  BY <1>1, <1>2, AnswerType DEF txn, operand, Answers, TxnTypeOK, OperandTypeOK

LEMMA SetType ==
    ASSUME TypeOK, NEW c \in Conns, NEW t \in Tables, NEW k \in Keys,
           SetBuffered(c, t, k) \/ SetContended(c, t, k) \/ SetAuto(c, t, k)
    PROVE  TypeOK'
<1> USE DEF TypeOK
<1>1. CASE SetBuffered(c, t, k)
  <2>1. TopOf(c) \in Vals /\ stack[c] # <<>>
    BY <1>1, TopOfType DEF SetBuffered
  <2>2. SharedTypeOK' /\ locked' \in [Conns -> SUBSET Tables]
    BY <1>1, LockInTxnType DEF SetBuffered
  <2>3. buffer' \in [Conns -> [Tables -> Store]]
    BY <1>1, <2>1 DEF SetBuffered, TxnTypeOK, Store
  <2>4. OperandTypeOK' /\ ControlTypeOK'
    BY <1>1, <2>1, PopOneType, AnswerType DEF SetBuffered, OperandTypeOK, Answers
  <2>5. QED
    BY <1>1, <2>2, <2>3, <2>4 DEF SetBuffered, TxnTypeOK
<1>2. CASE SetContended(c, t, k)
  <2>1. <<t, k, TopOf(c)>> \in Targets /\ stack[c] # <<>>
    BY <1>2, TopOfType DEF SetContended, Targets
  <2>2. SharedTypeOK' /\ TxnTypeOK'
    BY <1>2 DEF SetContended, shared, SharedTypeOK, TxnTypeOK
  <2>3. ControlTypeOK'
    BY <1>2, <2>1, <2>2, StartRollbackType DEF SetContended, TxnTypeOK, Endings
  <2>4. OperandTypeOK'
    BY <1>2, <2>1, PopOneType, ReplyType DEF SetContended, OperandTypeOK, Answers
  <2>5. QED
    BY <2>2, <2>3, <2>4
<1>3. CASE SetAuto(c, t, k)
  <2>1. <<t, k, TopOf(c)>> \in Targets /\ stack[c] # <<>>
    BY <1>3, TopOfType DEF SetAuto, Targets
  <2>2. SharedTypeOK' /\ TxnTypeOK'
    BY <1>3 DEF SetAuto, shared, txn, SharedTypeOK, TxnTypeOK
  <2>3. ControlTypeOK'
    BY <1>3, <2>1, ContinueType DEF SetAuto, Labels, Endings
  <2>4. OperandTypeOK'
    BY <1>3, <2>1, PopOneType, ReplyType DEF SetAuto, OperandTypeOK, Answers
  <2>5. QED
    BY <2>2, <2>3, <2>4
<1>4. QED
  BY <1>1, <1>2, <1>3

LEMMA GetType ==
    ASSUME TypeOK, NEW c \in Conns, NEW t \in Tables, NEW k \in Keys,
           GetContended(c, t, k) \/ GetInTxn(c, t, k)
               \/ GetMissing(c, t, k) \/ GetAuto(c, t, k)
    PROVE  TypeOK'
<1> USE DEF TypeOK
<1>1. CASE GetContended(c, t, k)
  <2>1. SharedTypeOK' /\ TxnTypeOK'
    BY <1>1 DEF GetContended, shared, SharedTypeOK, TxnTypeOK
  <2>2. ControlTypeOK'
    BY <1>1, <2>1, StartRollbackType DEF GetContended, TxnTypeOK, Endings, Targets
  <2>3. OperandTypeOK'
    BY <1>1, ReplyType DEF GetContended, operand, OperandTypeOK, Answers
  <2>4. QED
    BY <2>1, <2>2, <2>3
<1>2. CASE GetInTxn(c, t, k)
  <2>1. ReadInTxn(c, t, k) \in Vals
    BY <1>2, ReadTypes DEF GetInTxn
  <2>2. buffer[c][t][k] = None => View(t)[k] \in Vals
    BY <2>1, ReadTypes DEF ReadInTxn, Overlay
  <2>3. SharedTypeOK' /\ locked' \in [Conns -> SUBSET Tables]
    BY <1>2, LockInTxnType DEF GetInTxn
  <2>4. TxnTypeOK'
    <3>1. seen[c] \subseteq Tables \X Keys \X Vals
      BY DEF TxnTypeOK
    <3>2. CASE buffer[c][t][k] = None
      <4>1. <<t, k, View(t)[k]>> \in Tables \X Keys \X Vals
        BY <2>2, <3>2
      <4>2. seen' = [seen EXCEPT ![c] = @ \cup {<<t, k, View(t)[k]>>}]
        BY <1>2, <3>2 DEF GetInTxn
      <4>3. seen' \in [Conns -> SUBSET (Tables \X Keys \X Vals)]
        BY <3>1, <4>1, <4>2 DEF TxnTypeOK
      <4>4. QED
        BY <1>2, <2>3, <4>3 DEF GetInTxn, TxnTypeOK
    <3>3. CASE buffer[c][t][k] # None
      BY <1>2, <2>3, <3>3 DEF GetInTxn, TxnTypeOK
    <3>4. QED
      BY <3>2, <3>3
  <2>5. ControlTypeOK' /\ OperandTypeOK'
    BY <1>2, <2>1, AnswerType, PushedType DEF GetInTxn, OperandTypeOK, Answers
  <2>6. QED
    BY <2>3, <2>4, <2>5
<1>3. CASE GetMissing(c, t, k)
  <2>1. SharedTypeOK' /\ locked' \in [Conns -> SUBSET Tables]
    BY <1>3, LockInTxnType DEF GetMissing
  <2>2. TxnTypeOK'
    BY <1>3, <2>1 DEF GetMissing, TxnTypeOK
  <2>3. ControlTypeOK'
    BY <1>3, <2>1, StartRollbackType DEF GetMissing, Endings
  <2>4. OperandTypeOK'
    BY <1>3, ReplyType DEF GetMissing, operand, OperandTypeOK, Answers
  <2>5. QED
    BY <2>1, <2>2, <2>3, <2>4
<1>4. CASE GetAuto(c, t, k)
  <2>1. SharedTypeOK' /\ TxnTypeOK'
    BY <1>4 DEF GetAuto, shared, txn, SharedTypeOK, TxnTypeOK
  <2>2. PICK v \in UnlockedRead(c, t, k) :
           \/ v # None /\ Pushed(c, v) /\ Continue(c, "drop", <<t, k, v>>, "ok")
           \/ UNCHANGED operand /\ Continue(c, "drop", <<t, k, None>>, "failed")
    BY <1>4 DEF GetAuto
  <2>3. v \in Vals \cup {None}
    BY <2>2, ReadTypes
  <2>4. ControlTypeOK'
    BY <2>2, <2>3, ContinueType DEF Targets, Labels, Endings
  <2>5. OperandTypeOK'
    BY <1>4, <2>2, <2>3, PushedType, ReplyType
    DEF GetAuto, operand, OperandTypeOK, Answers
  <2>6. QED
    BY <2>1, <2>4, <2>5
<1>5. QED
  BY <1>1, <1>2, <1>3, <1>4

LEMMA CreateType ==
    ASSUME TypeOK, NEW c \in Conns, NEW t \in Tables, Create(c, t)
    PROVE  TypeOK'
<1> USE DEF TypeOK
<1>1. SharedTypeOK'
  BY FreshMutexAssumption DEF Create, SharedTypeOK
<1>2. QED
  BY <1>1, AnswerType DEF Create, txn, operand, Answers, TxnTypeOK, OperandTypeOK

LEMMA TxnRequestType ==
    ASSUME TypeOK, NEW c \in Conns, Begin(c) \/ Commit(c)
    PROVE  TypeOK'
<1> USE DEF TypeOK
<1>1. CASE Begin(c)
  <2>1. TxnTypeOK'
    BY <1>1 DEF Begin, txn, TxnTypeOK
  <2>2. ControlTypeOK' /\ OperandTypeOK'
    BY <1>1, AnswerType DEF Begin, operand, OperandTypeOK, Answers
  <2>3. QED
    BY <1>1, <2>1, <2>2 DEF Begin, shared, SharedTypeOK
<1>2. CASE Commit(c)
  <2>1. SharedTypeOK' /\ TxnTypeOK'
    BY <1>2 DEF Commit, shared, txn, SharedTypeOK, TxnTypeOK
  <2>2. CASE inTxn[c]
    <3>1. ControlTypeOK'
      BY <1>2, <2>2 DEF Commit, Goto, ControlTypeOK, Labels, Buffered
    <3>2. OperandTypeOK'
      BY <1>2, <2>2, ReplyType DEF Commit, operand, OperandTypeOK, Answers
    <3>3. QED
      BY <2>1, <3>1, <3>2
  <2>3. CASE ~inTxn[c]
    BY <1>2, <2>1, <2>3, AnswerType DEF Commit, operand, OperandTypeOK, Answers
  <2>4. QED
    BY <2>2, <2>3
<1>3. QED
  BY <1>1, <1>2

LEMMA RequestType ==
    ASSUME TypeOK, NEW c \in Conns, Request(c)
    PROVE  TypeOK'
<1>1. CASE TableRequest(c)
  <2>1. PICK t \in Tables : OnTable(c, t) \/ \E k \in Keys : OnKey(c, t, k)
    BY <1>1 DEF TableRequest
  <2>2. QED
    BY <2>1, CreateType, SetRefusedType, SetType, GetType DEF OnTable, OnKey
<1>2. QED
  BY <1>1, SessionType, StackRequestType, TxnRequestType DEF Request

LEMMA AutocommitType ==
    ASSUME TypeOK, RequestOK, NEW c \in Conns,
           SetLock(c) \/ SetWrite(c) \/ SetSave(c) \/ UnlockAndReply(c)
               \/ FailSet(c)
    PROVE  TypeOK'
<1> USE DEF TypeOK
<1>1. /\ req[c] \in Targets /\ req[c][1] \in Tables /\ req[c][2] \in Keys
      /\ req[c][3] \in Vals \cup {None}
  BY DEF SetLock, SetWrite, SetSave, UnlockAndReply, FailSet, RequestOK, Targets
<1>2. CASE SetLock(c) \/ SetWrite(c) \/ SetSave(c)
  <2>1. SharedTypeOK'
    <3>1. CASE SetLock(c)
      BY <1>1, <3>1 DEF SetLock, SharedTypeOK
    <3>2. CASE SetWrite(c)
      BY <1>1, <3>2, TableSetType DEF SetWrite
    <3>3. CASE SetSave(c)
      BY <1>1, <3>3, CommitChangesType DEF SetSave
    <3>4. QED
      BY <1>2, <3>1, <3>2, <3>3
  <2>2. ControlTypeOK'
    BY <1>2, GotoType DEF SetLock, SetWrite, SetSave, Labels
  <2>3. QED
    BY <1>2, <2>1, <2>2
    DEF SetLock, SetWrite, SetSave, txn, operand, TxnTypeOK, OperandTypeOK
<1>3. CASE UnlockAndReply(c) \/ FailSet(c)
  <2>1. SharedTypeOK' /\ ControlTypeOK'
    BY <1>1, <1>3, UnlockType, FinishType DEF UnlockAndReply, FailSet
  <2>2. then[c] \in Answers \/ FailSet(c)
    BY <1>3 DEF UnlockAndReply, RequestOK, Answers
  <2>3. replies' \in [Conns -> Seq(Answers)]
    BY <1>3, <2>2, ReplyType DEF UnlockAndReply, FailSet, Answers
  <2>4. QED
    BY <1>3, <2>1, <2>3
    DEF UnlockAndReply, FailSet, txn, operand, Answers, TxnTypeOK, OperandTypeOK
<1>4. QED
  BY <1>2, <1>3

LEMMA CommitStepType ==
    ASSUME TypeOK, NEW c \in Conns, Apply(c) \/ Publish(c) \/ Release(c)
    PROVE  TypeOK'
<1> USE DEF TypeOK
<1>1. CASE Apply(c)
  <2>1. TxnTypeOK' /\ OperandTypeOK'
    BY <1>1 DEF Apply, txn, operand, TxnTypeOK, OperandTypeOK
  <2>2. CASE \E w \in writes[c] :
                /\ TableSet(c, w[1], w[2], buffer[c][w[1]][w[2]])
                /\ writes' = [writes EXCEPT ![c] = @ \ {w}]
                /\ UNCHANGED <<pc, req, then, todo>>
    <3>1. PICK w \in writes[c] :
                /\ TableSet(c, w[1], w[2], buffer[c][w[1]][w[2]])
                /\ writes' = [writes EXCEPT ![c] = @ \ {w}]
                /\ UNCHANGED <<pc, req, then, todo>>
      BY <2>2
    <3>2. w[1] \in Tables /\ w[2] \in Keys
      BY DEF ControlTypeOK
    <3>3. buffer[c][w[1]][w[2]] \in Vals \cup {None}
      BY <3>2 DEF TxnTypeOK, Store
    <3>4. SharedTypeOK'
      BY <3>1, <3>2, <3>3, TableSetType
    <3>5. ControlTypeOK'
      BY <3>1 DEF ControlTypeOK
    <3>6. QED
      BY <2>1, <3>4, <3>5
  <2>3. CASE Loop(c, "publish") /\ UNCHANGED shared
    BY <2>1, <2>3, LoopType DEF Labels, shared, SharedTypeOK
  <2>4. QED
    BY <1>1, <2>2, <2>3 DEF Apply
<1>2. CASE Publish(c)
  <2>1. TxnTypeOK' /\ OperandTypeOK'
    BY <1>2 DEF Publish, txn, operand, TxnTypeOK, OperandTypeOK
  <2>2. CASE \E t \in Tables : Visit(c, t) /\ CommitChanges(c, t)
    BY <2>1, <2>2, VisitType, CommitChangesType
  <2>3. CASE Loop(c, "release") /\ UNCHANGED shared
    BY <2>1, <2>3, LoopType DEF Labels, shared, SharedTypeOK
  <2>4. QED
    BY <1>2, <2>2, <2>3 DEF Publish
<1>3. CASE Release(c)
  <2>1. CASE /\ \E t \in Tables : Visit(c, t) /\ Unlock(c, t)
             /\ UNCHANGED <<txn, replies>>
    BY <1>3, <2>1, VisitType, UnlockType
    DEF Release, txn, operand, TxnTypeOK, OperandTypeOK
  <2>2. CASE /\ EndTxn(c)
             /\ buffer' = [buffer EXCEPT ![c] = AllTables(Empty)]
             /\ ReplyNow(c, "ok") /\ Finish(c) /\ UNCHANGED shared
    <3>1. TxnTypeOK'
      BY <2>2, EndTxnType, StoreTypes DEF TxnTypeOK, AllTables
    <3>2. OperandTypeOK'
      BY <1>3, <2>2, ReplyType DEF Release, operand, OperandTypeOK, Answers
    <3>3. QED
      BY <2>2, <3>1, <3>2, FinishType DEF shared, SharedTypeOK
  <2>3. QED
    BY <1>3, <2>1, <2>2 DEF Release
<1>4. QED
  BY <1>1, <1>2, <1>3

LEMMA RollbackStepType ==
    ASSUME TypeOK, RequestOK, NEW c \in Conns, Undo(c) \/ Free(c)
    PROVE  TypeOK'
<1> USE DEF TypeOK
<1>1. CASE Undo(c)
  <2>1. TxnTypeOK' /\ OperandTypeOK'
    BY <1>1 DEF Undo, txn, operand, TxnTypeOK, OperandTypeOK
  <2>2. CASE \E t \in Tables : Visit(c, t) /\ RollbackChanges(c, t)
    BY <2>1, <2>2, VisitType, RollbackChangesType
  <2>3. CASE Loop(c, "free") /\ UNCHANGED shared
    BY <2>1, <2>3, LoopType DEF Labels, shared, SharedTypeOK
  <2>4. QED
    BY <1>1, <2>2, <2>3 DEF Undo
<1>2. CASE Free(c)
  <2>1. CASE /\ \E t \in Tables : Visit(c, t) /\ Unlock(c, t)
             /\ UNCHANGED <<txn, replies>>
    BY <1>2, <2>1, VisitType, UnlockType
    DEF Free, txn, operand, TxnTypeOK, OperandTypeOK
  <2>2. CASE /\ EndTxn(c) /\ UNCHANGED <<shared, buffer>>
             /\ \/ then[c] = "threw" /\ Finish(c) /\ UNCHANGED replies
                \/ then[c] = "failget" /\ Finish(c) /\ ReplyNow(c, "failed")
                \/ /\ then[c] = "failset"
                   /\ Continue(c, "failset", req[c], "failset")
                   /\ UNCHANGED replies
    <3>1. SharedTypeOK' /\ TxnTypeOK'
      BY <2>2, EndTxnType DEF shared, SharedTypeOK, TxnTypeOK
    <3>2. replies' \in [Conns -> Seq(Answers)]
      BY <2>2, ReplyType DEF OperandTypeOK, Answers
    <3>3. OperandTypeOK'
      BY <1>2, <3>2 DEF Free, operand, OperandTypeOK, Answers
    <3>4. ControlTypeOK'
      <4>1. req[c] \in Targets \cup {None}
        BY DEF ControlTypeOK
      <4>2. QED
        BY <2>2, <4>1, FinishType, ContinueType DEF Labels, Endings
    <3>5. QED
      BY <3>1, <3>3, <3>4
  <2>3. QED
    BY <1>2, <2>1, <2>2 DEF Free
<1>3. QED
  BY <1>1, <1>2

(* RequestOK looks at pc, req and then only; a step of c changes them for c. *)
LEMMA RequestKept ==
    ASSUME TypeOK, RequestOK, NEW c \in Conns, Request(c) \/ Internal(c)
    PROVE  RequestOK'
<1> USE DEF RequestOK
<1>1. pc \in [Conns -> Labels] /\ req \in [Conns -> Targets \cup {None}]
      /\ then \in [Conns -> Endings]
  BY DEF TypeOK, ControlTypeOK
<1>2. CASE Session(c)
  BY <1>1, <1>2
  DEF Session, Accept, AcceptFails, Login, Bye, Eof, Reject, Disconnect, Goto
<1>3. CASE StackRequest(c)
  <2>1. CASE ArithThrows(c)
    BY <1>1, <2>1 DEF ArithThrows, StartRollback, Goto, control
  <2>2. CASE ArithKills(c)
    BY <2>2 DEF ArithKills, Each
  <2>3. CASE ~ArithThrows(c) /\ ~ArithKills(c)
    BY <1>3, <2>3
    DEF StackRequest, Push, ArithOk, Pop, ArithRefused, ArithNoValue, Answer,
        control
  <2>4. QED
    BY <2>1, <2>2, <2>3
<1>4. CASE TableRequest(c)
  <2>1. PICK t \in Tables : OnTable(c, t) \/ \E k \in Keys : OnKey(c, t, k)
    BY <1>4 DEF TableRequest
  <2>2. CASE OnTable(c, t)
    BY <2>2 DEF OnTable, Create, SetRefused, SetNoOperand, GetNoTable, Answer, control
  <2>3. ASSUME NEW k \in Keys, SetBuffered(c, t, k) \/ GetInTxn(c, t, k)
        PROVE  RequestOK'
    BY <2>3 DEF SetBuffered, GetInTxn, Answer, control
  <2>4. ASSUME NEW k \in Keys, GetContended(c, t, k) \/ GetMissing(c, t, k)
        PROVE  RequestOK'
    BY <1>1, <2>4 DEF GetContended, GetMissing, StartRollback, Goto
  <2>5. ASSUME NEW k \in Keys, SetContended(c, t, k) \/ SetAuto(c, t, k)
        PROVE  RequestOK'
    <3>1. <<t, k, TopOf(c)>> \in Targets
      BY <2>5, TopOfType DEF SetContended, SetAuto, TypeOK, Targets
    <3>2. QED
      BY <1>1, <2>5, <3>1 DEF SetContended, SetAuto, StartRollback, Continue, Goto
  <2>6. ASSUME NEW k \in Keys, GetAuto(c, t, k)
        PROVE  RequestOK'
    <3>1. PICK v \in UnlockedRead(c, t, k) :
             \/ Continue(c, "drop", <<t, k, v>>, "ok")
             \/ Continue(c, "drop", <<t, k, None>>, "failed")
      BY <2>6 DEF GetAuto
    <3>2. <<t, k, v>> \in Targets /\ <<t, k, None>> \in Targets
      BY ReadTypes DEF Targets
    <3>3. QED
      BY <1>1, <3>1, <3>2 DEF Continue, Goto
  <2>7. QED
    BY <2>1, <2>2, <2>3, <2>4, <2>5, <2>6 DEF OnKey
<1>5. CASE Begin(c) \/ Commit(c)
  BY <1>1, <1>5 DEF Begin, Commit, Answer, control, Goto
<1>6. CASE SetLock(c) \/ SetWrite(c) \/ SetSave(c) \/ UnlockAndReply(c)
           \/ FailSet(c)
  BY <1>1, <1>6
  DEF SetLock, SetWrite, SetSave, UnlockAndReply, FailSet, Finish, Continue, Goto
<1>7. CASE Apply(c) \/ Publish(c) \/ Release(c)
  BY <1>1, <1>7
  DEF Apply, Publish, Release, Loop, Visit, Finish, Continue, Goto
<1>8. CASE Undo(c)
  BY <1>1, <1>8 DEF Undo, Loop, Visit, Goto
<1>9. CASE Free(c)
  BY <1>1, <1>9 DEF Free, Visit, Finish, Continue, Goto
<1>10. QED
  BY <1>2, <1>3, <1>4, <1>5, <1>6, <1>7, <1>8, <1>9 DEF Request, Internal

LEMMA StutterType ==
    ASSUME TypeOK, RequestOK, UNCHANGED vars
    PROVE  TypeOK' /\ RequestOK'
  BY DEF vars, shared, control, txn, operand, TypeOK, RequestOK, SharedTypeOK,
         ControlTypeOK, TxnTypeOK, OperandTypeOK

LEMMA TypeInvStep ==
    ASSUME TypeOK, RequestOK, [Next]_vars
    PROVE  TypeOK' /\ RequestOK'
<1>1. CASE UNCHANGED vars
  BY <1>1, StutterType
<1>2. CASE Next
  <2>1. PICK c \in Conns : Request(c) \/ Internal(c)
    BY <1>2 DEF Next
  <2>2. TypeOK'
    BY <2>1, RequestType, AutocommitType, CommitStepType, RollbackStepType
    DEF Internal
  <2>3. QED
    BY <2>1, <2>2, RequestKept
<1>3. QED
  BY <1>1, <1>2

(* Every variable keeps its type.  In particular a handler never pops an     *)
(* empty stack, never follows a request it does not have, and every value    *)
(* that reaches a table came from an operand stack.                          *)
THEOREM TypeCorrect == Spec => []TypeOK
<1>1. TypeOK /\ RequestOK /\ [Next]_vars => TypeOK' /\ RequestOK'
  BY TypeInvStep
<1>2. QED
  BY <1>1, InitType, PTL DEF Spec

-----------------------------------------------------------------------------
(* Who owns which mutex *)

(* What is true of the locks of c.  Outside a transaction there are no       *)
(* tracked locks, and the steps of an autocommit request are taken outside   *)
(* transactions: that is what makes NoForgottenLock inductive, and with it   *)
(* excludes that a thread waiting in lock() owns anything.                   *)
LockOK(c) ==
    /\ ~inTxn[c] => locked[c] = {}
    /\ pc[c] \in {"new", "login", "lock", "write", "save", "unlock", "drop",
                  "failset"}
       => ~inTxn[c]
    /\ pc[c] = "lock" => req[c][1] \in tables
    /\ \A t \in Tables : owner[t] = c => Holds(c, t) /\ t \in tables

LockInv == \A c \in Conns : LockOK(c)

(* A step of c, unless it ends the process, leaves to every other thread     *)
(* what it knows about its locks, and takes no mutex on its behalf.          *)
SameFor(d) ==
    /\ pc'[d] = pc[d] /\ req'[d] = req[d] /\ todo'[d] = todo[d]
    /\ locked'[d] = locked[d] /\ inTxn'[d] = inTxn[d]
    /\ \A t \in Tables : owner'[t] = d => owner[t] = d

LEMMA OthersUntouched ==
    ASSUME TypeOK, NEW c \in Conns, Request(c) \/ Internal(c), ~ArithKills(c),
           NEW d \in Conns, d # c
    PROVE  SameFor(d)
<1> USE DEF SameFor
<1>1. /\ pc \in [Conns -> Labels] /\ req \in [Conns -> Targets \cup {None}]
      /\ todo \in [Conns -> SUBSET Tables] /\ locked \in [Conns -> SUBSET Tables]
      /\ inTxn \in [Conns -> BOOLEAN]
      /\ owner \in [Tables -> Conns \cup {None, Junk}]
  BY DEF TypeOK, SharedTypeOK, ControlTypeOK, TxnTypeOK
<1>2. None \notin Conns
  BY NamesAssumption
<1>3. CASE Session(c)
  BY <1>1, <1>3
  DEF Session, Accept, AcceptFails, Login, Bye, Eof, Reject, Disconnect, Goto,
      shared, txn
<1>4. CASE StackRequest(c)
  <2>1. CASE ArithThrows(c)
    BY <1>1, <2>1 DEF ArithThrows, StartRollback, Goto, control, shared, txn
  <2>2. CASE ~ArithThrows(c)
    BY <1>4, <2>2
    DEF StackRequest, Push, ArithOk, Pop, ArithRefused, ArithNoValue, Answer,
        control, shared, txn
  <2>3. QED
    BY <2>1, <2>2
<1>5. CASE TableRequest(c)
  <2>1. PICK t \in Tables : OnTable(c, t) \/ \E k \in Keys : OnKey(c, t, k)
    BY <1>5 DEF TableRequest
  <2>2. CASE Create(c, t)
    <3>1. PICK m \in FreshMutex :
             owner' = [owner EXCEPT ![t] = IF t \in tables THEN @ ELSE m]
      BY <2>2 DEF Create
    <3>2. m # d
      BY NamesAssumption, FreshMutexAssumption
    <3>3. QED
      BY <1>1, <2>2, <3>1, <3>2 DEF Create, Answer, control, txn
  <2>3. CASE SetRefused(c, t) \/ SetNoOperand(c, t) \/ GetNoTable(c, t)
    BY <1>1, <1>2, <2>3
    DEF SetRefused, SetNoOperand, GetNoTable, Unlock, Answer, control, shared, txn
  <2>4. ASSUME NEW k \in Keys, SetBuffered(c, t, k) \/ GetInTxn(c, t, k)
        PROVE  SameFor(d)
    BY <1>1, <2>4 DEF SetBuffered, GetInTxn, LockInTxn, Answer, control
  <2>5. ASSUME NEW k \in Keys,
               SetContended(c, t, k) \/ GetContended(c, t, k)
                   \/ GetMissing(c, t, k)
        PROVE  SameFor(d)
    BY <1>1, <2>5
    DEF SetContended, GetContended, GetMissing, LockInTxn, StartRollback, Goto,
        shared
  <2>6. ASSUME NEW k \in Keys, SetAuto(c, t, k) \/ GetAuto(c, t, k)
        PROVE  SameFor(d)
    BY <1>1, <2>6 DEF SetAuto, GetAuto, Continue, Goto, shared, txn
  <2>7. QED
    BY <2>1, <2>2, <2>3, <2>4, <2>5, <2>6 DEF OnTable, OnKey
<1>6. CASE Begin(c) \/ Commit(c)
  BY <1>1, <1>6 DEF Begin, Commit, Answer, control, Goto, shared, txn
<1>7. CASE SetLock(c) \/ SetWrite(c) \/ SetSave(c)
  BY <1>1, <1>7
  DEF SetLock, SetWrite, SetSave, TableSet, CommitChanges, Goto, txn
<1>8. CASE UnlockAndReply(c) \/ FailSet(c)
  BY <1>1, <1>2, <1>8
  DEF UnlockAndReply, FailSet, Unlock, Finish, Continue, Goto, txn
<1>9. CASE Apply(c) \/ Publish(c) \/ Undo(c)
  BY <1>1, <1>9
  DEF Apply, Publish, Undo, TableSet, CommitChanges, RollbackChanges, Loop,
      Visit, Goto, shared, txn
<1>10. CASE Release(c) \/ Free(c)
  BY <1>1, <1>2, <1>10
  DEF Release, Free, Unlock, Visit, EndTxn, Finish, Continue, Goto, shared, txn
<1>11. QED
  BY <1>3, <1>4, <1>5, <1>6, <1>7, <1>8, <1>9, <1>10 DEF Request, Internal

(* ... and to c itself it leaves no lock that c does not know of.            *)
LEMMA OwnLocks ==
    ASSUME TypeOK, RequestOK, LockInv, NEW c \in Conns,
           Request(c) \/ Internal(c), ~ArithKills(c)
    PROVE  LockOK(c)' /\ tables \subseteq tables'
<1> USE DEF LockOK, Holds
<1>1. /\ pc \in [Conns -> Labels] /\ req \in [Conns -> Targets \cup {None}]
      /\ then \in [Conns -> Endings]
      /\ todo \in [Conns -> SUBSET Tables] /\ locked \in [Conns -> SUBSET Tables]
      /\ inTxn \in [Conns -> BOOLEAN]
      /\ owner \in [Tables -> Conns \cup {None, Junk}]
  BY DEF TypeOK, SharedTypeOK, ControlTypeOK, TxnTypeOK
<1>2. None \notin Conns /\ c # None
  BY NamesAssumption
<1>3. LockOK(c)
  BY DEF LockInv
<1>4. CASE Session(c)
  <2>1. CASE Accept(c) \/ AcceptFails(c) \/ Login(c)
    BY <1>1, <1>3, <2>1 DEF Accept, AcceptFails, Login, Goto, shared, txn
  <2>2. CASE Bye(c) \/ Eof(c) \/ Reject(c)
    BY <1>1, <1>3, <2>2
    DEF Bye, Eof, Reject, Receive, Disconnect, Goto, shared
  <2>3. QED
    BY <1>4, <2>1, <2>2 DEF Session
<1>5. CASE StackRequest(c)
  <2>1. CASE ArithThrows(c)
    BY <1>1, <1>3, <2>1
    DEF ArithThrows, StartRollback, Receive, Goto, control, shared, txn
  <2>2. CASE ~ArithThrows(c)
    BY <1>3, <1>5, <2>2
    DEF StackRequest, Push, ArithOk, Pop, ArithRefused, ArithNoValue, Answer,
        control, shared, txn
  <2>3. QED
    BY <2>1, <2>2
<1>6. CASE TableRequest(c)
  <2>1. PICK t \in Tables : OnTable(c, t) \/ \E k \in Keys : OnKey(c, t, k)
    BY <1>6 DEF TableRequest
  <2>2. CASE Create(c, t)
    <3>1. PICK m \in FreshMutex :
             owner' = [owner EXCEPT ![t] = IF t \in tables THEN @ ELSE m]
      BY <2>2 DEF Create
    <3>2. m # c
      BY NamesAssumption, FreshMutexAssumption
    <3>3. QED
      BY <1>1, <1>3, <2>2, <3>1, <3>2 DEF Create, Answer, control, txn
  <2>3. CASE SetRefused(c, t) \/ SetNoOperand(c, t) \/ GetNoTable(c, t)
    BY <1>1, <1>2, <1>3, <2>3
    DEF SetRefused, SetNoOperand, GetNoTable, Unlock, Answer, control, shared, txn
  <2>4. ASSUME NEW k \in Keys, SetBuffered(c, t, k) \/ GetInTxn(c, t, k)
        PROVE  LockOK(c)' /\ tables \subseteq tables'
    BY <1>1, <1>3, <2>4
    DEF SetBuffered, GetInTxn, ReceiveSet, ReceiveGet, Receive, LockInTxn, Answer,
        control
  <2>5. ASSUME NEW k \in Keys, GetMissing(c, t, k)
        PROVE  LockOK(c)' /\ tables \subseteq tables'
    BY <1>1, <1>3, <2>5
    DEF GetMissing, ReceiveGet, Receive, LockInTxn, StartRollback, Goto
  <2>6. ASSUME NEW k \in Keys, SetContended(c, t, k) \/ GetContended(c, t, k)
        PROVE  LockOK(c)' /\ tables \subseteq tables'
    BY <1>1, <1>3, <2>6
    DEF SetContended, GetContended, ReceiveSet, ReceiveGet, Receive, CanLock,
        StartRollback, Goto, shared
  <2>7. ASSUME NEW k \in Keys, SetAuto(c, t, k) \/ GetAuto(c, t, k)
        PROVE  LockOK(c)' /\ tables \subseteq tables'
    BY <1>1, <1>3, <2>7
    DEF SetAuto, GetAuto, ReceiveSet, ReceiveGet, Receive, Continue, Goto, shared,
        txn
  <2>8. QED
    BY <2>1, <2>2, <2>3, <2>4, <2>5, <2>6, <2>7 DEF OnTable, OnKey
<1>7. CASE Begin(c) \/ Commit(c)
  BY <1>1, <1>3, <1>7
  DEF Begin, Commit, Receive, Answer, control, Goto, shared, txn
<1>8. CASE SetLock(c) \/ SetWrite(c) \/ SetSave(c)
  <2>1. req[c] \in Targets /\ req[c][1] \in Tables
    BY <1>8 DEF SetLock, SetWrite, SetSave, RequestOK, Targets
  <2>2. QED
    BY <1>1, <1>3, <1>8, <2>1
    DEF SetLock, SetWrite, SetSave, TableSet, CommitChanges, Goto, txn
<1>9. CASE UnlockAndReply(c) \/ FailSet(c)
  <2>1. req[c] \in Targets /\ req[c][1] \in Tables
    BY <1>9 DEF UnlockAndReply, FailSet, RequestOK, Targets
  <2>2. QED
    BY <1>1, <1>2, <1>3, <1>9, <2>1
    DEF UnlockAndReply, FailSet, Unlock, Finish, Continue, Goto, txn
<1>10. CASE Apply(c) \/ Publish(c) \/ Undo(c)
  <2>1. CASE Apply(c)
    BY <1>1, <1>3, <2>1 DEF Apply, TableSet, Loop, Goto, shared, txn
  <2>2. CASE Publish(c)
    BY <1>1, <1>3, <2>2 DEF Publish, CommitChanges, Loop, Visit, Goto, shared, txn
  <2>3. CASE Undo(c)
    BY <1>1, <1>3, <2>3 DEF Undo, RollbackChanges, Loop, Visit, Goto, shared, txn
  <2> QED
    BY <1>10, <2>1, <2>2, <2>3
<1>11. CASE Release(c) \/ Free(c)
  BY <1>1, <1>2, <1>3, <1>11
  DEF Release, Free, Unlock, Visit, EndTxn, Finish, Continue, Goto, shared, txn
<1>12. QED
  BY <1>4, <1>5, <1>6, <1>7, <1>8, <1>9, <1>10, <1>11 DEF Request, Internal

LEMMA LockInvInit == Init => LockInv
  BY NamesAssumption DEF Init, LockInv, LockOK, Holds, Each, AllTables

LEMMA LockInvStep ==
    ASSUME TypeOK, RequestOK, LockInv, [Next]_vars
    PROVE  LockInv'
<1>1. CASE UNCHANGED vars
  BY <1>1 DEF vars, shared, control, txn, LockInv, LockOK, Holds
<1>2. CASE Next
  <2>1. PICK c \in Conns : Request(c) \/ Internal(c)
    BY <1>2 DEF Next
  <2>2. CASE ArithKills(c)
    BY <2>2, NamesAssumption
    DEF ArithKills, LockInv, LockOK, Holds, Each, AllTables
  <2>3. CASE ~ArithKills(c)
    <3>1. LockOK(c)' /\ tables \subseteq tables'
      BY <2>1, <2>3, OwnLocks
    <3>2. ASSUME NEW d \in Conns, d # c PROVE LockOK(d)'
      <4>1. SameFor(d)
        BY <2>1, <2>3, <3>2, OthersUntouched
      <4>2. QED
        BY <3>1, <4>1 DEF LockInv, LockOK, Holds, SameFor
    <3>3. QED
      BY <3>1, <3>2 DEF LockInv
  <2>4. QED
    BY <2>2, <2>3
<1>3. QED
  BY <1>1, <1>2

THEOREM LocksAccountedFor == Spec => [](TypeOK /\ RequestOK /\ LockInv)
<1>1. Init => TypeOK /\ RequestOK /\ LockInv
  BY InitType, LockInvInit
<1>2. TypeOK /\ RequestOK /\ LockInv /\ [Next]_vars
        => (TypeOK /\ RequestOK /\ LockInv)'
  BY TypeInvStep, LockInvStep
<1>3. QED
  BY <1>1, <1>2, PTL DEF Spec

(* No thread forgets a mutex it owns, on any path of any handler.            *)
THEOREM NoLockForgotten == Spec => []NoForgottenLock
<1>1. LockInv => NoForgottenLock
  BY DEF LockInv, LockOK, NoForgottenLock
<1>2. QED
  BY <1>1, LocksAccountedFor, PTL

(* A thread that waits in lock() owns no table: no cycle of waits between    *)
(* tables can arise, with any number of connections and tables.              *)
THEOREM NoCycleOfWaits == Spec => []NoHoldAndWait
<1>1. LockInv => NoHoldAndWait
  BY DEF LockInv, LockOK, NoHoldAndWait, Holds
<1>2. QED
  BY <1>1, LocksAccountedFor, PTL

-----------------------------------------------------------------------------
(* Held locks are owned, and mutual exclusion *)

(* A step of c takes a mutex from another thread only by putting the table   *)
(* into `robbed`, and `robbed` never shrinks.                                *)
LEMMA OthersKeepTheirs ==
    ASSUME TypeOK, RequestOK, LockInv, NEW c \in Conns,
           Request(c) \/ Internal(c), ~ArithKills(c)
    PROVE  /\ robbed \subseteq robbed'
           /\ \A d \in Conns \ {c}, t \in Tables :
                 owner[t] = d => owner'[t] = d \/ t \in robbed'
<1> DEFINE Goal == /\ robbed \subseteq robbed'
                   /\ \A d \in Conns \ {c}, t \in Tables :
                         owner[t] = d => owner'[t] = d \/ t \in robbed'
<1>1. owner \in [Tables -> Conns \cup {None, Junk}]
  BY DEF TypeOK, SharedTypeOK
<1>2. None \notin Conns
  BY NamesAssumption
<1>3. CASE UNCHANGED <<owner, robbed>>
  BY <1>3
<1>4. ASSUME NEW u \in Tables, Unlock(c, u) PROVE Goal
  BY <1>1, <1>4 DEF Unlock
<1>5. ASSUME NEW u \in Tables, CanLock(c, u), LockInTxn(c, u) PROVE Goal
  BY <1>1, <1>2, <1>5 DEF CanLock, LockInTxn
<1>6. CASE Session(c) \/ StackRequest(c)
  BY <1>3, <1>6
  DEF Session, Accept, AcceptFails, Login, Bye, Eof, Reject, Disconnect,
      StackRequest, Push, Pop, ArithOk, ArithRefused, ArithNoValue, ArithThrows,
      shared
<1>7. CASE TableRequest(c)
  <2>1. PICK u \in Tables : OnTable(c, u) \/ \E k \in Keys : OnKey(c, u, k)
    BY <1>7 DEF TableRequest
  <2>2. CASE Create(c, u)
    BY <1>1, <2>2 DEF Create, LockInv, LockOK
  <2>3. CASE SetRefused(c, u) \/ SetNoOperand(c, u) \/ GetNoTable(c, u)
    BY <1>3, <1>4, <2>3 DEF SetRefused, SetNoOperand, GetNoTable, shared
  <2>4. ASSUME NEW k \in Keys, OnKey(c, u, k) PROVE Goal
    BY <1>3, <1>5, <2>4
    DEF OnKey, SetBuffered, GetInTxn, GetMissing, SetContended, GetContended,
        SetAuto, GetAuto, shared
  <2>5. QED
    BY <2>1, <2>2, <2>3, <2>4 DEF OnTable
<1>8. CASE Begin(c) \/ Commit(c)
  BY <1>3, <1>8 DEF Begin, Commit, shared
<1>9. CASE SetLock(c) \/ SetWrite(c) \/ SetSave(c)
  BY <1>1, <1>2, <1>9
  DEF SetLock, SetWrite, SetSave, TableSet, CommitChanges
<1>10. CASE UnlockAndReply(c) \/ FailSet(c)
  <2>1. req[c][1] \in Tables
    BY <1>10 DEF UnlockAndReply, FailSet, RequestOK, Targets
  <2>2. QED
    BY <1>4, <1>10, <2>1 DEF UnlockAndReply, FailSet
<1>11. CASE Apply(c) \/ Publish(c) \/ Undo(c)
  BY <1>11
  DEF Apply, Publish, Undo, TableSet, CommitChanges, RollbackChanges, shared
<1>12. CASE Release(c) \/ Free(c)
  BY <1>3, <1>4, <1>12 DEF Release, Free, shared
<1>13. QED
  BY <1>6, <1>7, <1>8, <1>9, <1>10, <1>11, <1>12 DEF Request, Internal

(* What c takes for locked after its step is its own, or has been robbed.    *)
LEMMA OwnHeld ==
    ASSUME TypeOK, RequestOK, LockInv, HeldLocksAreOwned, NEW c \in Conns,
           Request(c) \/ Internal(c), ~ArithKills(c), NEW t \in Tables,
           t \notin robbed', Holds(c, t)'
    PROVE  owner'[t] = c
<1> USE DEF Holds
<1>1. /\ pc \in [Conns -> Labels] /\ req \in [Conns -> Targets \cup {None}]
      /\ then \in [Conns -> Endings]
      /\ todo \in [Conns -> SUBSET Tables] /\ locked \in [Conns -> SUBSET Tables]
      /\ inTxn \in [Conns -> BOOLEAN]
      /\ owner \in [Tables -> Conns \cup {None, Junk}]
  BY DEF TypeOK, SharedTypeOK, ControlTypeOK, TxnTypeOK
<1>2. t \notin robbed
  BY OthersKeepTheirs
<1>3. Holds(c, t) => owner[t] = c
  BY <1>2 DEF HeldLocksAreOwned
<1>4. LockOK(c)
  BY DEF LockInv
<1>5. CASE Session(c)
  BY <1>1, <1>3, <1>4, <1>5
  DEF Session, Accept, AcceptFails, Login, Bye, Eof, Reject, Receive, Disconnect,
      Goto, shared, txn, LockOK
<1>6. CASE StackRequest(c)
  <2>1. CASE ArithThrows(c)
    BY <1>1, <1>3, <2>1
    DEF ArithThrows, StartRollback, Receive, Goto, control, shared, txn
  <2>2. CASE ~ArithThrows(c)
    BY <1>3, <1>6, <2>2
    DEF StackRequest, Push, ArithOk, Pop, ArithRefused, ArithNoValue, Answer,
        control, shared, txn
  <2>3. QED
    BY <2>1, <2>2
<1>7. CASE TableRequest(c)
  <2>1. PICK u \in Tables : OnTable(c, u) \/ \E k \in Keys : OnKey(c, u, k)
    BY <1>7 DEF TableRequest
  <2>2. CASE Create(c, u)
    BY <1>1, <1>3, <1>4, <2>2 DEF Create, Answer, control, txn, LockOK
  <2>3. CASE SetRefused(c, u) \/ SetNoOperand(c, u) \/ GetNoTable(c, u)
    BY <1>1, <1>3, <1>4, <2>3
    DEF SetRefused, SetNoOperand, GetNoTable, ReceiveSet, Receive, Unlock, Answer,
        control, shared, txn, LockOK
  <2>4. ASSUME NEW k \in Keys, SetBuffered(c, u, k) \/ GetInTxn(c, u, k)
        PROVE  owner'[t] = c
    BY <1>1, <1>3, <2>4
    DEF SetBuffered, GetInTxn, ReceiveSet, ReceiveGet, Receive, LockInTxn, Answer,
        control
  <2>5. ASSUME NEW k \in Keys, GetMissing(c, u, k)
        PROVE  owner'[t] = c
    BY <1>1, <1>3, <2>5
    DEF GetMissing, ReceiveGet, Receive, LockInTxn, StartRollback, Goto
  <2>6. ASSUME NEW k \in Keys, SetContended(c, u, k) \/ GetContended(c, u, k)
        PROVE  owner'[t] = c
    <3>1. <<u, k, None>> # None
      BY NamesAssumption DEF Targets
    <3>2. SetContended(c, u, k) => <<u, k, TopOf(c)>> # None
      BY TopOfType, NamesAssumption DEF SetContended, TypeOK, Targets
    <3>3. QED
      BY <1>1, <1>3, <2>6, <3>1, <3>2
      DEF SetContended, GetContended, ReceiveSet, ReceiveGet, Receive,
          StartRollback, Goto, shared
  <2>7. ASSUME NEW k \in Keys, SetAuto(c, u, k) \/ GetAuto(c, u, k)
        PROVE  owner'[t] = c
    BY <1>1, <1>3, <1>4, <2>7
    DEF SetAuto, GetAuto, ReceiveSet, ReceiveGet, Receive, Continue, Goto, shared,
        txn, LockOK
  <2>8. QED
    BY <2>1, <2>2, <2>3, <2>4, <2>5, <2>6, <2>7 DEF OnTable, OnKey
<1>8. CASE Begin(c) \/ Commit(c)
  BY <1>1, <1>3, <1>8
  DEF Begin, Commit, Receive, Answer, control, Goto, shared, txn
<1>9. CASE SetLock(c) \/ SetWrite(c) \/ SetSave(c)
  BY <1>1, <1>3, <1>4, <1>9
  DEF SetLock, SetWrite, SetSave, TableSet, CommitChanges, Goto, txn, LockOK
<1>10. CASE UnlockAndReply(c) \/ FailSet(c)
  BY <1>1, <1>3, <1>4, <1>10
  DEF UnlockAndReply, FailSet, Unlock, Finish, Continue, Goto, txn, LockOK
<1>11. CASE Apply(c) \/ Publish(c) \/ Undo(c)
  BY <1>1, <1>3, <1>11
  DEF Apply, Publish, Undo, TableSet, CommitChanges, RollbackChanges, Loop,
      Visit, Goto, shared, txn
<1>12. CASE Release(c) \/ Free(c)
  BY <1>1, <1>3, <1>12
  DEF Release, Free, Unlock, Visit, EndTxn, Finish, Continue, Goto, shared, txn
<1>13. QED
  BY <1>5, <1>6, <1>7, <1>8, <1>9, <1>10, <1>11, <1>12 DEF Request, Internal

LEMMA HeldStep ==
    ASSUME TypeOK, RequestOK, LockInv, HeldLocksAreOwned, [Next]_vars
    PROVE  HeldLocksAreOwned'
<1> USE DEF HeldLocksAreOwned
<1>1. CASE UNCHANGED vars
  BY <1>1 DEF vars, shared, control, txn, Holds
<1>2. CASE Next
  <2>1. PICK c \in Conns : Request(c) \/ Internal(c)
    BY <1>2 DEF Next
  <2>2. CASE ArithKills(c)
    BY <2>2 DEF ArithKills, Holds, Each
  <2>3. CASE ~ArithKills(c)
    <3>1. SUFFICES ASSUME NEW d \in Conns, NEW t \in Tables,
                          t \notin robbed', Holds(d, t)'
                   PROVE  owner'[t] = d
      OBVIOUS
    <3>2. CASE d = c
      BY <2>1, <2>3, <3>1, <3>2, OwnHeld
    <3>3. CASE d # c
      <4>1. SameFor(d)
        BY <2>1, <2>3, <3>3, OthersUntouched
      <4>2. Holds(d, t)
        BY <3>1, <4>1 DEF SameFor, Holds
      <4>3. robbed \subseteq robbed' /\ (owner[t] = d => owner'[t] = d)
        BY <2>1, <2>3, <3>1, <3>3, OthersKeepTheirs
      <4>4. QED
        BY <3>1, <4>2, <4>3
    <3>4. QED
      BY <3>2, <3>3
  <2>4. QED
    BY <2>2, <2>3
<1>3. QED
  BY <1>1, <1>2

(* A lock that a thread relies on, from trylock() or lock() to unlock(), is  *)
(* its own, on every table that no other thread has reached into.            *)
THEOREM HeldLocksOwned == Spec => []HeldLocksAreOwned
<1>1. Init => HeldLocksAreOwned
  BY DEF Init, HeldLocksAreOwned, Holds, Each
<1>2. TypeOK /\ RequestOK /\ LockInv /\ HeldLocksAreOwned /\ [Next]_vars
        => HeldLocksAreOwned'
  BY HeldStep
<1>3. QED
  BY <1>1, <1>2, LocksAccountedFor, PTL DEF Spec

(* Two threads never rely on the lock of the same table at the same time,    *)
(* with the same proviso.                                                    *)
THEOREM MutualExclusion ==
    Spec => [](\A c, d \in Conns : \A t \in Tables \ robbed :
                  Holds(c, t) /\ Holds(d, t) => c = d)
<1>1. HeldLocksAreOwned =>
        (\A c, d \in Conns : \A t \in Tables \ robbed :
            Holds(c, t) /\ Holds(d, t) => c = d)
  BY DEF HeldLocksAreOwned
<1>2. QED
  BY <1>1, HeldLocksOwned, PTL

-----------------------------------------------------------------------------
(* What the locks are for: the contents of a table change only under its     *)
(* lock, so that nothing half done is left in it and what a transaction has  *)
(* read stays true.                                                          *)

(* A step of c leaves the contents of a table alone unless c owns its mutex, *)
(* or else puts the table into `robbed`.                                     *)
LEMMA ChangedByOwner ==
    ASSUME TypeOK, RequestOK, NEW c \in Conns, Request(c) \/ Internal(c),
           ~ArithKills(c), NEW t \in Tables, t \notin robbed', owner[t] # c
    PROVE  data'[t] = data[t] /\ temp'[t] = temp[t]
<1> DEFINE Goal == data'[t] = data[t] /\ temp'[t] = temp[t]
<1>1. data \in [Tables -> Store] /\ temp \in [Tables -> Store]
  BY DEF TypeOK, SharedTypeOK
<1>2. CASE UNCHANGED <<data, temp>>
  BY <1>2
<1>3. ASSUME NEW u \in Tables, NEW k \in Keys, NEW v \in Vals \cup {None},
             TableSet(c, u, k, v)
      PROVE  Goal
  BY <1>1, <1>3 DEF TableSet, Trespass
<1>4. ASSUME NEW u \in Tables, CommitChanges(c, u) \/ RollbackChanges(c, u)
      PROVE  Goal
  BY <1>1, <1>4 DEF CommitChanges, RollbackChanges, Trespass
<1>5. CASE Session(c) \/ StackRequest(c)
  BY <1>2, <1>5
  DEF Session, Accept, AcceptFails, Login, Bye, Eof, Reject, Disconnect,
      StackRequest, Push, Pop, ArithOk, ArithRefused, ArithNoValue, ArithThrows,
      shared
<1>6. CASE TableRequest(c)
  <2>1. PICK u \in Tables : OnTable(c, u) \/ \E k \in Keys : OnKey(c, u, k)
    BY <1>6 DEF TableRequest
  <2>2. CASE OnTable(c, u)
    BY <1>2, <2>2
    DEF OnTable, Create, SetRefused, SetNoOperand, GetNoTable, Unlock, shared
  <2>3. ASSUME NEW k \in Keys, OnKey(c, u, k) PROVE Goal
    BY <1>2, <2>3
    DEF OnKey, SetBuffered, GetInTxn, GetMissing, SetContended, GetContended,
        SetAuto, GetAuto, LockInTxn, shared
  <2>4. QED
    BY <2>1, <2>2, <2>3
<1>7. CASE Begin(c) \/ Commit(c)
  BY <1>2, <1>7 DEF Begin, Commit, shared
<1>8. CASE SetLock(c) \/ UnlockAndReply(c) \/ FailSet(c)
  BY <1>2, <1>8 DEF SetLock, UnlockAndReply, FailSet, Unlock
<1>9. CASE SetWrite(c) \/ SetSave(c)
  <2>1. /\ req[c][1] \in Tables /\ req[c][2] \in Keys
        /\ req[c][3] \in Vals \cup {None}
    BY <1>9 DEF SetWrite, SetSave, RequestOK, Targets
  <2>2. QED
    BY <1>3, <1>4, <1>9, <2>1 DEF SetWrite, SetSave
<1>10. CASE Apply(c)
  <2>1. ASSUME NEW w \in writes[c],
               TableSet(c, w[1], w[2], buffer[c][w[1]][w[2]])
        PROVE  Goal
    <3>1. w[1] \in Tables /\ w[2] \in Keys
      BY DEF TypeOK, ControlTypeOK
    <3>2. buffer[c][w[1]][w[2]] \in Vals \cup {None}
      BY <3>1 DEF TypeOK, TxnTypeOK, Store
    <3>3. QED
      BY <1>3, <2>1, <3>1, <3>2
  <2>2. QED
    BY <1>2, <1>10, <2>1 DEF Apply, shared
<1>11. CASE Publish(c) \/ Undo(c)
  BY <1>2, <1>4, <1>11 DEF Publish, Undo, shared
<1>12. CASE Release(c) \/ Free(c)
  BY <1>2, <1>12 DEF Release, Free, Unlock, shared
<1>13. QED
  BY <1>5, <1>6, <1>7, <1>8, <1>9, <1>10, <1>11, <1>12 DEF Request, Internal

-----------------------------------------------------------------------------
(* Nothing half done is left in a table *)

(* c is about to publish what is in m_temp_data of t.                        *)
Publishing(c, t) ==
    /\ owner[t] = c
    /\ \/ pc[c] = "save" /\ req[c][1] = t
       \/ pc[c] = "apply"
       \/ pc[c] = "publish" /\ t \in todo[c]

ResidueInv ==
    \A t \in Tables \ robbed :
        temp[t] # Empty => \E c \in Conns : Publishing(c, t)

(* A step of c that leaves something in m_temp_data of a table that is not   *)
(* being published by another thread: c itself will publish it.              *)
LEMMA OwnResidue ==
    ASSUME TypeOK, RequestOK, LockInv, ResidueInv, NEW c \in Conns,
           Request(c) \/ Internal(c), ~ArithKills(c), NEW t \in Tables,
           t \notin robbed', t \notin robbed, temp'[t] # Empty,
           \A d \in Conns \ {c} : ~Publishing(d, t)
    PROVE  Publishing(c, t)'
<1> USE DEF Publishing
<1>1. /\ pc \in [Conns -> Labels] /\ req \in [Conns -> Targets \cup {None}]
      /\ then \in [Conns -> Endings]
      /\ todo \in [Conns -> SUBSET Tables] /\ locked \in [Conns -> SUBSET Tables]
      /\ inTxn \in [Conns -> BOOLEAN]
      /\ owner \in [Tables -> Conns \cup {None, Junk}]
      /\ data \in [Tables -> Store] /\ temp \in [Tables -> Store]
  BY DEF TypeOK, SharedTypeOK, ControlTypeOK, TxnTypeOK
<1>2. temp[t] # Empty => Publishing(c, t)
  BY DEF ResidueInv
<1>3. owner[t] = c => Holds(c, t)
  BY DEF LockInv, LockOK
<1>4. owner[t] = c
  <2>1. owner[t] # c => temp'[t] = temp[t]
    BY ChangedByOwner
  <2>2. QED
    BY <1>2, <2>1
<1>5. CASE temp'[t] = temp[t] /\ owner'[t] = c /\ pc'[c] = pc[c]
             /\ req'[c] = req[c] /\ todo'[c] = todo[c]
  BY <1>2, <1>5
<1>6. CASE pc[c] \in {"new", "login", "read", "lock", "unlock", "drop",
                      "release", "undo", "free", "failset"}
             /\ temp'[t] = temp[t]
  BY <1>2, <1>6
<1>7. CASE Session(c) \/ StackRequest(c) \/ TableRequest(c) \/ Begin(c) \/ Commit(c)
  <2>1. pc[c] \in {"new", "login", "read"}
    <3>1. CASE Session(c) \/ StackRequest(c)
      BY <3>1
      DEF Session, Accept, AcceptFails, Login, Bye, Eof, Reject, StackRequest, Push,
          Pop, ArithOk, ArithRefused, ArithNoValue, ArithThrows, Receive
    <3>2. CASE TableRequest(c)
      <4>1. ASSUME NEW u \in Tables, OnTable(c, u)
            PROVE  pc[c] \in {"new", "login", "read"}
        BY <4>1
        DEF OnTable, Create, SetRefused, SetNoOperand, GetNoTable, ReceiveSet,
            ReceiveGet, Receive
      <4>2. ASSUME NEW u \in Tables, NEW k \in Keys, OnKey(c, u, k)
            PROVE  pc[c] \in {"new", "login", "read"}
        BY <4>2
        DEF OnKey, SetBuffered, SetContended, SetAuto, GetContended, GetInTxn,
            GetMissing, GetAuto, ReceiveSet, ReceiveGet, Receive
      <4> QED
        BY <3>2, <4>1, <4>2 DEF TableRequest
    <3>3. CASE Begin(c) \/ Commit(c)
      BY <3>3 DEF Begin, Commit, Receive
    <3> QED
      BY <1>7, <3>1, <3>2, <3>3
  <2>2. temp' = temp
    BY <1>7, ZenonT(30)
    DEF Session, Accept, AcceptFails, Login, Bye, Eof, Reject, Disconnect,
        StackRequest, Push, Pop, ArithOk, ArithRefused, ArithNoValue, ArithThrows,
        TableRequest, OnTable, Create, SetRefused, SetNoOperand, GetNoTable, OnKey,
        SetBuffered, SetContended, SetAuto, GetContended, GetInTxn, GetMissing,
        GetAuto, LockInTxn, Unlock, Begin, Commit, shared
  <2>3. QED
    BY <1>6, <2>1, <2>2
<1>8. CASE SetLock(c) \/ UnlockAndReply(c) \/ FailSet(c) \/ Release(c) \/ Free(c)
  BY <1>6, <1>8
  DEF SetLock, UnlockAndReply, FailSet, Release, Free, Unlock, shared
<1>9. CASE SetWrite(c) \/ SetSave(c)
  <2>1. req[c][1] \in Tables
    BY <1>9 DEF SetWrite, SetSave, RequestOK, Targets
  <2>2. req[c][1] = t
    BY <1>3, <1>4, <1>9 DEF SetWrite, SetSave, Holds, LockInv, LockOK
  <2>3. QED
    BY <1>1, <1>4, <1>9, <2>2
    DEF SetWrite, SetSave, TableSet, CommitChanges, Goto
<1>10. CASE Apply(c)
  BY <1>1, <1>3, <1>4, <1>10
  DEF Apply, TableSet, Loop, Goto, Holds, shared
<1>11. CASE Publish(c)
  BY <1>1, <1>2, <1>4, <1>11
  DEF Publish, CommitChanges, Visit, Loop, Goto, shared
<1>12. CASE Undo(c)
  BY <1>1, <1>2, <1>12
  DEF Undo, RollbackChanges, Visit, Loop, Goto, shared
<1>13. QED
  BY <1>7, <1>8, <1>9, <1>10, <1>11, <1>12 DEF Request, Internal

LEMMA ResidueStep ==
    ASSUME TypeOK, RequestOK, LockInv, ResidueInv, [Next]_vars
    PROVE  ResidueInv'
<1>1. CASE UNCHANGED vars
  BY <1>1 DEF vars, shared, control, ResidueInv, Publishing
<1>2. CASE Next
  <2>1. PICK c \in Conns : Request(c) \/ Internal(c)
    BY <1>2 DEF Next
  <2>2. CASE ArithKills(c)
    BY <2>2 DEF ArithKills, ResidueInv, AllTables
  <2>3. CASE ~ArithKills(c)
    <3>1. SUFFICES ASSUME NEW t \in Tables, t \notin robbed', temp'[t] # Empty
                   PROVE  \E d \in Conns : Publishing(d, t)'
      BY DEF ResidueInv
    <3>2. t \notin robbed
      BY <2>1, <2>3, <3>1, OthersKeepTheirs
    <3>3. CASE \E d \in Conns \ {c} : Publishing(d, t)
      <4>1. PICK d \in Conns \ {c} : Publishing(d, t)
        BY <3>3
      <4>2. SameFor(d)
        BY <2>1, <2>3, OthersUntouched
      <4>3. owner'[t] = d
        BY <2>1, <2>3, <3>1, <4>1, OthersKeepTheirs DEF Publishing
      <4>4. QED
        BY <4>1, <4>2, <4>3 DEF Publishing, SameFor
    <3>4. CASE \A d \in Conns \ {c} : ~Publishing(d, t)
      BY <2>1, <2>3, <3>1, <3>2, <3>4, OwnResidue
    <3>5. QED
      BY <3>3, <3>4
  <2>4. QED
    BY <2>2, <2>3
<1>3. QED
  BY <1>1, <1>2

(* What is in m_temp_data of a table is about to be published by the owner   *)
(* of its lock.                                                              *)
THEOREM ResidueAccountedFor == Spec => []ResidueInv
<1>1. Init => ResidueInv
  BY DEF Init, ResidueInv, AllTables
<1>2. TypeOK /\ RequestOK /\ LockInv /\ ResidueInv /\ [Next]_vars => ResidueInv'
  BY ResidueStep
<1>3. QED
  BY <1>1, <1>2, LocksAccountedFor, PTL DEF Spec

(* m_temp_data of a table that nobody has reached into is empty whenever its *)
(* lock can be taken: no commit publishes what another thread left behind.   *)
THEOREM NothingLeftBehind == Spec => []NoResidue
<1>1. ResidueInv => NoResidue
  BY DEF ResidueInv, NoResidue, Publishing
<1>2. QED
  BY <1>1, ResidueAccountedFor, PTL

-----------------------------------------------------------------------------
(* What a transaction has read stays true *)

(* Outside a transaction nothing counts as read; inside one, between two     *)
(* requests, what was read is in tables that are tracked, and still there.   *)
SeenOK(c) ==
    /\ ~inTxn[c] => seen[c] = {}
    /\ pc[c] \in {"drop", "unlock", "failset", "login", "new"} => seen[c] = {}
    /\ pc[c] = "read" =>
          \A r \in seen[c] :
              /\ r[1] \in locked[c]
              /\ r[1] \notin robbed => View(r[1])[r[2]] = r[3]

SeenInv == \A c \in Conns : SeenOK(c)

(* A request that leaves the thread between two requests does not change     *)
(* what can be seen in a table, and adds to `seen` only what is in one.      *)
LEMMA OwnReads ==
    ASSUME TypeOK, RequestOK, LockInv, SeenInv, NEW c \in Conns,
           Request(c) \/ Internal(c), ~ArithKills(c)
    PROVE  SeenOK(c)'
<1> USE DEF SeenOK
<1>1. /\ pc \in [Conns -> Labels] /\ req \in [Conns -> Targets \cup {None}]
      /\ then \in [Conns -> Endings]
      /\ todo \in [Conns -> SUBSET Tables] /\ locked \in [Conns -> SUBSET Tables]
      /\ inTxn \in [Conns -> BOOLEAN]
      /\ seen \in [Conns -> SUBSET (Tables \X Keys \X Vals)]
  BY DEF TypeOK, ControlTypeOK, TxnTypeOK
<1>2. SeenOK(c) /\ LockOK(c)
  BY DEF SeenInv, LockInv
<1>3. robbed \subseteq robbed'
  BY OthersKeepTheirs
<1>4. UNCHANGED <<data, temp>> => \A t \in Tables : View(t)' = View(t)
  BY DEF View, Overlay
<1>5. CASE Session(c)
  BY <1>1, <1>2, <1>4, <1>5
  DEF Session, Accept, AcceptFails, Login, Bye, Eof, Reject, Receive, Disconnect,
      Goto, shared, txn
<1>6. CASE StackRequest(c)
  <2>1. CASE ArithThrows(c)
    BY <1>1, <1>2, <1>4, <2>1
    DEF ArithThrows, StartRollback, Receive, Goto, control, shared, txn
  <2>2. CASE ~ArithThrows(c)
    BY <1>1, <1>2, <1>4, <1>6, <2>2
    DEF StackRequest, Push, ArithOk, Pop, ArithRefused, ArithNoValue, Answer,
        control, shared, txn
  <2>3. QED
    BY <2>1, <2>2
<1>7. CASE TableRequest(c)
  <2>1. PICK u \in Tables : OnTable(c, u) \/ \E k \in Keys : OnKey(c, u, k)
    BY <1>7 DEF TableRequest
  <2>2. CASE OnTable(c, u)
    BY <1>1, <1>2, <1>3, <1>4, <2>2
    DEF OnTable, Create, SetRefused, SetNoOperand, GetNoTable, Unlock, Answer,
        control, shared, txn
  <2>3. ASSUME NEW k \in Keys, SetBuffered(c, u, k) PROVE SeenOK(c)'
    BY <1>1, <1>2, <1>3, <1>4, <2>3
    DEF SetBuffered, ReceiveSet, Receive, LockInTxn, Answer, control
  <2>4. ASSUME NEW k \in Keys, GetInTxn(c, u, k) PROVE SeenOK(c)'
    <3>1. /\ seen'[c] \subseteq seen[c] \cup {<<u, k, View(u)[k]>>}
          /\ locked'[c] = locked[c] \cup {u}
          /\ inTxn[c] /\ inTxn' = inTxn /\ pc[c] = "read" /\ pc' = pc
          /\ UNCHANGED <<data, temp>>
      BY <1>1, <2>4
      DEF GetInTxn, ReceiveGet, Receive, LockInTxn, Answer, control
    <3>2. QED
      BY <1>1, <1>2, <1>3, <1>4, <3>1
  <2>5. ASSUME NEW k \in Keys,
               \/ SetContended(c, u, k) \/ GetContended(c, u, k)
               \/ GetMissing(c, u, k)
        PROVE  SeenOK(c)'
    BY <1>1, <1>2, <2>5
    DEF SetContended, GetContended, GetMissing, ReceiveSet, ReceiveGet, Receive,
        StartRollback, Goto
  <2>6. ASSUME NEW k \in Keys, SetAuto(c, u, k) \/ GetAuto(c, u, k)
        PROVE  SeenOK(c)'
    BY <1>1, <1>2, <2>6
    DEF SetAuto, GetAuto, ReceiveSet, ReceiveGet, Receive, Continue, Goto, txn
  <2>7. QED
    BY <2>1, <2>2, <2>3, <2>4, <2>5, <2>6 DEF OnKey
<1>8. CASE Begin(c) \/ Commit(c)
  BY <1>1, <1>2, <1>4, <1>8
  DEF Begin, Commit, Receive, Answer, control, Goto, shared, txn
<1>9. CASE SetLock(c) \/ SetWrite(c) \/ SetSave(c)
  BY <1>1, <1>2, <1>9 DEF SetLock, SetWrite, SetSave, Goto, txn, LockOK
<1>10. CASE UnlockAndReply(c) \/ FailSet(c)
  BY <1>1, <1>2, <1>10
  DEF UnlockAndReply, FailSet, Finish, Continue, Goto, txn
<1>11. CASE Apply(c) \/ Publish(c) \/ Undo(c)
  BY <1>1, <1>2, <1>11 DEF Apply, Publish, Undo, Visit, Loop, Goto, txn
<1>12. CASE Release(c) \/ Free(c)
  BY <1>1, <1>2, <1>12
  DEF Release, Free, Visit, EndTxn, Finish, Continue, Goto, txn
<1>13. QED
  BY <1>5, <1>6, <1>7, <1>8, <1>9, <1>10, <1>11, <1>12 DEF Request, Internal

(* A step of c leaves to every other thread what that thread has read.       *)
LEMMA OthersSeen ==
    ASSUME TypeOK, NEW c \in Conns, Request(c) \/ Internal(c), ~ArithKills(c),
           NEW d \in Conns, d # c
    PROVE  seen'[d] = seen[d]
<1>1. seen \in [Conns -> SUBSET (Tables \X Keys \X Vals)]
  BY DEF TypeOK, TxnTypeOK
<1>2. CASE UNCHANGED seen
  BY <1>2
<1>3. CASE Request(c)
  <2>1. CASE Session(c)
    BY <1>1, <2>1
    DEF Session, Accept, AcceptFails, Login, Bye, Eof, Reject, Disconnect, txn
  <2>2. CASE StackRequest(c)
    BY <1>1, <2>2
    DEF StackRequest, Push, Pop, ArithOk, ArithRefused, ArithNoValue, ArithThrows,
        txn
  <2>3. CASE TableRequest(c)
    <3>1. ASSUME NEW t \in Tables, OnTable(c, t) PROVE seen'[d] = seen[d]
      BY <1>1, <3>1 DEF OnTable, Create, SetRefused, SetNoOperand, GetNoTable, txn
    <3>2. ASSUME NEW t \in Tables, NEW k \in Keys,
                 SetBuffered(c, t, k) \/ SetContended(c, t, k) \/ SetAuto(c, t, k)
          PROVE  seen'[d] = seen[d]
      BY <1>1, <3>2 DEF SetBuffered, SetContended, SetAuto, txn
    <3>3. ASSUME NEW t \in Tables, NEW k \in Keys,
                 \/ GetContended(c, t, k) \/ GetInTxn(c, t, k)
                 \/ GetMissing(c, t, k) \/ GetAuto(c, t, k)
          PROVE  seen'[d] = seen[d]
      BY <1>1, <3>3 DEF GetContended, GetInTxn, GetMissing, GetAuto, txn
    <3> QED
      BY <2>3, <3>1, <3>2, <3>3 DEF TableRequest, OnKey
  <2>4. CASE Begin(c) \/ Commit(c)
    BY <1>1, <2>4
    DEF Begin, Commit, txn
  <2> QED
    BY <1>3, <2>1, <2>2, <2>3, <2>4 DEF Request
<1>4. CASE Internal(c)
  BY <1>1, <1>4
  DEF Internal, SetLock, SetWrite, SetSave, UnlockAndReply, FailSet, Apply,
      Publish, Release, Undo, Free, EndTxn, txn
<1>5. QED
  BY <1>3, <1>4

LEMMA SeenStep ==
    ASSUME TypeOK, RequestOK, LockInv, HeldLocksAreOwned, SeenInv, [Next]_vars
    PROVE  SeenInv'
<1>1. CASE UNCHANGED vars
  BY <1>1
  DEF vars, shared, control, txn, SeenInv, SeenOK, View, Overlay
<1>2. CASE Next
  <2>1. PICK c \in Conns : Request(c) \/ Internal(c)
    BY <1>2 DEF Next
  <2>2. CASE ArithKills(c)
    BY <2>2 DEF ArithKills, SeenInv, SeenOK, Each
  <2>3. CASE ~ArithKills(c)
    <3>1. SeenOK(c)'
      BY <2>1, <2>3, OwnReads
    <3>2. ASSUME NEW d \in Conns, d # c PROVE SeenOK(d)'
      <4>1. SameFor(d) /\ seen'[d] = seen[d] /\ SeenOK(d)
        BY <2>1, <2>3, <3>2, OthersUntouched, OthersSeen DEF SeenInv
      <4>2. ASSUME NEW r \in seen[d], pc[d] = "read", r[1] \notin robbed'
            PROVE  View(r[1])'[r[2]] = r[3]
        <5>1. r[1] \in Tables /\ r[1] \in locked[d] /\ r[1] \notin robbed
          BY <2>1, <2>3, <4>1, <4>2, OthersKeepTheirs
          DEF SeenOK, TypeOK, TxnTypeOK
        <5>2. owner[r[1]] = d
          BY <4>2, <5>1 DEF HeldLocksAreOwned, Holds
        <5>3. data'[r[1]] = data[r[1]] /\ temp'[r[1]] = temp[r[1]]
          BY <2>1, <2>3, <3>2, <4>2, <5>1, <5>2, ChangedByOwner
        <5>4. View(r[1])[r[2]] = r[3]
          BY <4>1, <4>2, <5>1 DEF SeenOK
        <5>5. QED
          BY <5>3, <5>4 DEF View, Overlay
      <4>3. QED
        BY <4>1, <4>2 DEF SeenOK, SameFor
    <3>3. QED
      BY <3>1, <3>2 DEF SeenInv
  <2>4. QED
    BY <2>2, <2>3
<1>3. QED
  BY <1>1, <1>2

(* What a thread has read between two requests is accounted for.             *)
THEOREM ReadsAccountedFor == Spec => []SeenInv
<1>1. Init => SeenInv
  BY DEF Init, SeenInv, SeenOK, Each
<1>2. /\ TypeOK /\ RequestOK /\ LockInv /\ HeldLocksAreOwned /\ SeenInv
      /\ [Next]_vars
      => SeenInv'
  BY SeenStep
<1>3. QED
  BY <1>1, <1>2, LocksAccountedFor, HeldLocksOwned, PTL DEF Spec

(* Repeatable reads: all that an open transaction has read is still what the *)
(* tables hold, up to the tables that another thread has reached into.       *)
THEOREM RepeatableReads == Spec => []ReadsStable
<1>1. SeenInv => ReadsStable
  BY DEF SeenInv, SeenOK, ReadsStable
<1>2. QED
  BY <1>1, ReadsAccountedFor, PTL

-----------------------------------------------------------------------------
(* Every request is answered once *)

(* The thread owes a reply to the request it is working on.                  *)
Owing(c) ==
    \/ pc[c] \in {"lock", "write", "save", "unlock", "drop", "apply", "publish",
                  "release", "failset"}
    \/ pc[c] \in {"undo", "free"} /\ then[c] # "threw"

ReplyOK(c) ==
    /\ replies[c] = <<>> \/ \E r \in Answers : replies[c] = <<r>>
    /\ Owing(c) => replies[c] = <<>>
    /\ pc[c] = "read" \/ (pc[c] \in {"undo", "free"} /\ then[c] = "threw")
           => replies[c] # <<>>

ReplyInv == \A c \in Conns : ReplyOK(c)

LEMMA OneReply ==
    ASSUME NEW r, NEW s, s = <<>>
    PROVE  Append(s, r) = <<r>> /\ <<r>> # <<>>
  OBVIOUS

LEMMA OwnReply ==
    ASSUME TypeOK, RequestOK, ReplyInv, NEW c \in Conns,
           Request(c) \/ Internal(c), ~ArithKills(c)
    PROVE  ReplyOK(c)'
<1> USE DEF ReplyOK, Owing
<1>1. /\ pc \in [Conns -> Labels] /\ then \in [Conns -> Endings]
      /\ replies \in [Conns -> Seq({"ok", "failed", "error"})]
  BY DEF TypeOK, ControlTypeOK, OperandTypeOK
<1>2. ReplyOK(c)
  BY DEF ReplyInv
<1>3. \A r \in Answers : \A s : s = <<>> => Append(s, r) = <<r>> /\ <<r>> # <<>>
  BY OneReply
<1>4. "ok" \in Answers /\ "failed" \in Answers /\ "error" \in Answers
  BY DEF Answers
<1>5. CASE Session(c)
  BY <1>1, <1>2, <1>3, <1>4, <1>5
  DEF Session, Accept, AcceptFails, Login, Bye, Eof, Reject, Receive, Disconnect,
      Goto, Reply
<1>6. CASE StackRequest(c)
  BY <1>1, <1>2, <1>3, <1>4, <1>6
  DEF StackRequest, Push, ArithOk, Pop, ArithRefused, ArithNoValue, ArithThrows,
      StartRollback, Receive, Answer, Reply, Goto, control
<1>7. CASE TableRequest(c)
  <2>1. PICK t \in Tables : OnTable(c, t) \/ \E k \in Keys : OnKey(c, t, k)
    BY <1>7 DEF TableRequest
  <2>2. CASE OnTable(c, t)
    BY <1>1, <1>2, <1>3, <1>4, <2>2
    DEF OnTable, Create, SetRefused, SetNoOperand, GetNoTable, ReceiveSet, Receive,
        Answer, Reply, control
  <2>3. ASSUME NEW k \in Keys, SetBuffered(c, t, k) \/ GetInTxn(c, t, k)
        PROVE  ReplyOK(c)'
    BY <1>1, <1>2, <1>3, <1>4, <2>3
    DEF SetBuffered, GetInTxn, ReceiveSet, ReceiveGet, Receive, Answer, Reply,
        control
  <2>4. ASSUME NEW k \in Keys,
               \/ SetContended(c, t, k) \/ GetContended(c, t, k)
               \/ GetMissing(c, t, k)
        PROVE  ReplyOK(c)'
    BY <1>1, <2>4
    DEF SetContended, GetContended, GetMissing, StartRollback, ReplyLater, Goto
  <2>5. ASSUME NEW k \in Keys, SetAuto(c, t, k) \/ GetAuto(c, t, k)
        PROVE  ReplyOK(c)'
    BY <1>1, <2>5 DEF SetAuto, GetAuto, Continue, ReplyLater, Goto
  <2>6. QED
    BY <2>1, <2>2, <2>3, <2>4, <2>5 DEF OnKey
<1>8. CASE Begin(c) \/ Commit(c)
  BY <1>1, <1>2, <1>3, <1>4, <1>8
  DEF Begin, Commit, Receive, Answer, Reply, ReplyLater, Goto, control
<1>9. CASE SetLock(c) \/ SetWrite(c) \/ SetSave(c)
  BY <1>1, <1>2, <1>9 DEF SetLock, SetWrite, SetSave, Goto
<1>10. CASE UnlockAndReply(c)
  <2>1. then[c] \in Answers
    BY <1>10 DEF UnlockAndReply, RequestOK, Answers
  <2>2. QED
    BY <1>1, <1>2, <1>3, <1>10, <2>1
    DEF UnlockAndReply, ReplyNow, Finish, Continue, Goto
<1>11. CASE FailSet(c)
  BY <1>1, <1>2, <1>3, <1>4, <1>11
  DEF FailSet, ReplyNow, Finish, Continue, Goto
<1>12. CASE Apply(c) \/ Publish(c) \/ Undo(c)
  BY <1>1, <1>2, <1>12 DEF Apply, Publish, Undo, Visit, Loop, Goto
<1>13. CASE Release(c) \/ Free(c)
  BY <1>1, <1>2, <1>3, <1>4, <1>13
  DEF Release, Free, Visit, ReplyNow, Finish, Continue, Goto
<1>14. QED
  BY <1>5, <1>6, <1>7, <1>8, <1>9, <1>10, <1>11, <1>12, <1>13
  DEF Request, Internal

LEMMA OthersReplies ==
    ASSUME TypeOK, NEW c \in Conns, Request(c) \/ Internal(c), ~ArithKills(c),
           NEW d \in Conns, d # c
    PROVE  replies'[d] = replies[d] /\ then'[d] = then[d]
<1>1. /\ then \in [Conns -> Endings]
      /\ replies \in [Conns -> Seq({"ok", "failed", "error"})]
  BY DEF TypeOK, ControlTypeOK, OperandTypeOK
<1>2. CASE Request(c)
  <2>1. CASE Session(c)
    BY <1>1, <2>1
    DEF Session, Accept, AcceptFails, Login, Bye, Eof, Reject, Disconnect, Answer,
        Reply, ReplyLater, StartRollback, Continue, control
  <2>2. CASE StackRequest(c)
    BY <1>1, <2>2
    DEF StackRequest, Push, Pop, ArithOk, ArithRefused, ArithNoValue, ArithThrows,
        Answer, Reply, ReplyLater, StartRollback, Continue, control
  <2>3. CASE TableRequest(c)
    BY <1>1, <2>3
    DEF TableRequest, OnTable, Create, SetRefused, SetNoOperand, GetNoTable, OnKey,
        SetBuffered, SetContended, SetAuto, GetContended, GetInTxn, GetMissing,
        GetAuto, Answer, Reply, ReplyLater, StartRollback, Continue, control
  <2>4. CASE Begin(c) \/ Commit(c)
    BY <1>1, <2>4
    DEF Begin, Commit, Answer, Reply, ReplyLater, StartRollback, Continue, control
  <2> QED
    BY <1>2, <2>1, <2>2, <2>3, <2>4 DEF Request
<1>3. CASE Internal(c)
  BY <1>1, <1>3
  DEF Internal, SetLock, SetWrite, SetSave, UnlockAndReply, FailSet, Apply,
      Publish, Release, Undo, Free, Visit, Loop, Finish, Continue, ReplyNow
<1>4. QED
  BY <1>2, <1>3

LEMMA ReplyStep ==
    ASSUME TypeOK, RequestOK, ReplyInv, [Next]_vars
    PROVE  ReplyInv'
<1>1. CASE UNCHANGED vars
  BY <1>1 DEF vars, control, ReplyInv, ReplyOK, Owing
<1>2. CASE Next
  <2>1. PICK c \in Conns : Request(c) \/ Internal(c)
    BY <1>2 DEF Next
  <2>2. CASE ArithKills(c)
    BY <2>2 DEF ArithKills, ReplyInv, ReplyOK, Owing, Each
  <2>3. CASE ~ArithKills(c)
    <3>1. ReplyOK(c)'
      BY <2>1, <2>3, OwnReply
    <3>2. ASSUME NEW d \in Conns, d # c PROVE ReplyOK(d)'
      BY <2>1, <2>3, <3>2, OthersUntouched, OthersReplies
      DEF SameFor, ReplyInv, ReplyOK, Owing
    <3>3. QED
      BY <3>1, <3>2 DEF ReplyInv
  <2>4. QED
    BY <2>2, <2>3
<1>3. QED
  BY <1>1, <1>2

(* One reply per request: none is sent twice, on no path of any handler and  *)
(* through no exception, and none is forgotten.                              *)
THEOREM AnsweredOnce == Spec => []OneReplyPerRequest
<1>1. Init => ReplyInv
  BY DEF Init, ReplyInv, ReplyOK, Owing, Each
<1>2. TypeOK /\ RequestOK /\ ReplyInv /\ [Next]_vars => ReplyInv'
  BY ReplyStep
<1>3. ReplyInv => OneReplyPerRequest
  <2>1. SUFFICES ASSUME ReplyInv, NEW c \in Conns
                 PROVE  /\ Len(replies[c]) <= 1
                        /\ pc[c] = "read" => Len(replies[c]) = 1
    BY DEF OneReplyPerRequest
  <2>2. ReplyOK(c)
    BY <2>1 DEF ReplyInv
  <2>3. CASE replies[c] = <<>>
    <3>1. Len(replies[c]) = 0 /\ pc[c] # "read"
      BY <2>2, <2>3 DEF ReplyOK
    <3>2. QED
      BY <3>1
  <2>4. CASE replies[c] # <<>>
    <3>1. PICK r \in Answers : replies[c] = <<r>>
      BY <2>2, <2>4 DEF ReplyOK
    <3>2. Len(replies[c]) = 1
      BY <3>1
    <3>3. QED
      BY <3>2
  <2>5. QED
    BY <2>3, <2>4
<1>4. QED
  BY <1>1, <1>2, <1>3, LocksAccountedFor, PTL DEF Spec

-----------------------------------------------------------------------------
(* What a thread knows of the tables it is about to publish *)

(* Until a table is robbed: a SET has put its value and nothing else into    *)
(* m_temp_data; commit() has put there what it has applied so far; and what  *)
(* the transaction has read is in m_data of tables that it owns.             *)
SaveOK(c) ==
    pc[c] = "save" =>
        \A k \in Keys : temp[req[c][1]][k] =
            IF k = req[c][2] THEN req[c][3] ELSE None

ApplyOK(c) ==
    pc[c] = "apply" =>
        \A t \in Tables, k \in Keys :
            /\ owner[t] = c => temp[t][k] = IF <<t, k>> \in writes[c]
                                              THEN None ELSE buffer[c][t][k]
            /\ buffer[c][t][k] # None /\ <<t, k>> \notin writes[c] => owner[t] = c

ReadOK(c) ==
    pc[c] \in {"read", "apply"} =>
        \A r \in seen[c] : owner[r[1]] = c /\ data[r[1]][r[2]] = r[3]

(* Whatever has been robbed: commit() is inside a transaction, only tracked  *)
(* tables are published, and only values are written.                        *)
TodoOK(c) ==
    /\ pc[c] = "apply" => inTxn[c]
    /\ pc[c] = "publish" => todo[c] \subseteq locked[c]
    /\ pc[c] \in {"lock", "write", "save"} => req[c][3] \in Vals

StoredOK(c) == TodoOK(c) /\ (robbed = {} => SaveOK(c) /\ ApplyOK(c) /\ ReadOK(c))
StoredInv == \A c \in Conns : StoredOK(c)

(* All that is known of a state.                                             *)
Known ==
    /\ TypeOK /\ RequestOK /\ LockInv /\ HeldLocksAreOwned
    /\ ResidueInv /\ SeenInv

(* The invariants proved so far hold together: types, locks, what is in      *)
(* m_temp_data and what has been read.                                       *)
THEOREM KnownAlways == Spec => []Known
<1>1. TypeOK /\ RequestOK /\ LockInv /\ HeldLocksAreOwned /\ ResidueInv /\ SeenInv
        => Known
  BY DEF Known
<1>2. QED
  BY <1>1, LocksAccountedFor, HeldLocksOwned, ResidueAccountedFor,
     ReadsAccountedFor, PTL

(* The types of all that is used below, in one place.                        *)
LEMMA Types ==
    ASSUME TypeOK
    PROVE  /\ pc \in [Conns -> Labels] /\ req \in [Conns -> Targets \cup {None}]
           /\ then \in [Conns -> Endings]
           /\ todo \in [Conns -> SUBSET Tables]
           /\ writes \in [Conns -> SUBSET (Tables \X Keys)]
           /\ locked \in [Conns -> SUBSET Tables] /\ inTxn \in [Conns -> BOOLEAN]
           /\ buffer \in [Conns -> [Tables -> Store]]
           /\ seen \in [Conns -> SUBSET (Tables \X Keys \X Vals)]
           /\ owner \in [Tables -> Conns \cup {None, Junk}]
           /\ data \in [Tables -> Store] /\ temp \in [Tables -> Store]
           /\ robbed \subseteq Tables
  BY DEF TypeOK, SharedTypeOK, ControlTypeOK, TxnTypeOK

(* A step of c leaves the session of another thread alone.                   *)
LEMMA OthersSessions ==
    ASSUME TypeOK, NEW c \in Conns, Request(c) \/ Internal(c), ~ArithKills(c),
           NEW d \in Conns, d # c
    PROVE  buffer'[d] = buffer[d] /\ writes'[d] = writes[d] /\ seen'[d] = seen[d]
<1>1. buffer \in [Conns -> [Tables -> Store]]
      /\ writes \in [Conns -> SUBSET (Tables \X Keys)]
  BY Types
<1>2. seen'[d] = seen[d]
  BY OthersSeen
<1>3. CASE Request(c)
  <2>1. CASE Session(c)
    BY <1>1, <1>2, <2>1
    DEF Session, Accept, AcceptFails, Login, Bye, Eof, Reject, Disconnect, Answer,
        StartRollback, Continue, txn, control
  <2>2. CASE StackRequest(c)
    BY <1>1, <1>2, <2>2
    DEF StackRequest, Push, Pop, ArithOk, ArithRefused, ArithNoValue, ArithThrows,
        Answer, StartRollback, Continue, txn, control
  <2>3. CASE TableRequest(c)
    BY <1>1, <1>2, <2>3
    DEF TableRequest, OnTable, Create, SetRefused, SetNoOperand, GetNoTable, OnKey,
        SetBuffered, SetContended, SetAuto, GetContended, GetInTxn, GetMissing,
        GetAuto, Answer, StartRollback, Continue, txn, control
  <2>4. CASE Begin(c) \/ Commit(c)
    BY <1>1, <1>2, <2>4
    DEF Begin, Commit, Answer, StartRollback, Continue, txn, control
  <2> QED
    BY <1>3, <2>1, <2>2, <2>3, <2>4 DEF Request
<1>4. CASE Internal(c)
  BY <1>1, <1>2, <1>4
  DEF Internal, SetLock, SetWrite, SetSave, UnlockAndReply, FailSet, Apply,
      Publish, Release, Undo, Free, EndTxn, Visit, Loop, Finish, Continue, txn
<1>5. QED
  BY <1>3, <1>4

(* A table whose mutex c owns or could take is clean between two requests.   *)
LEMMA CleanBetween ==
    ASSUME Known, robbed = {}, NEW c \in Conns, pc[c] \in {"read", "write"},
           NEW t \in Tables, owner[t] \in {c, None}
    PROVE  temp[t] = Empty
<1>1. None \notin Conns
  BY NamesAssumption
<1>2. \A d \in Conns : ~Publishing(d, t)
  BY <1>1 DEF Publishing
<1>3. QED
  BY <1>2 DEF Known, ResidueInv

-----------------------------------------------------------------------------
(* StoredInv is inductive *)

LEMMA OthersStored ==
    ASSUME Known, StoredInv, NEW c \in Conns, Request(c) \/ Internal(c),
           ~ArithKills(c), NEW d \in Conns, d # c
    PROVE  StoredOK(d)'
<1>1. SameFor(d) /\ StoredOK(d)
  BY OthersUntouched DEF Known, StoredInv
<1>2. buffer'[d] = buffer[d] /\ writes'[d] = writes[d] /\ seen'[d] = seen[d]
  BY OthersSessions DEF Known
<1>3. TodoOK(d)'
  BY <1>1 DEF SameFor, StoredOK, TodoOK
<1>4. ASSUME robbed' = {} PROVE SaveOK(d)' /\ ApplyOK(d)' /\ ReadOK(d)'
  <2>1. robbed = {} /\ SaveOK(d) /\ ApplyOK(d) /\ ReadOK(d)
    BY <1>1, <1>4, OthersKeepTheirs DEF Known, StoredOK
  <2>2. ASSUME NEW t \in Tables, owner[t] = d
        PROVE  owner'[t] = d /\ data'[t] = data[t] /\ temp'[t] = temp[t]
    BY <1>4, <2>2, OthersKeepTheirs, ChangedByOwner DEF Known
  <2>3. \A t \in Tables : owner'[t] = d => owner[t] = d
    BY <1>1 DEF SameFor
  <2>4. SaveOK(d)'
    <3>1. SUFFICES ASSUME pc[d] = "save" PROVE SaveOK(d)'
      BY <1>1 DEF SaveOK, SameFor
    <3>2. req[d][1] \in Tables
      BY <3>1 DEF Known, RequestOK, Targets
    <3>3. owner[req[d][1]] = d
      BY <2>1, <3>1, <3>2 DEF Known, HeldLocksAreOwned, Holds
    <3>4. QED
      BY <1>1, <2>1, <2>2, <3>1, <3>2, <3>3 DEF SaveOK, SameFor
  <2>5. ApplyOK(d)'
    BY <1>1, <1>2, <2>1, <2>2, <2>3 DEF ApplyOK, SameFor
  <2>6. ReadOK(d)'
    <3>1. \A r \in seen[d] : r[1] \in Tables
      BY Types DEF Known
    <3>2. QED
      BY <1>1, <1>2, <2>1, <2>2, <3>1 DEF ReadOK, SameFor
  <2>7. QED
    BY <2>4, <2>5, <2>6
<1>5. QED
  BY <1>3, <1>4 DEF StoredOK

LEMMA OwnTodo ==
    ASSUME Known, StoredInv, NEW c \in Conns, Request(c) \/ Internal(c),
           ~ArithKills(c)
    PROVE  TodoOK(c)'
<1> USE DEF TodoOK
<1>1. TypeOK /\ TodoOK(c)
  BY DEF Known, StoredInv, StoredOK
<1>2. /\ pc \in [Conns -> Labels] /\ req \in [Conns -> Targets \cup {None}]
      /\ todo \in [Conns -> SUBSET Tables] /\ locked \in [Conns -> SUBSET Tables]
      /\ inTxn \in [Conns -> BOOLEAN]
  BY <1>1, Types
<1>3. CASE Session(c) \/ StackRequest(c) \/ Begin(c) \/ Commit(c)
  BY <1>1, <1>2, <1>3
  DEF Session, Accept, AcceptFails, Login, Bye, Eof, Reject, Disconnect, Receive,
      StackRequest, Push, Pop, ArithOk, ArithRefused, ArithNoValue, ArithThrows,
      StartRollback, Begin, Commit, Answer, Goto, control, txn
<1>4. CASE TableRequest(c)
  <2>1. PICK t \in Tables : OnTable(c, t) \/ \E k \in Keys : OnKey(c, t, k)
    BY <1>4 DEF TableRequest
  <2>2. CASE OnTable(c, t)
    BY <1>1, <1>2, <2>2
    DEF OnTable, Create, SetRefused, SetNoOperand, GetNoTable, ReceiveSet, Receive,
        Answer, control
  <2>3. ASSUME NEW k \in Keys, SetBuffered(c, t, k) \/ GetInTxn(c, t, k)
        PROVE  TodoOK(c)'
    BY <1>1, <1>2, <2>3
    DEF SetBuffered, GetInTxn, ReceiveSet, ReceiveGet, Receive, Answer, control
  <2>4. ASSUME NEW k \in Keys,
               \/ SetContended(c, t, k) \/ GetContended(c, t, k)
               \/ GetMissing(c, t, k)
        PROVE  TodoOK(c)'
    BY <1>2, <2>4
    DEF SetContended, GetContended, GetMissing, StartRollback, Goto
  <2>5. ASSUME NEW k \in Keys, SetAuto(c, t, k) PROVE TodoOK(c)'
    <3>1. TopOf(c) \in Vals
      BY <1>1, <2>5, TopOfType DEF SetAuto, TypeOK
    <3>2. QED
      BY <1>2, <2>5, <3>1 DEF SetAuto, Continue, Goto
  <2>6. ASSUME NEW k \in Keys, GetAuto(c, t, k) PROVE TodoOK(c)'
    BY <1>2, <2>6 DEF GetAuto, Continue, Goto
  <2>7. QED
    BY <2>1, <2>2, <2>3, <2>4, <2>5, <2>6 DEF OnKey
<1>5. CASE SetLock(c) \/ SetWrite(c) \/ SetSave(c)
  BY <1>1, <1>2, <1>5 DEF SetLock, SetWrite, SetSave, Goto, txn
<1>6. CASE UnlockAndReply(c) \/ FailSet(c)
  BY <1>2, <1>6 DEF UnlockAndReply, FailSet, Finish, Continue, Goto
<1>7. CASE Apply(c) \/ Publish(c) \/ Undo(c)
  BY <1>1, <1>2, <1>7 DEF Apply, Publish, Undo, Visit, Loop, Goto, txn
<1>8. CASE Release(c) \/ Free(c)
  BY <1>2, <1>8 DEF Release, Free, Visit, Finish, Continue, Goto
<1>9. QED
  BY <1>3, <1>4, <1>5, <1>6, <1>7, <1>8 DEF Request, Internal

LEMMA OwnSave ==
    ASSUME Known, StoredInv, NEW c \in Conns, Request(c) \/ Internal(c),
           ~ArithKills(c), robbed' = {}
    PROVE  SaveOK(c)'
<1>1. TypeOK /\ robbed = {}
  BY OthersKeepTheirs DEF Known
<1>2. /\ pc \in [Conns -> Labels] /\ temp \in [Tables -> Store]
  BY <1>1, Types
<1>3. SUFFICES ASSUME pc'[c] = "save" PROVE SaveOK(c)'
  BY DEF SaveOK
<1>4. SetWrite(c)
  <2>1. ~Session(c)
    BY <1>2, <1>3
    DEF Session, Accept, AcceptFails, Login, Bye, Eof, Reject, Disconnect, Goto
  <2>2. ~StackRequest(c)
    BY <1>2, <1>3
    DEF StackRequest, Push, Pop, ArithOk, ArithRefused, ArithNoValue, ArithThrows,
        StartRollback, Receive, Answer, Goto, control
  <2>3. ~TableRequest(c)
    BY <1>2, <1>3
    DEF TableRequest, OnTable, Create, SetRefused, SetNoOperand, GetNoTable, OnKey,
        SetBuffered, SetContended, SetAuto, GetContended, GetInTxn, GetMissing,
        GetAuto, ReceiveSet, ReceiveGet, Receive, StartRollback, Continue, Answer,
        Goto, control
  <2>4. ~Begin(c) /\ ~Commit(c)
    BY <1>2, <1>3 DEF Begin, Commit, Receive, Answer, Goto, control
  <2>5. ~SetLock(c) /\ ~SetSave(c) /\ ~UnlockAndReply(c) /\ ~FailSet(c)
    BY <1>2, <1>3
    DEF SetLock, SetSave, UnlockAndReply, FailSet, Finish, Continue, Goto
  <2>6. ~Apply(c) /\ ~Publish(c) /\ ~Release(c) /\ ~Undo(c) /\ ~Free(c)
    BY <1>2, <1>3
    DEF Apply, Publish, Release, Undo, Free, Visit, Loop, Finish, Continue, Goto
  <2>7. QED
    BY <2>1, <2>2, <2>3, <2>4, <2>5, <2>6 DEF Request, Internal
<1>5. req[c] \in Targets /\ req[c][1] \in Tables
  BY <1>4 DEF SetWrite, Known, RequestOK, Targets
<1>6. owner[req[c][1]] = c
  BY <1>1, <1>4, <1>5 DEF SetWrite, Known, HeldLocksAreOwned, Holds
<1>7. temp[req[c][1]] = Empty
  BY <1>1, <1>4, <1>5, <1>6, CleanBetween DEF SetWrite
<1>8. QED
  BY <1>2, <1>4, <1>5, <1>7 DEF SetWrite, TableSet, SaveOK, Empty

LEMMA OwnApply ==
    ASSUME Known, StoredInv, NEW c \in Conns, Request(c) \/ Internal(c),
           ~ArithKills(c), robbed' = {}
    PROVE  ApplyOK(c)'
<1>1. TypeOK /\ robbed = {}
  BY OthersKeepTheirs DEF Known
<1>2. /\ pc \in [Conns -> Labels] /\ temp \in [Tables -> Store]
      /\ writes \in [Conns -> SUBSET (Tables \X Keys)]
      /\ buffer \in [Conns -> [Tables -> Store]]
      /\ owner \in [Tables -> Conns \cup {None, Junk}]
  BY <1>1, Types
<1>3. SUFFICES ASSUME pc'[c] = "apply" PROVE ApplyOK(c)'
  BY DEF ApplyOK
<1>4. Commit(c) \/ Apply(c)
  <2>1. ~Session(c)
    BY <1>2, <1>3
    DEF Session, Accept, AcceptFails, Login, Bye, Eof, Reject, Disconnect, Goto
  <2>2. ~StackRequest(c)
    BY <1>2, <1>3
    DEF StackRequest, Push, Pop, ArithOk, ArithRefused, ArithNoValue, ArithThrows,
        StartRollback, Receive, Answer, Goto, control
  <2>3. ~TableRequest(c)
    BY <1>2, <1>3
    DEF TableRequest, OnTable, Create, SetRefused, SetNoOperand, GetNoTable, OnKey,
        SetBuffered, SetContended, SetAuto, GetContended, GetInTxn, GetMissing,
        GetAuto, ReceiveSet, ReceiveGet, Receive, StartRollback, Continue, Answer,
        Goto, control
  <2>4. ~Begin(c)
    BY <1>2, <1>3 DEF Begin, Receive, Answer, Goto, control
  <2>5. ~SetLock(c) /\ ~SetWrite(c) /\ ~SetSave(c) /\ ~UnlockAndReply(c)
        /\ ~FailSet(c)
    BY <1>2, <1>3
    DEF SetLock, SetWrite, SetSave, UnlockAndReply, FailSet, Finish, Continue, Goto
  <2>6. ~Publish(c) /\ ~Release(c) /\ ~Undo(c) /\ ~Free(c)
    BY <1>2, <1>3
    DEF Publish, Release, Undo, Free, Visit, Loop, Finish, Continue, Goto
  <2>7. QED
    BY <2>1, <2>2, <2>3, <2>4, <2>5, <2>6 DEF Request, Internal
<1>5. CASE Commit(c)
  <2>1. /\ pc[c] = "read" /\ writes'[c] = Buffered(c)
        /\ owner' = owner /\ temp' = temp /\ buffer' = buffer
    BY <1>2, <1>3, <1>5 DEF Commit, Receive, Answer, control, shared, txn
  <2>2. ASSUME NEW t \in Tables, NEW k \in Keys
        PROVE  /\ buffer[c][t][k] # None <=> <<t, k>> \in Buffered(c)
               /\ owner[t] = c => temp[t][k] = None
    <3>1. owner[t] = c => temp[t] = Empty
      BY <1>1, <2>1, CleanBetween
    <3>2. QED
      BY <3>1 DEF Buffered, Empty
  <2>3. QED
    BY <1>3, <2>1, <2>2 DEF ApplyOK
<1>6. CASE Apply(c)
  <2>1. ApplyOK(c)
    BY <1>1 DEF StoredInv, StoredOK
  <2>2. PICK w \in writes[c] :
           /\ TableSet(c, w[1], w[2], buffer[c][w[1]][w[2]])
           /\ writes' = [writes EXCEPT ![c] = @ \ {w}]
    BY <1>2, <1>3, <1>6 DEF Apply, Loop, Goto
  <2>3. /\ w[1] \in Tables /\ w[2] \in Keys /\ w = <<w[1], w[2]>>
        /\ buffer' = buffer /\ owner' = owner /\ pc[c] = "apply"
    BY <1>2, <1>6, <2>2 DEF Apply, TableSet, txn
  <2>4. owner[w[1]] = c
    BY <2>2, <2>3 DEF TableSet, Trespass
  <2>5. /\ \A t \in Tables : t # w[1] => temp'[t] = temp[t]
        /\ \A k \in Keys : temp'[w[1]][k] =
               IF k = w[2] THEN buffer[c][w[1]][w[2]] ELSE temp[w[1]][k]
    BY <1>2, <2>2, <2>3 DEF TableSet, Store
  <2>6. \A x : x \in writes'[c] <=> x \in writes[c] /\ x # w
    BY <1>2, <2>2
  <2>7. ASSUME NEW t \in Tables, NEW k \in Keys
        PROVE  /\ owner[t] = c =>
                     temp'[t][k] = IF <<t, k>> \in writes'[c]
                                     THEN None ELSE buffer[c][t][k]
               /\ buffer[c][t][k] # None /\ <<t, k>> \notin writes'[c]
                     => owner[t] = c
    <3>1. <<t, k>> = w <=> t = w[1] /\ k = w[2]
      BY <2>3
    <3>2. QED
      BY <2>1, <2>3, <2>4, <2>5, <2>6, <3>1 DEF ApplyOK
  <2>8. QED
    BY <2>3, <2>7 DEF ApplyOK
<1>7. QED
  BY <1>4, <1>5, <1>6

LEMMA OwnRead ==
    ASSUME Known, StoredInv, NEW c \in Conns, Request(c) \/ Internal(c),
           ~ArithKills(c), robbed' = {}
    PROVE  ReadOK(c)'
<1> USE DEF ReadOK
<1>1. TypeOK /\ robbed = {}
  BY OthersKeepTheirs DEF Known
<1>2. /\ pc \in [Conns -> Labels] /\ inTxn \in [Conns -> BOOLEAN]
      /\ seen \in [Conns -> SUBSET (Tables \X Keys \X Vals)]
      /\ owner \in [Tables -> Conns \cup {None, Junk}]
      /\ data \in [Tables -> Store] /\ None \notin Conns
  BY <1>1, Types, NamesAssumption
<1>3. ReadOK(c) /\ SeenOK(c) /\ LockOK(c)
  BY <1>1 DEF Known, StoredInv, StoredOK, SeenInv, LockInv
<1>4. seen[c] # {} => inTxn[c]
  BY <1>3 DEF SeenOK
<1>5. CASE Session(c)
  BY <1>2, <1>3, <1>5
  DEF Session, Accept, AcceptFails, Login, Bye, Eof, Reject, Disconnect, Goto,
      SeenOK, shared, txn
<1>6. CASE StackRequest(c)
  <2>1. CASE ArithThrows(c)
    BY <1>2, <1>3, <2>1
    DEF ArithThrows, StartRollback, Goto, control, shared, txn
  <2>2. CASE ~ArithThrows(c)
    BY <1>3, <1>6, <2>2
    DEF StackRequest, Push, ArithOk, Pop, ArithRefused, ArithNoValue, Answer,
        control, shared, txn
  <2>3. QED
    BY <2>1, <2>2
<1>7. CASE TableRequest(c)
  <2>1. PICK u \in Tables : OnTable(c, u) \/ \E k \in Keys : OnKey(c, u, k)
    BY <1>7 DEF TableRequest
  <2>2. CASE Create(c, u)
    BY <1>2, <1>3, <2>2 DEF Create, Receive, Answer, LockOK, control, txn
  <2>3. CASE SetRefused(c, u) \/ SetNoOperand(c, u) \/ GetNoTable(c, u)
    BY <1>3, <1>4, <2>3
    DEF SetRefused, SetNoOperand, GetNoTable, Unlock, Answer, control, shared, txn
  <2>4. ASSUME NEW k \in Keys, SetBuffered(c, u, k) PROVE ReadOK(c)'
    BY <1>2, <1>3, <2>4
    DEF SetBuffered, ReceiveSet, Receive, CanLock, LockInTxn, Answer, control
  <2>5. ASSUME NEW k \in Keys, GetInTxn(c, u, k) PROVE ReadOK(c)'
    <3>1. /\ seen'[c] \subseteq seen[c] \cup {<<u, k, View(u)[k]>>}
          /\ data' = data /\ pc[c] = "read" /\ CanLock(c, u)
          /\ \A t \in Tables :
                owner'[t] = IF t = u /\ u \notin locked[c] THEN c ELSE owner[t]
      BY <1>2, <2>5
      DEF GetInTxn, ReceiveGet, Receive, LockInTxn, Answer, control
    <3>2. u \in locked[c] => owner[u] = c
      BY <1>1, <3>1 DEF Known, HeldLocksAreOwned, Holds
    <3>3. temp[u] = Empty
      BY <1>1, <3>1, <3>2, CleanBetween DEF CanLock
    <3>4. View(u)[k] = data[u][k]
      BY <3>3 DEF View, Overlay, Empty
    <3>5. ASSUME NEW r \in seen'[c] PROVE owner'[r[1]] = c /\ data'[r[1]][r[2]] = r[3]
      <4>1. CASE r \in seen[c]
        BY <1>2, <1>3, <3>1, <4>1
      <4>2. CASE r = <<u, k, data[u][k]>>
        BY <3>1, <3>2, <4>2
      <4>3. QED
        BY <3>1, <3>4, <4>1, <4>2
    <3>6. QED
      BY <3>5
  <2>6. ASSUME NEW k \in Keys,
               \/ SetContended(c, u, k) \/ GetContended(c, u, k)
               \/ GetMissing(c, u, k) \/ SetAuto(c, u, k) \/ GetAuto(c, u, k)
        PROVE  ReadOK(c)'
    BY <1>2, <2>6
    DEF SetContended, GetContended, GetMissing, SetAuto, GetAuto, StartRollback,
        Continue, Goto
  <2>7. QED
    BY <2>1, <2>2, <2>3, <2>4, <2>5, <2>6 DEF OnTable, OnKey
<1>8. CASE Begin(c) \/ Commit(c)
  BY <1>2, <1>3, <1>8
  DEF Begin, Commit, Receive, Answer, Goto, control, shared, txn
<1>9. CASE SetLock(c) \/ SetWrite(c) \/ SetSave(c)
  BY <1>2, <1>9 DEF SetLock, SetWrite, SetSave, Goto
<1>10. CASE UnlockAndReply(c) \/ FailSet(c)
  BY <1>2, <1>3, <1>10
  DEF UnlockAndReply, FailSet, SeenOK, Finish, Continue, Goto, txn
<1>11. CASE Apply(c)
  BY <1>2, <1>3, <1>11 DEF Apply, TableSet, Loop, Goto, shared, txn
<1>12. CASE Publish(c) \/ Undo(c)
  BY <1>2, <1>12 DEF Publish, Undo, Visit, Loop, Goto
<1>13. CASE Release(c) \/ Free(c)
  BY <1>2, <1>13
  DEF Release, Free, Visit, EndTxn, Finish, Continue, Goto
<1>14. QED
  BY <1>5, <1>6, <1>7, <1>8, <1>9, <1>10, <1>11, <1>12, <1>13
  DEF Request, Internal

LEMMA StoredStep ==
    ASSUME Known, StoredInv, [Next]_vars
    PROVE  StoredInv'
<1>1. CASE UNCHANGED vars
  BY <1>1
  DEF vars, shared, control, txn, StoredInv, StoredOK, TodoOK, SaveOK, ApplyOK,
      ReadOK
<1>2. CASE Next
  <2>1. PICK c \in Conns : Request(c) \/ Internal(c)
    BY <1>2 DEF Next
  <2>2. CASE ArithKills(c)
    BY <2>2
    DEF ArithKills, StoredInv, StoredOK, TodoOK, SaveOK, ApplyOK, ReadOK, Each
  <2>3. CASE ~ArithKills(c)
    <3>1. StoredOK(c)'
      BY <2>1, <2>3, OwnTodo, OwnSave, OwnApply, OwnRead DEF StoredOK
    <3>2. QED
      BY <2>1, <2>3, <3>1, OthersStored DEF StoredInv
  <2>4. QED
    BY <2>2, <2>3
<1>3. QED
  BY <1>1, <1>2

(* What threads know of the tables they are about to publish holds always:   *)
(* m_temp_data has what commit() or SET has put there and nothing else, and  *)
(* reads are of tables that the transaction owns.                            *)
THEOREM StoredAlways == Spec => []StoredInv
<1>1. Init => StoredInv
  BY DEF Init, StoredInv, StoredOK, TodoOK, SaveOK, ApplyOK, ReadOK, Each
<1>2. Known /\ StoredInv /\ [Next]_vars => StoredInv'
  BY StoredStep
<1>3. QED
  BY <1>1, <1>2, KnownAlways, PTL DEF Spec

-----------------------------------------------------------------------------
(* What a step of c does to the mapped variables *)

(* ... it leaves what they say of other connections alone,                   *)
LEMMA OthersMapped ==
    ASSUME TypeOK, NEW c \in Conns, Request(c) \/ Internal(c), ~ArithKills(c),
           NEW d \in Conns, d # c
    PROVE  /\ Opened(d)' <=> Opened(d)
           /\ ReadSoFar'[d] = ReadSoFar[d] /\ WrittenSoFar'[d] = WrittenSoFar[d]
           /\ AskedFor'[d] = AskedFor[d]
  BY OthersUntouched, OthersSessions
  DEF SameFor, Opened, Asked, ReadSoFar, WrittenSoFar, AskedFor

(* ... so that they change at c only.                                        *)
LEMMA MappedAtOne ==
    ASSUME TypeOK, NEW c \in Conns, Request(c) \/ Internal(c), ~ArithKills(c)
    PROVE  /\ ReadSoFar' = [ReadSoFar EXCEPT ![c] = ReadSoFar'[c]]
           /\ WrittenSoFar' = [WrittenSoFar EXCEPT ![c] = WrittenSoFar'[c]]
           /\ AskedFor' = [AskedFor EXCEPT ![c] = AskedFor'[c]]
           /\ Opened(c)' => InTransaction' = InTransaction \cup {c}
           /\ ~Opened(c)' => InTransaction' = InTransaction \ {c}
<1>1. \A d \in Conns \ {c} :
         /\ Opened(d)' <=> Opened(d)
         /\ ReadSoFar'[d] = ReadSoFar[d] /\ WrittenSoFar'[d] = WrittenSoFar[d]
         /\ AskedFor'[d] = AskedFor[d]
  BY OthersMapped
<1>2. /\ ReadSoFar' = [d \in Conns |-> ReadSoFar'[d]]
      /\ ReadSoFar = [d \in Conns |-> ReadSoFar[d]]
  BY DEF ReadSoFar
<1>3. /\ WrittenSoFar' = [d \in Conns |-> WrittenSoFar'[d]]
      /\ WrittenSoFar = [d \in Conns |-> WrittenSoFar[d]]
  BY DEF WrittenSoFar
<1>4. /\ AskedFor' = [d \in Conns |-> AskedFor'[d]]
      /\ AskedFor = [d \in Conns |-> AskedFor[d]]
  BY DEF AskedFor
<1>5. ReadSoFar' = [ReadSoFar EXCEPT ![c] = ReadSoFar'[c]]
  BY <1>1, <1>2
<1>6. WrittenSoFar' = [WrittenSoFar EXCEPT ![c] = WrittenSoFar'[c]]
  BY <1>1, <1>3
<1>7. AskedFor' = [AskedFor EXCEPT ![c] = AskedFor'[c]]
  BY <1>1, <1>4
<1>8. /\ Opened(c)' => InTransaction' = InTransaction \cup {c}
      /\ ~Opened(c)' => InTransaction' = InTransaction \ {c}
  BY <1>1 DEF InTransaction
<1>9. QED
  BY <1>5, <1>6, <1>7, <1>8

(* The session of c, as far as it is mapped, stays as it is.                 *)
OwnKept(c) ==
    /\ Opened(c)' <=> Opened(c)
    /\ Opened(c) => seen'[c] = seen[c] /\ buffer'[c] = buffer[c]
    /\ Asked(c)' = Asked(c)

LEMMA Unmoved ==
    ASSUME TypeOK, NEW c \in Conns, Request(c) \/ Internal(c), ~ArithKills(c)
    PROVE  /\ ReadSoFar'[c] = ReadSoFar[c] => ReadSoFar' = ReadSoFar
           /\ WrittenSoFar'[c] = WrittenSoFar[c] => WrittenSoFar' = WrittenSoFar
           /\ Asked(c)' = Asked(c) => AskedFor' = AskedFor
           /\ (Opened(c)' <=> Opened(c)) => InTransaction' = InTransaction
<1>1. \A d \in Conns \ {c} :
         /\ Opened(d)' <=> Opened(d)
         /\ ReadSoFar'[d] = ReadSoFar[d] /\ WrittenSoFar'[d] = WrittenSoFar[d]
         /\ AskedFor'[d] = AskedFor[d]
  BY OthersMapped
<1>2. ReadSoFar'[c] = ReadSoFar[c] => ReadSoFar' = ReadSoFar
  BY <1>1 DEF ReadSoFar
<1>3. WrittenSoFar'[c] = WrittenSoFar[c] => WrittenSoFar' = WrittenSoFar
  BY <1>1 DEF WrittenSoFar
<1>4. Asked(c)' = Asked(c) => AskedFor' = AskedFor
  BY <1>1 DEF AskedFor
<1>5. (Opened(c)' <=> Opened(c)) => InTransaction' = InTransaction
  BY <1>1 DEF InTransaction
<1>6. QED
  BY <1>2, <1>3, <1>4, <1>5

LEMMA Stutters ==
    ASSUME TypeOK, NEW c \in Conns, Request(c) \/ Internal(c), ~ArithKills(c),
           OwnKept(c), StoreSeen' = StoreSeen
    PROVE  UNCHANGED Atomic!vars
<1>1. ReadSoFar'[c] = ReadSoFar[c] /\ WrittenSoFar'[c] = WrittenSoFar[c]
  BY DEF OwnKept, ReadSoFar, WrittenSoFar
<1>2. QED
  BY <1>1, Unmoved DEF OwnKept, Atomic!vars

(* Nobody publishes a table that another thread owns.                        *)
LEMMA NobodyElsePublishes ==
    ASSUME Known, StoredInv, robbed = {}, NEW c \in Conns, NEW t \in Tables,
           owner[t] \in {c, None}, NEW d \in Conns, d # c
    PROVE  ~Publishes(d, t)
<1>1. Publishes(d, t) => Holds(d, t)
  BY DEF Publishes, Holds, StoredInv, StoredOK, TodoOK
<1>2. None \notin Conns
  BY NamesAssumption
<1>3. QED
  BY <1>1, <1>2 DEF Known, HeldLocksAreOwned

(* A step that has nothing to do with commit_changes() is not seen in a      *)
(* table.                                                                    *)
LEMMA StoreKept ==
    ASSUME Known, StoredInv, NEW c \in Conns, Request(c) \/ Internal(c),
           ~ArithKills(c), robbed' = {}, data' = data,
           pc[c] # "publish", pc'[c] # "publish"
    PROVE  StoreSeen' = StoreSeen
<1> SUFFICES ASSUME NEW t \in Tables PROVE Published(t)' = Published(t)
  BY DEF StoreSeen
<1>1. TypeOK /\ robbed = {}
  BY OthersKeepTheirs DEF Known
<1>2. ~Publishes(c, t) /\ ~Publishes(c, t)'
  BY DEF Publishes
<1>3. \A d \in Conns \ {c} : Publishes(d, t)' <=> Publishes(d, t)
  BY <1>1, OthersUntouched DEF Publishes, SameFor
<1>4. CASE owner[t] = c
  <2>1. \A d \in Conns : ~Publishes(d, t)
    BY <1>1, <1>2, <1>4, NobodyElsePublishes
  <2>2. QED
    BY <1>2, <1>3, <2>1 DEF Published
<1>5. CASE owner[t] # c
  <2>1. data'[t] = data[t] /\ temp'[t] = temp[t]
    BY <1>5, ChangedByOwner DEF Known
  <2>2. View(t)' = View(t)
    BY <2>1 DEF View, Overlay
  <2>3. QED
    BY <1>2, <1>3, <2>1, <2>2 DEF Published
<1>6. QED
  BY <1>4, <1>5

-----------------------------------------------------------------------------
(* The step simulation *)

(* A transaction that ends without having been committed.                    *)
LEMMA Aborts ==
    ASSUME TypeOK, NEW c \in Conns, Request(c) \/ Internal(c), ~ArithKills(c),
           Opened(c), ~Opened(c)', Asked(c)' = Asked(c), StoreSeen' = StoreSeen
    PROVE  Atomic!Abort(c)
<1>1. ReadSoFar'[c] = {} /\ WrittenSoFar'[c] = AllTables(Empty)
  BY DEF ReadSoFar, WrittenSoFar
<1>2. Atomic!Nothing = AllTables(Empty)
  BY DEF Atomic!Nothing, AllTables, Empty
<1>3. c \in InTransaction
  BY DEF InTransaction
<1>4. QED
  BY <1>1, <1>2, <1>3, MappedAtOne, Unmoved DEF Atomic!Abort, Atomic!Close

LEMMA SessionSimulated ==
    ASSUME Known, StoredInv, NEW c \in Conns, Session(c), ~ArithKills(c),
           robbed' = {}
    PROVE  [Atomic!Next]_(Atomic!vars)
<1>1. Request(c) /\ TypeOK /\ LockOK(c)
  BY DEF Request, Known, LockInv
<1>2. pc \in [Conns -> Labels]
  BY <1>1, Types
<1>3. CASE Accept(c) \/ AcceptFails(c) \/ Login(c)
  <2>1. /\ data' = data /\ pc[c] # "publish" /\ pc'[c] # "publish"
        /\ OwnKept(c)
    BY <1>1, <1>2, <1>3
    DEF Accept, AcceptFails, Login, Goto, OwnKept, Opened, Asked, LockOK, shared,
        txn
  <2>2. QED
    BY <1>1, <2>1, StoreKept, Stutters
<1>4. CASE Bye(c) \/ Eof(c) \/ Reject(c)
  <2>1. /\ data' = data /\ pc[c] # "publish" /\ pc'[c] # "publish"
        /\ ~Opened(c)' /\ Asked(c)' = Asked(c)
    BY <1>2, <1>4
    DEF Bye, Eof, Reject, Receive, Disconnect, Goto, Opened, Asked, shared
  <2>2. StoreSeen' = StoreSeen
    BY <1>1, <2>1, StoreKept
  <2>3. CASE Opened(c)
    BY <1>1, <2>1, <2>2, <2>3, Aborts DEF Atomic!Next
  <2>4. CASE ~Opened(c)
    BY <1>1, <2>1, <2>2, <2>4, Stutters DEF OwnKept
  <2>5. QED
    BY <2>3, <2>4
<1>5. QED
  BY <1>3, <1>4 DEF Session

LEMMA StackSimulated ==
    ASSUME Known, StoredInv, NEW c \in Conns, StackRequest(c), ~ArithKills(c),
           robbed' = {}
    PROVE  UNCHANGED Atomic!vars
<1>1. Request(c) /\ TypeOK
  BY DEF Request, Known
<1>2. pc \in [Conns -> Labels] /\ inTxn \in [Conns -> BOOLEAN]
  BY <1>1, Types
<1>3. /\ data' = data /\ pc[c] # "publish" /\ pc'[c] # "publish"
      /\ OwnKept(c)
  <2>1. CASE ArithThrows(c)
    BY <1>2, <2>1
    DEF ArithThrows, Receive, StartRollback, Goto, OwnKept, Opened, Asked, control,
        shared, txn
  <2>2. CASE ~ArithThrows(c)
    BY <1>2, <2>2
    DEF StackRequest, Push, Pop, ArithOk, ArithRefused, ArithNoValue, Receive,
        Answer, OwnKept, Opened, Asked, control, shared, txn
  <2>3. QED
    BY <2>1, <2>2
<1>4. QED
  BY <1>1, <1>3, StoreKept, Stutters

(* A SET inside a transaction.                                               *)
LEMMA BufferedSimulated ==
    ASSUME Known, StoredInv, NEW c \in Conns, Request(c), ~ArithKills(c),
           robbed' = {}, NEW t \in Tables, NEW k \in Keys, SetBuffered(c, t, k)
    PROVE  Atomic!Write(c, t, k, TopOf(c)) /\ TopOf(c) \in Vals
<1>1. TypeOK /\ TopOf(c) \in Vals
  BY TopOfType DEF SetBuffered, Known, TypeOK
<1>2. /\ pc \in [Conns -> Labels] /\ inTxn \in [Conns -> BOOLEAN]
      /\ buffer \in [Conns -> [Tables -> Store]]
  BY <1>1, Types
<1>3. /\ data' = data /\ pc[c] = "read" /\ pc'[c] = "read"
      /\ inTxn[c] /\ inTxn' = inTxn /\ seen' = seen
      /\ buffer' = [buffer EXCEPT ![c][t][k] = TopOf(c)]
  BY <1>2
  DEF SetBuffered, ReceiveSet, Receive, LockInTxn, Answer, control
<1>4. Opened(c) /\ Opened(c)' /\ Asked(c)' = Asked(c)
  BY <1>3 DEF Opened, Asked
<1>5. /\ ReadSoFar'[c] = ReadSoFar[c]
      /\ WrittenSoFar'[c] = [WrittenSoFar[c] EXCEPT ![t][k] = TopOf(c)]
  BY <1>2, <1>3, <1>4 DEF ReadSoFar, WrittenSoFar
<1>6. StoreSeen' = StoreSeen
  BY <1>3, StoreKept
<1>7. WrittenSoFar' = [WrittenSoFar EXCEPT ![c][t][k] = TopOf(c)]
  BY <1>1, <1>5, MappedAtOne
<1>8. c \in InTransaction
  BY <1>4 DEF InTransaction
<1>9. QED
  BY <1>1, <1>4, <1>5, <1>6, <1>7, <1>8, Unmoved DEF Atomic!Write

(* A GET inside a transaction.                                               *)
LEMMA ReadSimulated ==
    ASSUME Known, StoredInv, NEW c \in Conns, Request(c), ~ArithKills(c),
           robbed' = {}, NEW t \in Tables, NEW k \in Keys, GetInTxn(c, t, k)
    PROVE  Atomic!Read(c, t, k) \/ UNCHANGED Atomic!vars
<1>1. TypeOK /\ robbed = {}
  BY OthersKeepTheirs DEF Known
<1>2. /\ pc \in [Conns -> Labels] /\ inTxn \in [Conns -> BOOLEAN]
      /\ seen \in [Conns -> SUBSET (Tables \X Keys \X Vals)]
  BY <1>1, Types
<1>3. /\ data' = data /\ pc[c] = "read" /\ pc'[c] = "read"
      /\ inTxn[c] /\ inTxn' = inTxn /\ buffer' = buffer /\ CanLock(c, t)
      /\ ReadInTxn(c, t, k) # None
      /\ seen'[c] = IF buffer[c][t][k] = None
                      THEN seen[c] \cup {<<t, k, View(t)[k]>>} ELSE seen[c]
  BY <1>2
  DEF GetInTxn, ReceiveGet, Receive, LockInTxn, Answer, control
<1>4. Opened(c) /\ Opened(c)' /\ Asked(c)' = Asked(c)
  BY <1>3 DEF Opened, Asked
<1>5. StoreSeen' = StoreSeen
  BY <1>3, StoreKept
<1>6. CASE buffer[c][t][k] # None
  BY <1>1, <1>3, <1>4, <1>5, <1>6, Stutters DEF OwnKept
<1>7. CASE buffer[c][t][k] = None
  <2>1. owner[t] \in {c, None}
    BY <1>1, <1>3 DEF CanLock, Known, HeldLocksAreOwned, Holds
  <2>2. temp[t] = Empty
    BY <1>1, <1>3, <2>1, CleanBetween
  <2>3. \A d \in Conns : ~Publishes(d, t)
    BY <1>1, <1>3, <2>1, NobodyElsePublishes DEF Publishes
  <2>4. StoreSeen[t] = data[t]
    BY <2>3 DEF StoreSeen, Published
  <2>5. View(t)[k] = StoreSeen[t][k]
    BY <2>2, <2>4 DEF View, Overlay, Empty
  <2>6. View(t)[k] # None
    BY <1>3, <1>7 DEF ReadInTxn, Overlay
  <2>7. /\ ReadSoFar'[c] = ReadSoFar[c] \cup {<<t, k, StoreSeen[t][k]>>}
        /\ WrittenSoFar'[c] = WrittenSoFar[c] /\ WrittenSoFar[c] = buffer[c]
    BY <1>3, <1>4, <1>7, <2>5 DEF ReadSoFar, WrittenSoFar
  <2>8. c \in InTransaction
    BY <1>4 DEF InTransaction
  <2>9. ReadSoFar' = [ReadSoFar EXCEPT ![c] = @ \cup {<<t, k, StoreSeen[t][k]>>}]
    BY <1>1, <2>7, MappedAtOne
  <2>10. QED
    BY <1>1, <1>4, <1>5, <1>7, <2>5, <2>6, <2>7, <2>8, <2>9, Unmoved
    DEF Atomic!Read
<1>8. QED
  BY <1>6, <1>7

(* A SET outside a transaction is asked for.                                 *)
LEMMA AskSimulated ==
    ASSUME Known, StoredInv, NEW c \in Conns, Request(c), ~ArithKills(c),
           robbed' = {}, NEW t \in Tables, NEW k \in Keys, SetAuto(c, t, k)
    PROVE  Atomic!Ask(c, t, k, TopOf(c)) /\ TopOf(c) \in Vals
<1>1. TypeOK /\ TopOf(c) \in Vals
  BY TopOfType DEF SetAuto, Known, TypeOK
<1>2. /\ pc \in [Conns -> Labels] /\ inTxn \in [Conns -> BOOLEAN]
      /\ req \in [Conns -> Targets \cup {None}]
  BY <1>1, Types
<1>3. /\ data' = data /\ pc[c] = "read" /\ pc'[c] = "lock"
      /\ ~inTxn[c] /\ inTxn' = inTxn /\ req'[c] = <<t, k, TopOf(c)>>
  BY <1>2
  DEF SetAuto, ReceiveSet, Receive, Continue, Goto, shared, txn
<1>4. /\ ~Opened(c) /\ ~Opened(c)'
      /\ Asked(c) = None /\ Asked(c)' = <<t, k, TopOf(c)>>
  BY <1>3 DEF Opened, Asked
<1>5. /\ ReadSoFar'[c] = ReadSoFar[c] /\ WrittenSoFar'[c] = WrittenSoFar[c]
      /\ AskedFor[c] = None /\ AskedFor'[c] = <<t, k, TopOf(c)>>
  BY <1>4 DEF ReadSoFar, WrittenSoFar, AskedFor
<1>6. StoreSeen' = StoreSeen
  BY <1>3, StoreKept
<1>7. c \notin InTransaction
  BY <1>4 DEF InTransaction
<1>8. QED
  BY <1>1, <1>4, <1>5, <1>6, <1>7, MappedAtOne, Unmoved DEF Atomic!Ask

LEMMA TableSimulated ==
    ASSUME Known, StoredInv, NEW c \in Conns, TableRequest(c), ~ArithKills(c),
           robbed' = {}
    PROVE  [Atomic!Next]_(Atomic!vars)
<1>1. Request(c) /\ TypeOK
  BY DEF Request, Known
<1>2. pc \in [Conns -> Labels] /\ inTxn \in [Conns -> BOOLEAN]
  BY <1>1, Types
<1>3. PICK t \in Tables : OnTable(c, t) \/ \E k \in Keys : OnKey(c, t, k)
  BY DEF TableRequest
<1>4. CASE data' = data /\ pc[c] = "read" /\ pc'[c] # "publish" /\ OwnKept(c)
  BY <1>1, <1>4, StoreKept, Stutters
<1>5. CASE OnTable(c, t)
  <2>1. CASE Create(c, t)
    BY <1>4, <2>1
    DEF Create, Receive, Answer, OwnKept, Opened, Asked, control, txn
  <2>2. CASE SetRefused(c, t) \/ SetNoOperand(c, t) \/ GetNoTable(c, t)
    BY <1>4, <2>2
    DEF SetRefused, SetNoOperand, GetNoTable, ReceiveSet, Receive, Unlock, Answer,
        OwnKept, Opened, Asked, control, shared, txn
  <2>3. QED
    BY <1>5, <2>1, <2>2 DEF OnTable
<1>6. ASSUME NEW k \in Keys,
             \/ SetContended(c, t, k) \/ GetContended(c, t, k)
             \/ GetMissing(c, t, k) \/ GetAuto(c, t, k)
      PROVE  [Atomic!Next]_(Atomic!vars)
  <2>1. CASE SetContended(c, t, k) \/ GetContended(c, t, k) \/ GetMissing(c, t, k)
    BY <1>2, <1>4, <2>1
    DEF SetContended, GetContended, GetMissing, ReceiveSet, ReceiveGet, Receive,
        LockInTxn, StartRollback, Goto, OwnKept, Opened, Asked, shared
  <2>2. CASE GetAuto(c, t, k)
    BY <1>2, <1>4, <2>2
    DEF GetAuto, ReceiveGet, Receive, Continue, Goto, OwnKept, Opened, Asked,
        shared, txn
  <2>3. QED
    BY <1>6, <2>1, <2>2
<1>7. ASSUME NEW k \in Keys, SetBuffered(c, t, k) \/ GetInTxn(c, t, k)
                                 \/ SetAuto(c, t, k)
      PROVE  [Atomic!Next]_(Atomic!vars)
  BY <1>1, <1>7, BufferedSimulated, ReadSimulated, AskSimulated DEF Atomic!Next
<1>8. QED
  BY <1>3, <1>5, <1>6, <1>7 DEF OnKey

LEMMA TxnSimulated ==
    ASSUME Known, StoredInv, NEW c \in Conns, Begin(c) \/ Commit(c),
           ~ArithKills(c), robbed' = {}, ~BeginsWithOldWrites
    PROVE  [Atomic!Next]_(Atomic!vars)
<1>1. Request(c) /\ TypeOK
  BY DEF Request, Known
<1>2. /\ pc \in [Conns -> Labels] /\ inTxn \in [Conns -> BOOLEAN]
      /\ seen \in [Conns -> SUBSET (Tables \X Keys \X Vals)]
  BY <1>1, Types
<1>3. data' = data /\ pc[c] = "read" /\ pc'[c] # "publish"
  BY <1>2 DEF Begin, Commit, Receive, Answer, Goto, control, shared
<1>4. StoreSeen' = StoreSeen
  BY <1>1, <1>3, StoreKept
<1>5. CASE OwnKept(c)
  BY <1>1, <1>4, <1>5, Stutters
<1>6. CASE Begin(c) /\ ~inTxn[c]
  <2>1. /\ inTxn'[c] /\ seen'[c] = {} /\ buffer' = buffer /\ pc' = pc /\ req' = req
    BY <1>2, <1>6 DEF Begin, Answer, control
  <2>2. buffer[c] = AllTables(Empty)
    BY <1>6, <2>1 DEF BeginsWithOldWrites
  <2>3. ~Opened(c) /\ Opened(c)' /\ Asked(c)' = Asked(c)
    BY <1>3, <1>6, <2>1 DEF Opened, Asked
  <2>4. ReadSoFar'[c] = ReadSoFar[c] /\ WrittenSoFar'[c] = WrittenSoFar[c]
    BY <2>1, <2>2, <2>3 DEF ReadSoFar, WrittenSoFar
  <2>5. InTransaction' = InTransaction \cup {c} /\ c \notin InTransaction
    BY <1>1, <2>3, MappedAtOne DEF InTransaction
  <2>6. Atomic!Begin(c)
    BY <1>1, <1>4, <2>3, <2>4, <2>5, Unmoved DEF Atomic!Begin
  <2>7. QED
    BY <2>6 DEF Atomic!Next
<1>7. CASE Begin(c) /\ inTxn[c]
  BY <1>5, <1>7 DEF Begin, Answer, OwnKept, Opened, Asked, control, txn
<1>8. CASE Commit(c)
  BY <1>2, <1>5, <1>8
  DEF Commit, Receive, Answer, Goto, OwnKept, Opened, Asked, control, txn
<1>9. QED
  BY <1>6, <1>7, <1>8

(* commit_changes() of a SET: this is when it happens.                       *)
LEMMA PutSimulated ==
    ASSUME Known, StoredInv, NEW c \in Conns, SetSave(c), ~ArithKills(c),
           robbed' = {}
    PROVE  Atomic!Put(c)
<1> DEFINE t == req[c][1]
           k == req[c][2]
           v == req[c][3]
<1>1. Internal(c) /\ TypeOK /\ robbed = {}
  BY OthersKeepTheirs DEF Internal, Known
<1>2. /\ pc \in [Conns -> Labels] /\ data \in [Tables -> Store]
      /\ temp \in [Tables -> Store] /\ None \notin Targets /\ None \notin Vals
  BY <1>1, Types, NamesAssumption
<1>3. req[c] \in Targets /\ t \in Tables /\ k \in Keys /\ v \in Vals
  BY DEF SetSave, Known, RequestOK, Targets, StoredInv, StoredOK, TodoOK
<1>4. /\ pc[c] = "save" /\ pc'[c] = "unlock" /\ owner' = owner
      /\ data' = [data EXCEPT ![t] = View(t)] /\ temp' = [temp EXCEPT ![t] = Empty]
      /\ inTxn' = inTxn /\ seen' = seen /\ buffer' = buffer /\ req' = req
  BY <1>2 DEF SetSave, CommitChanges, Goto, txn
<1>5. owner[t] = c
  BY <1>1, <1>3, <1>4 DEF Known, HeldLocksAreOwned, Holds
<1>6. \A d \in Conns, u \in Tables : Publishes(d, u)' <=> Publishes(d, u)
  <2>1. \A d \in Conns \ {c}, u \in Tables : Publishes(d, u)' <=> Publishes(d, u)
    BY <1>1, OthersUntouched DEF Publishes, SameFor
  <2>2. QED
    BY <1>4, <2>1 DEF Publishes
<1>7. \A d \in Conns : ~Publishes(d, t)
  BY <1>1, <1>3, <1>4, <1>5, NobodyElsePublishes DEF Publishes
<1>8. View(t) = [data[t] EXCEPT ![k] = v]
  <2>1. SaveOK(c)
    BY <1>1 DEF StoredInv, StoredOK
  <2>2. \A x \in Keys : temp[t][x] = IF x = k THEN v ELSE None
    BY <1>4, <2>1 DEF SaveOK
  <2>3. data[t] \in Store
    BY <1>2, <1>3
  <2>4. QED
    BY <1>2, <1>3, <2>2, <2>3 DEF View, Overlay, Store
<1>9. ASSUME NEW u \in Tables
      PROVE  Published(u)' = IF u = t THEN [Published(t) EXCEPT ![k] = v]
                                      ELSE Published(u)
  <2>1. CASE u = t
    BY <1>2, <1>3, <1>4, <1>6, <1>7, <1>8, <2>1 DEF Published
  <2>2. CASE u # t
    <3>1. data'[u] = data[u] /\ temp'[u] = temp[u]
      BY <1>2, <1>3, <1>4, <2>2
    <3>2. View(u)' = View(u)
      BY <3>1 DEF View, Overlay
    <3>3. QED
      BY <1>6, <2>2, <3>1, <3>2 DEF Published
  <2>3. QED
    BY <2>1, <2>2
<1>10. StoreSeen' = [StoreSeen EXCEPT ![t][k] = v]
  BY <1>3, <1>9 DEF StoreSeen
<1>11. /\ Opened(c)' <=> Opened(c)
       /\ ReadSoFar'[c] = ReadSoFar[c] /\ WrittenSoFar'[c] = WrittenSoFar[c]
  BY <1>4 DEF Opened, ReadSoFar, WrittenSoFar
<1>12. AskedFor[c] = req[c] /\ AskedFor'[c] = None /\ req[c] # None
  BY <1>2, <1>3, <1>4 DEF AskedFor, Asked
<1>13. QED
  BY <1>1, <1>10, <1>11, <1>12, MappedAtOne, Unmoved DEF Atomic!Put

LEMMA PublishedType ==
    ASSUME TypeOK, NEW t \in Tables PROVE Published(t) \in Store
  BY Types, StoreTypes DEF Published, View

(* The last of the buffered writes is in m_temp_data: this is when a         *)
(* transaction happens.                                                      *)
LEMMA CommitSimulated ==
    ASSUME Known, StoredInv, NEW c \in Conns, Internal(c), ~ArithKills(c),
           robbed' = {}, pc[c] = "apply", writes[c] = {}, Loop(c, "publish"),
           UNCHANGED <<shared, txn, operand, replies>>
    PROVE  Atomic!Commit(c)
<1>1. TypeOK /\ robbed = {}
  BY DEF Known, shared
<1>2. /\ pc \in [Conns -> Labels] /\ todo \in [Conns -> SUBSET Tables]
      /\ data \in [Tables -> Store] /\ temp \in [Tables -> Store]
      /\ seen \in [Conns -> SUBSET (Tables \X Keys \X Vals)]
  BY <1>1, Types
<1>3. /\ pc'[c] = "publish" /\ todo'[c] = locked[c]
      /\ data' = data /\ temp' = temp /\ inTxn' = inTxn /\ inTxn[c]
  BY <1>2 DEF Loop, Goto, shared, txn, StoredInv, StoredOK, TodoOK
<1>4. ApplyOK(c) /\ ReadOK(c)
  BY <1>1 DEF StoredInv, StoredOK
<1>5. \A t \in Tables : t \in locked[c] <=> owner[t] = c
  <2>1. \A t \in Tables : t \in locked[c] => owner[t] = c
    BY <1>1 DEF Known, HeldLocksAreOwned, Holds
  <2>2. \A t \in Tables : owner[t] = c => t \in locked[c]
    BY DEF Known, LockInv, LockOK, Holds
  <2>3. QED
    BY <2>1, <2>2
<1>6. \A d \in Conns \ {c}, t \in Tables : Publishes(d, t)' <=> Publishes(d, t)
  BY <1>1, OthersUntouched DEF Publishes, SameFor
<1>7. \A t \in Tables : ~Publishes(c, t) /\ (Publishes(c, t)' <=> owner[t] = c)
  BY <1>3, <1>5 DEF Publishes
<1>8. ASSUME NEW t \in Tables, owner[t] = c PROVE Published(t) = data[t]
  BY <1>1, <1>7, <1>8, NobodyElsePublishes DEF Published
<1>9. /\ Opened(c) /\ ~Opened(c)' /\ Asked(c)' = Asked(c)
      /\ ReadSoFar[c] = seen[c] /\ WrittenSoFar[c] = buffer[c]
      /\ ReadSoFar'[c] = {} /\ WrittenSoFar'[c] = AllTables(Empty)
  BY <1>3 DEF Opened, Asked, ReadSoFar, WrittenSoFar
<1>10. \A r \in ReadSoFar[c] : StoreSeen[r[1]][r[2]] = r[3]
  <2>1. SUFFICES ASSUME NEW r \in seen[c] PROVE StoreSeen[r[1]][r[2]] = r[3]
    BY <1>9
  <2>2. r[1] \in Tables /\ owner[r[1]] = c /\ data[r[1]][r[2]] = r[3]
    BY <1>2, <1>4 DEF ReadOK
  <2>3. QED
    BY <1>8, <2>2 DEF StoreSeen
<1>11. ASSUME NEW t \in Tables
       PROVE  Published(t)' =
                 [k \in Keys |-> IF buffer[c][t][k] # None
                                   THEN buffer[c][t][k] ELSE Published(t)[k]]
  <2>1. View(t)' = View(t)
    BY <1>3 DEF View, Overlay
  <2>2. CASE owner[t] = c
    <3>1. Published(t)' = View(t)
      BY <1>7, <2>1, <2>2 DEF Published
    <3>2. \A k \in Keys : temp[t][k] = buffer[c][t][k]
      BY <1>4, <2>2 DEF ApplyOK
    <3>3. QED
      BY <1>8, <2>2, <3>1, <3>2 DEF View, Overlay
  <2>3. CASE owner[t] # c
    <3>1. Published(t)' = Published(t)
      BY <1>3, <1>6, <1>7, <2>1, <2>3 DEF Published
    <3>2. \A k \in Keys : buffer[c][t][k] = None
      BY <1>4, <2>3 DEF ApplyOK
    <3>3. Published(t) = [k \in Keys |-> Published(t)[k]]
      BY <1>1, PublishedType DEF Store
    <3>4. QED
      BY <3>1, <3>2, <3>3
  <2>4. QED
    BY <2>2, <2>3
<1>12. StoreSeen' = Atomic!With(buffer[c])
  BY <1>11 DEF StoreSeen, Atomic!With
<1>13. Atomic!Nothing = AllTables(Empty)
  BY DEF Atomic!Nothing, AllTables, Empty
<1>14. c \in InTransaction
  BY <1>9 DEF InTransaction
<1>15. QED
  BY <1>1, <1>9, <1>10, <1>12, <1>13, <1>14, MappedAtOne, Unmoved
  DEF Atomic!Commit, Atomic!Close

(* commit_changes() of a COMMIT: the table was taken for published before.   *)
LEMMA PublishSimulated ==
    ASSUME Known, StoredInv, NEW c \in Conns, Publish(c), ~ArithKills(c),
           robbed' = {}
    PROVE  UNCHANGED Atomic!vars
<1>1. Internal(c) /\ TypeOK
  BY DEF Internal, Known
<1>2. /\ pc \in [Conns -> Labels] /\ todo \in [Conns -> SUBSET Tables]
      /\ data \in [Tables -> Store] /\ temp \in [Tables -> Store]
  BY <1>1, Types
<1>3. \A d \in Conns \ {c}, u \in Tables : Publishes(d, u)' <=> Publishes(d, u)
  BY <1>1, OthersUntouched DEF Publishes, SameFor
<1>4. OwnKept(c)
  BY <1>2 DEF Publish, Visit, Loop, Goto, OwnKept, Opened, Asked, txn
<1>5. ASSUME NEW t \in Tables, Visit(c, t), CommitChanges(c, t), NEW u \in Tables
      PROVE  Published(u)' = Published(u)
  <2>1. CASE u = t
    <3>1. data'[t] = View(t) /\ temp'[t] = Empty
      BY <1>2, <1>5 DEF CommitChanges
    <3>2. View(t) \in Store
      BY <1>2, StoreTypes DEF View
    <3>3. View(t)' = View(t)
      <4>1. View(t)' = Overlay(View(t), Empty)
        BY <3>1 DEF View, Overlay
      <4>2. QED
        BY <3>2, <4>1 DEF Overlay, Empty, Store
    <3>4. Publishes(c, t)
      BY <1>5 DEF Publish, Visit, Publishes
    <3>5. QED
      BY <2>1, <3>1, <3>3, <3>4 DEF Published
  <2>2. CASE u # t
    <3>1. data'[u] = data[u] /\ temp'[u] = temp[u]
      BY <1>2, <1>5, <2>2 DEF CommitChanges
    <3>2. View(u)' = View(u)
      BY <3>1 DEF View, Overlay
    <3>3. Publishes(c, u)' <=> Publishes(c, u)
      BY <1>2, <1>5, <2>2 DEF Publishes, Visit
    <3>4. QED
      BY <1>3, <3>1, <3>2, <3>3 DEF Published
  <2>3. QED
    BY <2>1, <2>2
<1>6. ASSUME todo[c] = {}, Loop(c, "release"), UNCHANGED shared, NEW u \in Tables
      PROVE  Published(u)' = Published(u)
  <2>1. ~Publishes(c, u) /\ ~Publishes(c, u)'
    BY <1>2, <1>6 DEF Publishes, Loop, Goto
  <2>2. data' = data /\ View(u)' = View(u)
    BY <1>6 DEF shared, View, Overlay
  <2>3. QED
    BY <1>3, <2>1, <2>2 DEF Published
<1>7. \A u \in Tables : Published(u)' = Published(u)
  BY <1>5, <1>6 DEF Publish
<1>8. StoreSeen' = StoreSeen
  BY <1>7 DEF StoreSeen
<1>9. QED
  BY <1>1, <1>4, <1>8, Stutters

LEMMA InternalSimulated ==
    ASSUME Known, StoredInv, NEW c \in Conns, Internal(c), ~ArithKills(c),
           robbed' = {}
    PROVE  [Atomic!Next]_(Atomic!vars)
<1>1. TypeOK /\ LockOK(c)
  BY DEF Known, LockInv
<1>2. pc \in [Conns -> Labels] /\ inTxn \in [Conns -> BOOLEAN]
  BY <1>1, Types
<1>3. CASE data' = data /\ pc[c] # "publish" /\ pc'[c] # "publish" /\ OwnKept(c)
  BY <1>1, <1>3, StoreKept, Stutters
<1>4. CASE SetLock(c) \/ SetWrite(c)
  BY <1>2, <1>3, <1>4
  DEF SetLock, SetWrite, TableSet, Goto, OwnKept, Opened, Asked, txn
<1>5. CASE SetSave(c)
  BY <1>5, PutSimulated DEF Atomic!Next
<1>6. CASE UnlockAndReply(c) \/ FailSet(c)
  BY <1>1, <1>2, <1>3, <1>6
  DEF UnlockAndReply, FailSet, Unlock, Finish, Continue, Goto, OwnKept, Opened,
      Asked, LockOK, txn
<1>7. CASE Apply(c)
  <2>1. CASE writes[c] = {} /\ Loop(c, "publish") /\ UNCHANGED shared
    BY <1>7, <2>1, CommitSimulated DEF Apply, Atomic!Next
  <2>2. ASSUME NEW w \in writes[c],
               TableSet(c, w[1], w[2], buffer[c][w[1]][w[2]]), pc' = pc
        PROVE  [Atomic!Next]_(Atomic!vars)
    BY <1>2, <1>3, <1>7, <2>2
    DEF Apply, TableSet, OwnKept, Opened, Asked, txn
  <2>3. QED
    BY <1>7, <2>1, <2>2 DEF Apply
<1>8. CASE Publish(c)
  BY <1>8, PublishSimulated
<1>9. CASE Undo(c)
  BY <1>2, <1>3, <1>9
  DEF Undo, RollbackChanges, Visit, Loop, Goto, OwnKept, Opened, Asked, shared, txn
<1>10. CASE Release(c)
  BY <1>2, <1>3, <1>10
  DEF Release, Unlock, Visit, EndTxn, Finish, Continue, Goto, OwnKept, Opened,
      Asked, shared, txn
<1>11. CASE Free(c)
  <2>1. CASE inTxn' = inTxn /\ UNCHANGED txn /\ pc' = pc
    BY <1>2, <1>3, <1>11, <2>1
    DEF Free, Unlock, OwnKept, Opened, Asked, shared, txn
  <2>2. CASE EndTxn(c) /\ data' = data /\ pc'[c] \in {"read", "failset"}
    <3>1. pc[c] = "free" /\ ~Opened(c)' /\ Asked(c)' = Asked(c)
      BY <1>2, <1>11, <2>2 DEF Free, EndTxn, Opened, Asked
    <3>2. StoreSeen' = StoreSeen
      BY <2>2, <3>1, StoreKept
    <3>3. CASE Opened(c)
      BY <1>1, <3>1, <3>2, <3>3, Aborts DEF Atomic!Next
    <3>4. CASE ~Opened(c)
      BY <1>1, <3>1, <3>2, <3>4, Stutters DEF OwnKept
    <3>5. QED
      BY <3>3, <3>4
  <2>3. QED
    BY <1>2, <1>11, <2>1, <2>2
    DEF Free, Visit, Finish, Continue, Goto, shared, txn
<1>12. QED
  BY <1>4, <1>5, <1>6, <1>7, <1>8, <1>9, <1>10, <1>11 DEF Internal

LEMMA KillSimulated ==
    ASSUME NEW c \in Conns, ArithKills(c) PROVE Atomic!Restart
<1>1. /\ data' = AllTables(Empty) /\ pc' = Each("closed")
  BY DEF ArithKills
<1>2. \A d \in Conns : ~Opened(d)' /\ Asked(d)' = None
  BY <1>1 DEF Opened, Asked, Each
<1>3. \A t \in Tables : Published(t)' = Empty
  BY <1>1 DEF Published, Publishes, Each, AllTables
<1>4. QED
  BY <1>2, <1>3
  DEF StoreSeen, InTransaction, ReadSoFar, WrittenSoFar, AskedFor, AllTables, Empty,
      Atomic!Restart, Atomic!Nothing

LEMMA StepSimulated ==
    ASSUME Known, StoredInv, [Next]_vars
    PROVE  [\/ [Atomic!Next]_(Atomic!vars)
            \/ BeginsWithOldWrites
            \/ robbed' # {}]_vars
<1>1. SUFFICES ASSUME Next, ~BeginsWithOldWrites, robbed' = {}
               PROVE  [Atomic!Next]_(Atomic!vars)
  OBVIOUS
<1>2. PICK c \in Conns : Request(c) \/ Internal(c)
  BY <1>1 DEF Next
<1>3. CASE ArithKills(c)
  BY <1>3, KillSimulated DEF Atomic!Next
<1>4. CASE ~ArithKills(c)
  BY <1>1, <1>2, <1>4, SessionSimulated, StackSimulated, TableSimulated,
     TxnSimulated, InternalSimulated
  DEF Request
<1>5. QED
  BY <1>3, <1>4

(* The tables are an atomic store, with any number of connections and        *)
(* tables: a transaction takes effect at one moment, at which all that it    *)
(* has read still holds, or not at all, and a SET writes once; up to begin() *)
(* with the writes of a transaction that was rolled back, and up to the      *)
(* first table that a thread reaches into without holding it.                *)
THEOREM TablesAreAtomic == Spec => ImplementsAtomicStore
<1>1. Init => Atomic!Init
  <2>1. SUFFICES ASSUME Init PROVE Atomic!Init
    OBVIOUS
  <2>2. \A d \in Conns : ~Opened(d) /\ Asked(d) = None
    BY <2>1 DEF Init, Opened, Asked, Each
  <2>3. \A t \in Tables : Published(t) = Empty
    BY <2>1 DEF Init, Published, Publishes, Each, AllTables
  <2>4. QED
    BY <2>2, <2>3
    DEF StoreSeen, InTransaction, ReadSoFar, WrittenSoFar, AskedFor, AllTables,
        Empty, Atomic!Init, Atomic!Nothing
<1>2. Known /\ StoredInv /\ [Next]_vars
        => [\/ [Atomic!Next]_(Atomic!vars)
            \/ BeginsWithOldWrites
            \/ robbed' # {}]_vars
  BY StepSimulated
<1>3. QED
  BY <1>1, <1>2, KnownAlways, StoredAlways, PTL DEF Spec, ImplementsAtomicStore

=============================================================================
