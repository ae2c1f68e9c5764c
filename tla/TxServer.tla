------------------------------ MODULE TxServer ------------------------------
(***************************************************************************)
(* The transactional key/value server of csf_assign05: one thread per      *)
(* client connection (ClientConnection::chat_with_client), the Table       *)
(* objects they share, and the pthread mutex of each table.                *)
(*                                                                         *)
(* A step of this specification is what a thread does between two accesses *)
(* to shared memory: a handler that touches one table once is one action,  *)
(* a handler that locks, writes, publishes and unlocks is one action per   *)
(* call.  Server::find_table and create_table hold tables_mutex for their  *)
(* whole body and nothing else, so each is part of the action calling it.  *)
(* The requests themselves are chosen by the clients and are unconstrained *)
(* (module IncrClients composes the server with real client programs).     *)
(***************************************************************************)
EXTENDS Naturals, Sequences, FiniteSets

CONSTANTS
    Conns,       \* connections (and their threads), each used for one session
    Tables,      \* table names
    Keys,        \* key names
    Vals,        \* values on the operand stacks and in the tables
    None,        \* no owner / no such key / no current request
    Junk,        \* a mutex word that reads as locked although nobody locked it
    FreshMutex,  \* what Table() may leave in m_lock, which it never initialises
    Requests,    \* the kinds of request the clients send
    MaxStack     \* bound on the depth of an operand stack

RequestKinds == {"CREATE", "PUSH", "POP", "SET", "GET", "ARITH",
                 "BEGIN", "COMMIT", "BYE", "EOF", "INVALID"}

Targets == Tables \X Keys \X (Vals \cup {None})

ASSUME NamesAssumption ==
    /\ None \notin Conns \cup Vals \cup Targets
    /\ Junk \notin Conns \cup {None}
ASSUME FreshMutexAssumption == FreshMutex \subseteq {None, Junk}
ASSUME RequestsAssumption == Requests \subseteq RequestKinds
ASSUME MaxStackAssumption == MaxStack \in Nat \ {0}

VARIABLES
    tables,    \* Server::tables: the tables created so far
    owner,     \* Table::m_lock: the thread glibc records as owner of the mutex
    data,      \* Table::m_data
    temp,      \* Table::m_temp_data
    pc,        \* where the thread of a connection is
    req,       \* <<table, key, value>> of a request handled in several steps
    then,      \* how such a request ends
    inTxn,     \* m_in_transaction
    locked,    \* m_locked_tables
    buffer,    \* m_transaction_buffer
    stack,     \* m_stack
    hasStack,  \* m_has_stack
    todo,      \* the tables a loop over m_locked_tables has yet to visit
    writes,    \* the buffered writes commit() has yet to apply
    replies,   \* the replies sent to the connection's latest request
    seen,      \* history: what the open transaction has read from the tables
    robbed     \* history: tables whose lock was released, or whose maps were
               \* changed, by a thread that did not hold the lock

shared  == <<tables, owner, data, temp, robbed>>
control == <<pc, req, then, todo, writes>>
txn     == <<inTxn, locked, buffer, seen>>
operand == <<stack, hasStack>>
vars    == <<shared, control, txn, operand, replies>>

-----------------------------------------------------------------------------
(* Tables *)

Store == [Keys -> Vals \cup {None}]
Empty == [k \in Keys |-> None]

Each(x) == [c \in Conns |-> x]
AllTables(x) == [t \in Tables |-> x]

(* std::map lookup in `over`, then in `under`: Table::get, and the loop of   *)
(* Table::commit_changes that copies m_temp_data into m_data.                *)
Overlay(under, over) ==
    [k \in Keys |-> IF over[k] # None THEN over[k] ELSE under[k]]

(* What Table::has_key and Table::get see.                                   *)
View(t) == Overlay(data[t], temp[t])

(* Table::set, commit_changes and rollback_changes, called by c's thread.    *)
Trespass(c, t) == IF owner[t] = c THEN {} ELSE {t}

TableSet(c, t, k, v) ==
    /\ temp' = [temp EXCEPT ![t] = [@ EXCEPT ![k] = v]]
    /\ robbed' = robbed \cup Trespass(c, t)
    /\ UNCHANGED <<tables, owner, data>>

(* Variants of commit_changes with a bug: insert() keeps the key that is     *)
(* there already; m_temp_data is not cleared.                                *)
CommitInserting(c, t) ==
    /\ data' = [data EXCEPT ![t] = Overlay(temp[t], data[t])]
    /\ temp' = [temp EXCEPT ![t] = Empty]
    /\ robbed' = robbed \cup Trespass(c, t)
    /\ UNCHANGED <<tables, owner>>
CommitLeavingTemp(c, t) ==
    /\ data' = [data EXCEPT ![t] = View(t)]
    /\ robbed' = robbed \cup Trespass(c, t)
    /\ UNCHANGED <<tables, owner, temp>>

CommitChanges(c, t) ==
    /\ data' = [data EXCEPT ![t] = View(t)]
    /\ temp' = [temp EXCEPT ![t] = Empty]
    /\ robbed' = robbed \cup Trespass(c, t)
    /\ UNCHANGED <<tables, owner>>

RollbackChanges(c, t) ==
    /\ temp' = [temp EXCEPT ![t] = Empty]
    /\ robbed' = robbed \cup Trespass(c, t)
    /\ UNCHANGED <<tables, owner, data>>

(* pthread_mutex_unlock on a default mutex frees it whoever the caller is.   *)
Unlock(c, t) ==
    /\ owner' = [owner EXCEPT ![t] = None]
    /\ robbed' = robbed \cup (IF owner[t] \in Conns \ {c} THEN {t} ELSE {})
    /\ UNCHANGED <<tables, data, temp>>

-----------------------------------------------------------------------------
(* Steps common to the handlers *)

Goto(c, l) == pc' = [pc EXCEPT ![c] = l]

(* A request of this kind reaches the handler of a logged-in client.         *)
Receive(c, kind) == pc[c] = "read" /\ kind \in Requests

(* Send the only reply of the current request so far, or one more.           *)
Reply(c, r) == replies' = [replies EXCEPT ![c] = <<r>>]
ReplyNow(c, r) == replies' = [replies EXCEPT ![c] = Append(@, r)]
ReplyLater(c) == replies' = [replies EXCEPT ![c] = <<>>]

(* A handler that answers at once and goes back to Rio_readlineb.            *)
Answer(c, r) == Reply(c, r) /\ UNCHANGED control

(* A handler that goes on at `l` with the request x and will end with e.     *)
Continue(c, l, x, e) ==
    /\ Goto(c, l)
    /\ req' = [req EXCEPT ![c] = x]
    /\ then' = [then EXCEPT ![c] = e]
    /\ UNCHANGED <<todo, writes>>

(* The end of such a handler.                                                *)
Finish(c) == Continue(c, "read", None, "none")

(* rollback_transaction() is entered while in a transaction.                 *)
StartRollback(c, x, e) ==
    /\ Goto(c, "undo")
    /\ req' = [req EXCEPT ![c] = x]
    /\ then' = [then EXCEPT ![c] = e]
    /\ todo' = [todo EXCEPT ![c] = locked'[c]]
    /\ UNCHANGED writes

(* Variants with a bug: the result of trylock is ignored; trylock is called  *)
(* for a table that the transaction holds already.                           *)
CanLockAlways(c, t) == TRUE
CanLockOnce(c, t) == owner[t] = None

(* m_locked_tables.insert(t).second && t->trylock()                          *)
CanLock(c, t) == t \in locked[c] \/ owner[t] = None

LockInTxn(c, t) ==
    /\ locked' = [locked EXCEPT ![c] = @ \cup {t}]
    /\ owner' = [owner EXCEPT ![t] = IF t \in locked[c] THEN @ ELSE c]
    /\ UNCHANGED <<tables, data, temp, robbed>>

Pushed(c, v) ==
    /\ stack' = [stack EXCEPT ![c] = Append(@, v)]
    /\ hasStack' = [hasStack EXCEPT ![c] = TRUE]

PopOne(c) ==
    /\ stack' = [stack EXCEPT ![c] = SubSeq(@, 1, Len(@) - 1)]
    /\ UNCHANGED hasStack

TopOf(c) == stack[c][Len(stack[c])]

-----------------------------------------------------------------------------
(* Sessions *)

(* server_loop: accept, new ClientConnection, pthread_create and detach.     *)
Accept(c) ==
    /\ pc[c] = "new"
    /\ Goto(c, "login")
    /\ UNCHANGED <<shared, req, then, todo, writes, txn, operand, replies>>

(* server_loop when pthread_create fails: the connection is deleted.         *)
AcceptFails(c) ==
    /\ pc[c] = "new"
    /\ Goto(c, "closed")
    /\ UNCHANGED <<shared, req, then, todo, writes, txn, operand, replies>>

(* m_has_logged_in becomes TRUE; later LOGINs change nothing.                *)
Login(c) ==
    /\ pc[c] = "login"
    /\ Goto(c, "read")
    /\ Reply(c, "ok")
    /\ UNCHANGED <<shared, req, then, todo, writes, txn, operand>>

(* chat_with_client returns and the ClientConnection is destroyed.  Nothing  *)
(* on this path unlocks a table: locked[c] stays, as the mutexes do.         *)
Disconnect(c) ==
    /\ Goto(c, "closed")
    /\ stack' = [stack EXCEPT ![c] = <<>>]
    /\ hasStack' = [hasStack EXCEPT ![c] = FALSE]
    /\ buffer' = [buffer EXCEPT ![c] = AllTables(Empty)]
    /\ UNCHANGED <<shared, req, then, todo, writes, inTxn, locked, seen>>

Bye(c) ==
    /\ Receive(c, "BYE")
    /\ Reply(c, "ok")
    /\ Disconnect(c)

(* Rio_readlineb returns 0: CommException.                                   *)
Eof(c) ==
    /\ pc[c] \in {"login", "read"} /\ "EOF" \in Requests
    /\ Disconnect(c)
    /\ UNCHANGED replies

(* InvalidMessage: not decodable, not valid, or the first one is not LOGIN.  *)
Reject(c) ==
    /\ pc[c] \in {"login", "read"} /\ "INVALID" \in Requests
    /\ Reply(c, "error")
    /\ Disconnect(c)

-----------------------------------------------------------------------------
(* CREATE, PUSH, POP and arithmetic *)

(* make_unique<Table>() runs the constructor that leaves m_lock as it finds  *)
(* it; creating a table that exists changes nothing and still answers OK.    *)
Create(c, t) ==
    /\ Receive(c, "CREATE")
    /\ tables' = tables \cup {t}
    /\ \E m \in FreshMutex :
          owner' = [owner EXCEPT ![t] = IF t \in tables THEN @ ELSE m]
    /\ Answer(c, "ok")
    /\ UNCHANGED <<data, temp, robbed, txn, operand>>

Push(c, v) ==
    /\ Receive(c, "PUSH")
    /\ Len(stack[c]) < MaxStack
    /\ Pushed(c, v)
    /\ Answer(c, "ok")
    /\ UNCHANGED <<shared, txn>>

Pop(c) ==
    /\ Receive(c, "POP")
    /\ IF stack[c] = <<>>
         THEN Answer(c, "failed") /\ UNCHANGED operand
         ELSE Answer(c, "ok") /\ PopOne(c)
    /\ UNCHANGED <<shared, txn>>

(* ADD, SUB, MUL, DIV: the values are abstracted, so that the result is any  *)
(* value and any operands may be refused.                                    *)
ArithOk(c, v) ==
    /\ Receive(c, "ARITH")
    /\ Len(stack[c]) >= 2
    /\ stack' = [stack EXCEPT ![c] = Append(SubSeq(@, 1, Len(@) - 2), v)]
    /\ Answer(c, "ok")
    /\ UNCHANGED <<shared, txn, hasStack>>

(* What a failed operation leaves on the stack: both operands are back, in   *)
(* their order or (when the left one is at fault) swapped.                   *)
Swapped(s) == [s EXCEPT ![Len(s)] = s[Len(s) - 1], ![Len(s) - 1] = s[Len(s)]]

OperandsBack(c) ==
    \/ UNCHANGED stack
    \/ Len(stack[c]) >= 2 /\ stack' = [stack EXCEPT ![c] = Swapped(@)]

(* send_error and return: an open transaction goes on.                       *)
ArithRefused(c) ==
    /\ Receive(c, "ARITH")
    /\ Len(stack[c]) >= 2
    /\ OperandsBack(c)
    /\ Answer(c, "error")
    /\ UNCHANGED <<shared, txn, hasStack>>

(* An empty operand: send_failed and return, the operands in their order.    *)
ArithNoValue(c) ==
    /\ Receive(c, "ARITH")
    /\ Len(stack[c]) >= 2
    /\ Answer(c, "failed")
    /\ UNCHANGED <<shared, txn, operand>>

(* OperationException (fewer than two operands, or one that stoi refuses):   *)
(* chat_with_client answers first and only then rolls back.                  *)
ArithThrows(c) ==
    /\ Receive(c, "ARITH")
    /\ OperandsBack(c)
    /\ Reply(c, "failed")
    /\ UNCHANGED <<shared, txn, hasStack>>
    /\ IF inTxn[c] THEN StartRollback(c, None, "threw") ELSE UNCHANGED control

-----------------------------------------------------------------------------
(* SET *)

SetRefused(c, t) ==
    /\ Receive(c, "SET")
    /\ ~hasStack[c] \/ t \notin tables
    /\ Answer(c, "failed")
    /\ UNCHANGED <<shared, txn, operand>>

(* A SET that reaches the try block of set().                                *)
ReceiveSet(c, t) == Receive(c, "SET") /\ hasStack[c] /\ t \in tables

(* get_top() throws; outside a transaction the catch block unlocks a table   *)
(* that the thread has not locked.                                           *)
SetNoOperand(c, t) ==
    /\ ReceiveSet(c, t)
    /\ stack[c] = <<>>
    /\ IF inTxn[c] THEN UNCHANGED shared ELSE Unlock(c, t)
    /\ Answer(c, "failed")
    /\ UNCHANGED <<txn, operand>>

SetBuffered(c, t, k) ==
    /\ ReceiveSet(c, t)
    /\ stack[c] # <<>> /\ inTxn[c] /\ CanLock(c, t)
    /\ LockInTxn(c, t)
    /\ buffer' = [buffer EXCEPT ![c][t][k] = TopOf(c)]
    /\ PopOne(c)
    /\ Answer(c, "ok")
    /\ UNCHANGED <<inTxn, seen>>

(* Variant with a bug: a transaction waits in lock() for a table it needs.   *)
SetWaiting(c, t, k) ==
    /\ ReceiveSet(c, t)
    /\ stack[c] # <<>> /\ inTxn[c] /\ ~CanLock(c, t)
    /\ Continue(c, "lock", <<t, k, TopOf(c)>>, "ok")
    /\ PopOne(c)
    /\ ReplyLater(c)
    /\ UNCHANGED <<shared, txn>>

(* trylock fails with t already in m_locked_tables: rollback_transaction()   *)
(* visits t too, then set()'s own catch block unlocks it once more.          *)
SetContended(c, t, k) ==
    /\ ReceiveSet(c, t)
    /\ stack[c] # <<>> /\ inTxn[c] /\ ~CanLock(c, t)
    /\ locked' = [locked EXCEPT ![c] = @ \cup {t}]
    /\ StartRollback(c, <<t, k, TopOf(c)>>, "failset")
    /\ PopOne(c)
    /\ ReplyLater(c)
    /\ UNCHANGED <<shared, inTxn, buffer, seen>>

SetAuto(c, t, k) ==
    /\ ReceiveSet(c, t)
    /\ stack[c] # <<>> /\ ~inTxn[c]
    /\ Continue(c, "lock", <<t, k, TopOf(c)>>, "ok")
    /\ PopOne(c)
    /\ ReplyLater(c)
    /\ UNCHANGED <<shared, txn>>

(* t->lock(), the only call of the server that waits for a table.            *)
SetLock(c) ==
    /\ pc[c] = "lock"
    /\ owner[req[c][1]] = None
    /\ owner' = [owner EXCEPT ![req[c][1]] = c]
    /\ Goto(c, "write")
    /\ UNCHANGED <<tables, data, temp, robbed, req, then, todo, writes, txn,
                   operand, replies>>

SetWrite(c) ==
    /\ pc[c] = "write"
    /\ TableSet(c, req[c][1], req[c][2], req[c][3])
    /\ Goto(c, "save")
    /\ UNCHANGED <<req, then, todo, writes, txn, operand, replies>>

SetSave(c) ==
    /\ pc[c] = "save"
    /\ CommitChanges(c, req[c][1])
    /\ Goto(c, "unlock")
    /\ UNCHANGED <<req, then, todo, writes, txn, operand, replies>>

(* The t->unlock() that ends set() and get(), and the reply that follows.    *)
UnlockAndReply(c) ==
    /\ pc[c] \in {"unlock", "drop"}
    /\ Unlock(c, req[c][1])
    /\ ReplyNow(c, then[c])
    /\ Finish(c)
    /\ UNCHANGED <<txn, operand>>

(* Variant with a bug: set() answers and throws the exception on, so that    *)
(* chat_with_client answers a second time.                                   *)
FailSetTwice(c) ==
    /\ pc[c] = "failset"
    /\ Unlock(c, req[c][1])
    /\ replies' = [replies EXCEPT ![c] = @ \o <<"failed", "failed">>]
    /\ Finish(c)
    /\ UNCHANGED <<txn, operand>>

(* The catch block of set() after rollback_transaction(): m_in_transaction   *)
(* is already FALSE.                                                         *)
FailSet(c) ==
    /\ pc[c] = "failset"
    /\ Unlock(c, req[c][1])
    /\ ReplyNow(c, "failed")
    /\ Finish(c)
    /\ UNCHANGED <<txn, operand>>

-----------------------------------------------------------------------------
(* GET *)

GetNoTable(c, t) ==
    /\ Receive(c, "GET")
    /\ t \notin tables
    /\ Answer(c, "failed")
    /\ UNCHANGED <<shared, txn, operand>>

ReceiveGet(c, t) == Receive(c, "GET") /\ t \in tables

GetContended(c, t, k) ==
    /\ ReceiveGet(c, t)
    /\ inTxn[c] /\ ~CanLock(c, t)
    /\ locked' = [locked EXCEPT ![c] = @ \cup {t}]
    /\ StartRollback(c, <<t, k, None>>, "failget")
    /\ ReplyLater(c)
    /\ UNCHANGED <<shared, inTxn, buffer, seen, operand>>

(* A transaction reads its own buffer first, then the table.                 *)
ReadInTxn(c, t, k) == Overlay(View(t), buffer[c][t])[k]

(* Variant with a bug: get() unlocks the table in a transaction, too.        *)
GetUnlocking(c, t, k) ==
    /\ ReceiveGet(c, t)
    /\ inTxn[c] /\ CanLock(c, t)
    /\ ReadInTxn(c, t, k) # None
    /\ Len(stack[c]) < MaxStack
    /\ locked' = [locked EXCEPT ![c] = @ \cup {t}]
    /\ owner' = [owner EXCEPT ![t] = None]
    /\ Pushed(c, ReadInTxn(c, t, k))
    /\ seen' = [seen EXCEPT ![c] = IF buffer[c][t][k] = None
                                     THEN @ \cup {<<t, k, View(t)[k]>>}
                                     ELSE @]
    /\ Answer(c, "ok")
    /\ UNCHANGED <<tables, data, temp, robbed, inTxn, buffer>>

GetInTxn(c, t, k) ==
    /\ ReceiveGet(c, t)
    /\ inTxn[c] /\ CanLock(c, t)
    /\ ReadInTxn(c, t, k) # None
    /\ Len(stack[c]) < MaxStack
    /\ LockInTxn(c, t)
    /\ Pushed(c, ReadInTxn(c, t, k))
    /\ seen' = [seen EXCEPT ![c] = IF buffer[c][t][k] = None
                                     THEN @ \cup {<<t, k, View(t)[k]>>}
                                     ELSE @]
    /\ Answer(c, "ok")
    /\ UNCHANGED <<inTxn, buffer>>

(* The lock was taken or held, the key is missing: the transaction rolls     *)
(* back before the reply.                                                    *)
GetMissing(c, t, k) ==
    /\ ReceiveGet(c, t)
    /\ inTxn[c] /\ CanLock(c, t)
    /\ ReadInTxn(c, t, k) = None
    /\ LockInTxn(c, t)
    /\ StartRollback(c, None, "failget")
    /\ ReplyLater(c)
    /\ UNCHANGED <<inTxn, buffer, seen, operand>>

(* Thread d is inside a call that changes the maps of t.                     *)
Mutating(d, t) ==
    \/ pc[d] \in {"write", "save"} /\ req[d][1] = t
    \/ pc[d] = "apply" /\ \E k \in Keys : <<t, k>> \in writes[d]
    \/ pc[d] \in {"publish", "undo"} /\ t \in todo[d]

(* A GET outside a transaction reads the maps without the lock: next to a    *)
(* thread that is changing them its lookup can also miss the key.            *)
UnlockedRead(c, t, k) ==
    {View(t)[k]} \cup
        (IF \E d \in Conns \ {c} : Mutating(d, t) THEN {None} ELSE {})

(* Variant with a bug: get() does not ask has_key first.                     *)
GetUnchecked(c, t, k) ==
    /\ ReceiveGet(c, t)
    /\ ~inTxn[c] /\ Len(stack[c]) < MaxStack
    /\ Pushed(c, View(t)[k])
    /\ Continue(c, "drop", <<t, k, View(t)[k]>>, "ok")
    /\ ReplyLater(c)
    /\ UNCHANGED <<shared, txn>>

GetAuto(c, t, k) ==
    /\ ReceiveGet(c, t)
    /\ ~inTxn[c]
    /\ \E v \in UnlockedRead(c, t, k) :
          \/ /\ v # None /\ Len(stack[c]) < MaxStack
             /\ Pushed(c, v)
             /\ Continue(c, "drop", <<t, k, v>>, "ok")
          \/ /\ v = None
             /\ UNCHANGED operand
             /\ Continue(c, "drop", <<t, k, None>>, "failed")
    /\ ReplyLater(c)
    /\ UNCHANGED <<shared, txn>>

-----------------------------------------------------------------------------
(* BEGIN, COMMIT and rollback *)

(* Variant with a bug: begin() does not look at m_in_transaction.            *)
BeginAgain(c) ==
    /\ Receive(c, "BEGIN")
    /\ Answer(c, "ok")
    /\ inTxn' = [inTxn EXCEPT ![c] = TRUE]
    /\ locked' = [locked EXCEPT ![c] = {}]
    /\ seen' = [seen EXCEPT ![c] = {}]
    /\ UNCHANGED <<buffer, shared, operand>>

Begin(c) ==
    /\ Receive(c, "BEGIN")
    /\ IF inTxn[c]
         THEN Answer(c, "failed") /\ UNCHANGED txn
         ELSE /\ Answer(c, "ok")
              /\ inTxn' = [inTxn EXCEPT ![c] = TRUE]
              /\ locked' = [locked EXCEPT ![c] = {}]
              /\ seen' = [seen EXCEPT ![c] = {}]
              /\ UNCHANGED buffer
    /\ UNCHANGED <<shared, operand>>

(* Variant with a bug: m_locked_tables is cleared before the loops over it.  *)
LoopCleared(c, l) ==
    /\ Goto(c, l)
    /\ todo' = [todo EXCEPT ![c] = {}]
    /\ UNCHANGED <<req, then, writes>>

(* Enter the loop at `l` over m_locked_tables; visit one of its tables.      *)
Loop(c, l) ==
    /\ Goto(c, l)
    /\ todo' = [todo EXCEPT ![c] = locked[c]]
    /\ UNCHANGED <<req, then, writes>>

Visit(c, t) ==
    /\ t \in todo[c]
    /\ todo' = [todo EXCEPT ![c] = @ \ {t}]
    /\ UNCHANGED <<pc, req, then, writes>>

EndTxn(c) ==
    /\ inTxn' = [inTxn EXCEPT ![c] = FALSE]
    /\ locked' = [locked EXCEPT ![c] = {}]
    /\ seen' = [seen EXCEPT ![c] = {}]

Buffered(c) == {w \in Tables \X Keys : buffer[c][w[1]][w[2]] # None}

Commit(c) ==
    /\ Receive(c, "COMMIT")
    /\ IF inTxn[c]
         THEN /\ Goto(c, "apply")
              /\ writes' = [writes EXCEPT ![c] = Buffered(c)]
              /\ ReplyLater(c)
              /\ UNCHANGED <<req, then, todo>>
         ELSE Answer(c, "failed")
    /\ UNCHANGED <<shared, txn, operand>>

(* t->set() for every buffered write, whether or not t is locked.            *)
Apply(c) ==
    /\ pc[c] = "apply"
    /\ \/ \E w \in writes[c] :
             /\ TableSet(c, w[1], w[2], buffer[c][w[1]][w[2]])
             /\ writes' = [writes EXCEPT ![c] = @ \ {w}]
             /\ UNCHANGED <<pc, req, then, todo>>
       \/ writes[c] = {} /\ Loop(c, "publish") /\ UNCHANGED shared
    /\ UNCHANGED <<txn, operand, replies>>

Publish(c) ==
    /\ pc[c] = "publish"
    /\ \/ \E t \in Tables : Visit(c, t) /\ CommitChanges(c, t)
       \/ todo[c] = {} /\ Loop(c, "release") /\ UNCHANGED shared
    /\ UNCHANGED <<txn, operand, replies>>

Release(c) ==
    /\ pc[c] = "release"
    /\ \/ /\ \E t \in Tables : Visit(c, t) /\ Unlock(c, t)
          /\ UNCHANGED <<txn, replies>>
       \/ /\ todo[c] = {}
          /\ EndTxn(c)
          /\ buffer' = [buffer EXCEPT ![c] = AllTables(Empty)]
          /\ ReplyNow(c, "ok")
          /\ Finish(c)
          /\ UNCHANGED shared
    /\ UNCHANGED operand

(* rollback_transaction(): first every m_temp_data is dropped, then every    *)
(* table is unlocked; m_transaction_buffer is not cleared.                   *)
Undo(c) ==
    /\ pc[c] = "undo"
    /\ \/ \E t \in Tables : Visit(c, t) /\ RollbackChanges(c, t)
       \/ todo[c] = {} /\ Loop(c, "free") /\ UNCHANGED shared
    /\ UNCHANGED <<txn, operand, replies>>

Free(c) ==
    /\ pc[c] = "free"
    /\ \/ /\ \E t \in Tables : Visit(c, t) /\ Unlock(c, t)
          /\ UNCHANGED <<txn, replies>>
       \/ /\ todo[c] = {}
          /\ EndTxn(c)
          /\ \/ then[c] = "threw" /\ Finish(c) /\ UNCHANGED replies
             \/ then[c] = "failget" /\ Finish(c) /\ ReplyNow(c, "failed")
             \/ /\ then[c] = "failset"
                /\ Continue(c, "failset", req[c], "failset")
                /\ UNCHANGED replies
          /\ UNCHANGED <<shared, buffer>>
    /\ UNCHANGED operand

-----------------------------------------------------------------------------
(* The specification *)

Init ==
    /\ tables = {} /\ robbed = {}
    /\ owner = AllTables(None)
    /\ data = AllTables(Empty) /\ temp = AllTables(Empty)
    /\ pc = Each("new") /\ req = Each(None) /\ then = Each("none")
    /\ todo = Each({}) /\ writes = Each({})
    /\ inTxn = Each(FALSE) /\ locked = Each({}) /\ seen = Each({})
    /\ buffer = Each(AllTables(Empty))
    /\ stack = Each(<<>>) /\ hasStack = Each(FALSE)
    /\ replies = Each(<<>>)

(* DIV by a zero operand (or INT_MIN / -1) raises SIGFPE, which ends the     *)
(* process: every session ends and nothing of the server's memory is left.   *)
ArithKills(c) ==
    /\ Receive(c, "ARITH")
    /\ Len(stack[c]) >= 2
    /\ tables' = {} /\ robbed' = {}
    /\ owner' = AllTables(None)
    /\ data' = AllTables(Empty) /\ temp' = AllTables(Empty)
    /\ pc' = Each("closed") /\ req' = Each(None) /\ then' = Each("none")
    /\ todo' = Each({}) /\ writes' = Each({})
    /\ inTxn' = Each(FALSE) /\ locked' = Each({}) /\ seen' = Each({})
    /\ buffer' = Each(AllTables(Empty))
    /\ stack' = Each(<<>>) /\ hasStack' = Each(FALSE)
    /\ replies' = Each(<<>>)

Session(c) ==
    \/ Accept(c) \/ AcceptFails(c) \/ Login(c) \/ Bye(c) \/ Eof(c) \/ Reject(c)

StackRequest(c) ==
    \/ \E v \in Vals : Push(c, v) \/ ArithOk(c, v)
    \/ Pop(c) \/ ArithRefused(c) \/ ArithNoValue(c) \/ ArithThrows(c)
    \/ ArithKills(c)

OnTable(c, t) ==
    Create(c, t) \/ SetRefused(c, t) \/ SetNoOperand(c, t) \/ GetNoTable(c, t)

OnKey(c, t, k) ==
    \/ SetBuffered(c, t, k) \/ SetContended(c, t, k) \/ SetAuto(c, t, k)
    \/ GetContended(c, t, k) \/ GetInTxn(c, t, k) \/ GetMissing(c, t, k)
    \/ GetAuto(c, t, k)

TableRequest(c) ==
    \E t \in Tables : OnTable(c, t) \/ \E k \in Keys : OnKey(c, t, k)

(* What a client decides: to connect, to send its next request, to leave.    *)
Request(c) ==
    Session(c) \/ StackRequest(c) \/ TableRequest(c) \/ Begin(c) \/ Commit(c)

(* What a thread does on its own until it reads the next request.            *)
Internal(c) ==
    \/ SetLock(c) \/ SetWrite(c) \/ SetSave(c) \/ UnlockAndReply(c)
    \/ FailSet(c) \/ Apply(c) \/ Publish(c) \/ Release(c) \/ Undo(c) \/ Free(c)

Next == \E c \in Conns : Request(c) \/ Internal(c)

Spec == Init /\ [][Next]_vars

(* The scheduler runs every thread that can run.  Clients need not go on,    *)
(* and a mutex is not fair: weak fairness is all pthread_mutex_lock gives.   *)
Fairness == \A c \in Conns : WF_vars(Internal(c))
FairSpec == Spec /\ Fairness

-----------------------------------------------------------------------------
(* Properties the server has *)

Endings == {"none", "ok", "failed", "threw", "failget", "failset"}

Labels == {"new", "login", "read", "lock", "write", "save", "unlock", "drop",
           "apply", "publish", "release", "undo", "free", "failset", "closed"}

SharedTypeOK ==
    /\ tables \subseteq Tables
    /\ owner \in [Tables -> Conns \cup {None, Junk}]
    /\ data \in [Tables -> Store]
    /\ temp \in [Tables -> Store]
    /\ robbed \subseteq Tables

ControlTypeOK ==
    /\ pc \in [Conns -> Labels]
    /\ req \in [Conns -> Targets \cup {None}]
    /\ then \in [Conns -> Endings]
    /\ todo \in [Conns -> SUBSET Tables]
    /\ writes \in [Conns -> SUBSET (Tables \X Keys)]

TxnTypeOK ==
    /\ inTxn \in [Conns -> BOOLEAN]
    /\ locked \in [Conns -> SUBSET Tables]
    /\ buffer \in [Conns -> [Tables -> Store]]
    /\ seen \in [Conns -> SUBSET (Tables \X Keys \X Vals)]

OperandTypeOK ==
    /\ stack \in [Conns -> Seq(Vals)]
    /\ hasStack \in [Conns -> BOOLEAN]
    /\ replies \in [Conns -> Seq({"ok", "failed", "error"})]

TypeOK == SharedTypeOK /\ ControlTypeOK /\ TxnTypeOK /\ OperandTypeOK

(* Every request gets exactly one reply: none is sent twice when set()       *)
(* catches the exception of its own rollback, when a rollback follows the    *)
(* reply, or when get() throws after rolling back; none is forgotten.        *)
OneReplyPerRequest ==
    \A c \in Conns : /\ Len(replies[c]) <= 1
                     /\ pc[c] = "read" => Len(replies[c]) = 1

(* What the thread of c takes for locked: the tables in m_locked_tables that *)
(* its commit or rollback has yet to unlock, except one whose trylock failed *)
(* and which sits in m_locked_tables all the same; and the table of an       *)
(* autocommit SET between lock() and unlock().                               *)
Holds(c, t) ==
    \/ /\ t \in locked[c]
       /\ pc[c] \in {"release", "free"} => t \in todo[c]
       /\ pc[c] \in {"undo", "free"} /\ req[c] # None => t # req[c][1]
    \/ pc[c] \in {"write", "save", "unlock"} /\ t = req[c][1]

(* No thread forgets a mutex it owns: whatever path a request takes, a lock  *)
(* still owned is one the thread knows of and will release.                  *)
NoForgottenLock ==
    \A c \in Conns, t \in Tables : owner[t] = c => Holds(c, t)

(* A mutex that a thread takes for locked is its own, as long as no other    *)
(* thread has unlocked it or changed the table behind its back.              *)
HeldLocksAreOwned ==
    \A c \in Conns : \A t \in Tables \ robbed : Holds(c, t) => owner[t] = c

(* A thread blocked in lock() owns no table, so that no thread ever waits    *)
(* for a thread that waits itself: the server cannot build a cycle of waits. *)
NoHoldAndWait ==
    \A c \in Conns, t \in Tables : pc[c] = "lock" => owner[t] # c

(* Strict two-phase locking gives repeatable reads: all that an open         *)
(* transaction has read from the tables is what the tables still hold.       *)
ReadsStable ==
    \A c \in Conns : pc[c] = "read" =>
        \A r \in seen[c] : r[1] \notin robbed => View(r[1])[r[2]] = r[3]

(* m_temp_data is empty whenever a lock can be taken: nobody publishes the   *)
(* half-applied writes of somebody else.                                     *)
NoResidue ==
    \A t \in Tables \ robbed :
        temp[t] # Empty =>
            \E c \in Conns : owner[t] = c /\ pc[c] \in {"save", "apply", "publish"}

(* A request made inside a transaction is answered although other            *)
(* transactions hold the tables it needs: trylock never makes it wait.       *)
TxnRequestsAnswered ==
    \A c \in Conns :
        inTxn[c] /\ pc[c] \notin {"read", "closed"} ~> pc[c] \in {"read", "closed"}

-----------------------------------------------------------------------------
(* Properties the documentation claims and the code breaks *)

(* README:28 "When there is a failure, changes are discarded": a COMMIT      *)
(* writes to tables that its own transaction has locked, and to no other.    *)
CommitsOwnWrites ==
    \A c \in Conns : pc[c] = "apply" => \A w \in writes[c] : w[1] \in locked[c]

=============================================================================
