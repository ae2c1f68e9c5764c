----------------------------- MODULE IncrClients -----------------------------
(***************************************************************************)
(* The server of TxServer driven by real clients: every connection is one  *)
(* run of incr_value, with or without -t, on the same key of the same      *)
(* table, as scripts incr_value_concurrent.sh and incr_value_worker.sh     *)
(* start them after they have created the table and set the key to 0.      *)
(* A client sends the next request of its program only after the reply OK  *)
(* to the one before; at any other reply it closes the socket and exits.   *)
(***************************************************************************)
EXTENDS TxServer

CONSTANTS
    Modes,       \* the sets of clients that may have been started with -t
    Table, Key   \* the tuple they increment

ASSUME ClientsAssumption ==
    /\ Modes \subseteq SUBSET Conns
    /\ Table \in Tables /\ Key \in Keys
    /\ IsFiniteSet(Conns)
    /\ Vals = 0 .. Cardinality(Conns)
    /\ {"PUSH", "SET", "GET", "ARITH", "BEGIN", "COMMIT", "BYE", "EOF"}
           \subseteq Requests

VARIABLES
    transactional,  \* the clients started with -t
    step,           \* the next step of each client's program
    result          \* how its process has ended

clients == <<transactional, step, result>>
allVars == <<vars, clients>>

-----------------------------------------------------------------------------
(* The program of a client                                                   *)
Program(c) ==
    IF c \in transactional
      THEN <<"CONNECT", "LOGIN", "BEGIN", "GET", "PUSH", "ADD", "SET",
             "COMMIT", "BYE">>
      ELSE <<"CONNECT", "LOGIN", "GET", "PUSH", "ADD", "SET", "BYE">>

At(c, request) == result[c] = "running" /\ Program(c)[step[c]] = request

(* handle_message: send, wait for the line that answers, go on if it is OK.  *)
Answered(c) == pc[c] = "read" /\ replies[c] # <<>>
Advance(c) ==
    /\ step' = [step EXCEPT ![c] = @ + 1]
    /\ UNCHANGED <<transactional, result>>

Exit(c, r) ==
    /\ result' = [result EXCEPT ![c] = r]
    /\ UNCHANGED <<transactional, step>>

(* Variant with a bug: the right operand is added twice.                     *)
SumTwice(s) == s[Len(s) - 1] + s[Len(s)] + s[Len(s)]

(* ADD pops a (right) and b (left) and pushes b + a.                         *)
Sum(s) == s[Len(s) - 1] + s[Len(s)]

Send(c) ==
    \/ At(c, "CONNECT") /\ Accept(c) /\ Advance(c)
    \/ At(c, "LOGIN") /\ Login(c) /\ Advance(c)
    \/ /\ Answered(c) /\ Head(replies[c]) = "ok"
       /\ \/ At(c, "BEGIN") /\ Begin(c) /\ Advance(c)
          \/ /\ At(c, "GET") /\ Advance(c)
             /\ \/ GetContended(c, Table, Key) \/ GetInTxn(c, Table, Key)
                \/ GetMissing(c, Table, Key) \/ GetAuto(c, Table, Key)
          \/ At(c, "PUSH") /\ Push(c, 1) /\ Advance(c)
          \/ /\ At(c, "ADD") /\ Advance(c)
             /\ ArithOk(c, Sum(stack[c]))
          \/ /\ At(c, "SET") /\ Advance(c)
             /\ \/ SetBuffered(c, Table, Key) \/ SetContended(c, Table, Key)
                \/ SetAuto(c, Table, Key)
          \/ At(c, "COMMIT") /\ Commit(c) /\ Advance(c)
          \/ At(c, "BYE") /\ Bye(c) /\ Exit(c, "ok")

(* A reply that is not OK: close(clientfd) and exit(1).                      *)
GiveUp(c) ==
    /\ result[c] = "running"
    /\ Answered(c) /\ Head(replies[c]) # "ok"
    /\ Eof(c)
    /\ Exit(c, "failed")

Client(c) == Send(c) \/ GiveUp(c)
Thread(c) == Internal(c) /\ UNCHANGED clients

(* The scripts start the workers once the tuple holds 0.                     *)
IncrInit ==
    /\ tables = {Table} /\ robbed = {}
    /\ owner = AllTables(None)
    /\ data = [AllTables(Empty) EXCEPT ![Table][Key] = 0]
    /\ temp = AllTables(Empty)
    /\ pc = Each("new") /\ req = Each(None) /\ then = Each("none")
    /\ todo = Each({}) /\ writes = Each({})
    /\ inTxn = Each(FALSE) /\ locked = Each({}) /\ seen = Each({})
    /\ buffer = Each(AllTables(Empty))
    /\ stack = Each(<<>>) /\ hasStack = Each(FALSE)
    /\ replies = Each(<<>>)
    /\ transactional \in Modes
    /\ step = Each(1) /\ result = Each("running")

IncrNext == \E c \in Conns : Client(c) \/ Thread(c)

(* Clients are programs: each goes on as long as it can, and so does each    *)
(* thread of the server.                                                     *)
IncrSpec ==
    /\ IncrInit /\ [][IncrNext]_allVars
    /\ \A c \in Conns : WF_allVars(Client(c)) /\ WF_allVars(Thread(c))

-----------------------------------------------------------------------------
Count == data[Table][Key]
Ended == \A c \in Conns : result[c] # "running" /\ pc[c] = "closed"
Successes == {c \in Conns : result[c] = "ok"}

(* The clients that have sent their SET.                                     *)
HasSet(c) == \E i \in 1 .. step[c] - 1 : Program(c)[i] = "SET"

(* The count is never higher than the increments attempted, whatever locks   *)
(* are lost and however the clients interleave.                              *)
NeverTooHigh ==
    /\ Count <= Cardinality({c \in Conns : HasSet(c)})
    /\ temp[Table][Key] # None =>
           temp[Table][Key] <= Cardinality({c \in Conns : HasSet(c)})

(* With -t everywhere, and unless a rollback or an unlock of one thread has  *)
(* reached into the table of another, the final count is the number of       *)
(* clients that were told OK.                                                *)
SuccessesCounted ==
    Ended /\ robbed = {} /\ transactional = Conns =>
        Count = Cardinality(Successes)

(* A table that everybody contends for still serves somebody: not all        *)
(* transactions give way to each other.                                      *)
SomebodySucceeds == Ended => Successes # {}

(* Every client process ends: none waits for ever for a reply, though        *)
(* clients with -t hold the table from GET to COMMIT.                        *)
EveryClientEnds == <>Ended

(* incr_value_concurrent.sh:77 "For transaction mode, the final count should *)
(* be exactly equal to the number of transactions that were successful".     *)
FinalCountExact ==
    Ended /\ transactional = Conns => Count = Cardinality(Successes)

=============================================================================
