----------------------------- MODULE AtomicStore -----------------------------
(***************************************************************************)
(* What the transactional server promises (csf_assign05/README): a store   *)
(* in which a transaction happens at one moment, at which all that it has  *)
(* read still holds and all that it has written appears, or not at all.    *)
(* A SET outside a transaction writes one value, once.                     *)
(***************************************************************************)
CONSTANTS Conns, Tables, Keys, Vals, None

VARIABLES
    store,   \* the value of each key of each table, or None
    open,    \* the connections with an open transaction
    reads,   \* what such a transaction has read from the store
    writes,  \* and what it is going to write
    asked    \* the write that a SET outside a transaction has yet to make

vars == <<store, open, reads, writes, asked>>

Nothing == [t \in Tables |-> [k \in Keys |-> None]]

With(new) ==
    [t \in Tables |-> [k \in Keys |->
        IF new[t][k] # None THEN new[t][k] ELSE store[t][k]]]

Init ==
    /\ store = Nothing /\ open = {}
    /\ reads = [c \in Conns |-> {}]
    /\ writes = [c \in Conns |-> Nothing]
    /\ asked = [c \in Conns |-> None]

Begin(c) ==
    /\ c \notin open
    /\ open' = open \cup {c}
    /\ UNCHANGED <<store, reads, writes, asked>>

(* A transaction sees its own writes first; only what comes from the store   *)
(* must hold until the end.                                                  *)
Read(c, t, k) ==
    /\ c \in open /\ writes[c][t][k] = None /\ store[t][k] # None
    /\ reads' = [reads EXCEPT ![c] = @ \cup {<<t, k, store[t][k]>>}]
    /\ UNCHANGED <<store, open, writes, asked>>

Write(c, t, k, v) ==
    /\ c \in open
    /\ writes' = [writes EXCEPT ![c][t][k] = v]
    /\ UNCHANGED <<store, open, reads, asked>>

Close(c) ==
    /\ open' = open \ {c}
    /\ reads' = [reads EXCEPT ![c] = {}]
    /\ writes' = [writes EXCEPT ![c] = Nothing]
    /\ UNCHANGED asked

Commit(c) ==
    /\ c \in open
    /\ \A r \in reads[c] : store[r[1]][r[2]] = r[3]
    /\ store' = With(writes[c])
    /\ Close(c)

Abort(c) == c \in open /\ Close(c) /\ UNCHANGED store

(* A SET outside a transaction writes once, some time after it is asked to.  *)
Ask(c, t, k, v) ==
    /\ c \notin open /\ asked[c] = None
    /\ asked' = [asked EXCEPT ![c] = <<t, k, v>>]
    /\ UNCHANGED <<store, open, reads, writes>>

Put(c) ==
    /\ asked[c] # None
    /\ store' = [store EXCEPT ![asked[c][1]][asked[c][2]] = asked[c][3]]
    /\ asked' = [asked EXCEPT ![c] = None]
    /\ UNCHANGED <<open, reads, writes>>

(* The process dies, and a new one starts with nothing.                      *)
Restart ==
    /\ store' = Nothing /\ open' = {}
    /\ reads' = [c \in Conns |-> {}]
    /\ writes' = [c \in Conns |-> Nothing]
    /\ asked' = [c \in Conns |-> None]

Next ==
    \/ \E c \in Conns :
          \/ Begin(c) \/ Commit(c) \/ Abort(c) \/ Put(c)
          \/ \E t \in Tables, k \in Keys :
                \/ Read(c, t, k)
                \/ \E v \in Vals : Write(c, t, k, v) \/ Ask(c, t, k, v)
    \/ Restart

Spec == Init /\ [][Next]_vars

=============================================================================
