--------------------------- MODULE StoreRefinement ---------------------------
(***************************************************************************)
(* TxServer implements AtomicStore.  A transaction happens when the last   *)
(* of its writes is in m_temp_data: from then on commit() cannot fail, and *)
(* the tables that it has yet to publish are taken for published.          *)
(***************************************************************************)
EXTENDS TxServer

(* commit() is past its last t->set() and has yet to call commit_changes().  *)
Publishes(c, t) == pc[c] = "publish" /\ t \in todo[c]

Published(t) == IF \E c \in Conns : Publishes(c, t) THEN View(t) ELSE data[t]

Opened(c) == inTxn[c] /\ pc[c] \notin {"publish", "release", "closed"}

(* set() outside a transaction, up to its commit_changes().                  *)
Asked(c) == IF pc[c] \in {"lock", "write", "save"} THEN req[c] ELSE None

StoreSeen == [t \in Tables |-> Published(t)]
InTransaction == {c \in Conns : Opened(c)}
ReadSoFar == [c \in Conns |-> IF Opened(c) THEN seen[c] ELSE {}]
WrittenSoFar ==
    [c \in Conns |-> IF Opened(c) THEN buffer[c] ELSE AllTables(Empty)]
AskedFor == [c \in Conns |-> Asked(c)]

Atomic == INSTANCE AtomicStore WITH
    store <- StoreSeen, open <- InTransaction, reads <- ReadSoFar,
    writes <- WrittenSoFar, asked <- AskedFor

(* begin() finds writes of an earlier transaction that has been rolled back. *)
BeginsWithOldWrites ==
    \E c \in Conns : ~inTxn[c] /\ inTxn'[c] /\ buffer[c] # AllTables(Empty)

(* Transactions are atomic and serializable, and what is rolled back leaves  *)
(* no trace, up to two things: a buffer that survives its transaction, and a *)
(* table that some thread unlocks or changes without holding it.             *)
ImplementsAtomicStore ==
    /\ Atomic!Init
    /\ [][\/ [Atomic!Next]_(Atomic!vars)
          \/ BeginsWithOldWrites
          \/ robbed' # {}]_vars

=============================================================================
