--------------------------- MODULE MCIncrClients ---------------------------
(* A handful of incr_value processes: their number bounds the count.        *)
EXTENDS IncrClients

Counts == 0 .. Cardinality(Conns)
AnyMode == SUBSET Conns
AllTransactional == {Conns}

=============================================================================
