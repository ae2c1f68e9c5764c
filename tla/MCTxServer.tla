---------------------------- MODULE MCTxServer ----------------------------
(* TxServer on small instances: model values for the names, one cfg per     *)
(* workload.  Names and values are interchangeable, connections too.        *)
EXTENDS StoreRefinement, TLC

Symmetry == Permutations(Conns) \cup Permutations(Tables)
                \cup Permutations(Vals)

(* The invariants about a table say nothing once it is in `robbed`, and      *)
(* `robbed` only grows: with one table nothing is lost by stopping there.    *)
Unrobbed == robbed = {}

=============================================================================
