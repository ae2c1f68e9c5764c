----------------------------- MODULE MCParSort -----------------------------
(* Instances of ParSort for TLC: files and thresholds.                     *)
EXTENDS ParSort

\* Reversed, with duplicates across the halves, and with its halves already
\* in order but not the whole.
Mixed(n) ==
    {[i \in 0 .. n - 1 |-> n - i],
     [i \in 0 .. n - 1 |-> i % 2],
     [i \in 0 .. n - 1 |-> (i + n \div 2) % n]}

\* Uneven halves sorted by qsort(); a process for every element; a file
\* without elements; a threshold that never stops the splitting.
ManyJobs ==
    (Mixed(7) \X {3}) \cup (Mixed(4) \X {1}) \cup
    {<<[i \in {} |-> 0], 1>>} \cup (Mixed(1) \X {0})

OneJob == {<<[i \in 0 .. 2 |-> 3 - i], 1>>}
=============================================================================
