----------------------------- MODULE MCCacheSim -----------------------------
(* Instances of CacheRefinement for TLC: command lines and addresses.      *)
EXTENDS CacheRefinement

\* Two sets of two lines with every combination of policies, the
\* refused ones included, and an LRU set of four lines.
AllPolicies ==
    [sets : {2}, ways : {2}, block : {8}, alloc : BOOLEAN, back : BOOLEAN,
     repl : {"lru", "fifo", "other"}]
    \cup
    [sets : {1}, ways : {4}, block : {4}, alloc : {TRUE}, back : {TRUE},
     repl : {"lru"}]

\* With blocks of 8 bytes: three blocks of the even set, one of them at two
\* addresses, and one of the odd set.  With blocks of 4 bytes: five blocks.
FewAddresses == {0, 5, 16, 32, 8}
=============================================================================
