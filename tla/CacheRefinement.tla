-------------------------- MODULE CacheRefinement --------------------------
(***************************************************************************)
(* CacheSim implements IdealCache: the lines of a set, read in the order   *)
(* of their timestamps (LRU) or from first_in on (FIFO), are the ideal     *)
(* queue of blocks.                                                        *)
(***************************************************************************)
EXTENDS CacheSim

Commands == {c \in Arguments : Accepted(c)}
BlockNumbers == {a \div c.block : a \in Addresses, c \in Commands}

BlockIn(s, i) == sets[s].lines[i].tag * config.sets + s

EvictedBefore(set, i, j) ==
    IF config.repl = "lru"
    THEN set.lines[i].access_time < set.lines[j].access_time
    ELSE (i - set.first_in) % config.ways < (j - set.first_in) % config.ways

Ahead(set, i) == {j \in Valid(set) : EvictedBefore(set, j, i)}

\* The k-th in the queue has k - 1 lines before it.
InQueue(set, k) == CHOOSE i \in Valid(set) : Cardinality(Ahead(set, i)) = k - 1

Queue(s) ==
    [k \in 1 .. Cardinality(Valid(sets[s])) |-> BlockIn(s, InQueue(sets[s], k))]

Order == [s \in SetIds |-> Queue(s)]

DirtyBlocks ==
    {BlockIn(x[1], x[2]) : x \in {y \in SetIds \X LineIds :
        sets[y[1]].lines[y[2]].valid /\ sets[y[1]].lines[y[2]].dirty}}

Ideal == INSTANCE IdealCache WITH
    Configs <- Commands,
    Blocks <- BlockNumbers,
    order <- Order,
    dirty <- DirtyBlocks,
    misses <- stats.load_misses + stats.store_misses,
    cycles <- stats.total_cycles

\* The simulator evicts, charges and counts as the cache of the header's
\* words does: access_memory() as a whole, over any trace that does not wrap
\* lru_counter.
ImplementsIdealCache == Ideal!Spec
=============================================================================
