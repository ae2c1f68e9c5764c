------------------------------ MODULE CacheSim ------------------------------
(***************************************************************************)
(* csf_assign03: a simulator of one level of cache, driven by a trace of   *)
(* loads and stores.  One action for each way through access_memory().     *)
(* load_time is 0 in every line and is left out; the printed statistics    *)
(* are the record stats.                                                   *)
(***************************************************************************)
EXTENDS Integers, FiniteSets

CONSTANTS
    Arguments,    \* the command lines: records of the six arguments
    Addresses,    \* the addresses in traces, below 2^AddressBits
    AddressBits,  \* 32: width of an address and of a tag
    CounterSize,  \* 2^32: lru_counter and access_time are modulo this
    MaxAccesses   \* bound on the length of a trace

ASSUME WidthsAssumption == /\ CounterSize \in Nat \ {0}
                           /\ AddressBits \in Nat \ {0}
                           /\ MaxAccesses \in Nat
ASSUME AddressesAssumption == Addresses \subseteq Nat
ASSUME ArgumentsAssumption ==
    Arguments \subseteq [sets : Nat, ways : Nat, block : Nat, alloc : BOOLEAN,
                         back : BOOLEAN, repl : {"lru", "fifo", "other"}]

VARIABLES
    config,   \* CacheSim::config
    sets,     \* CacheSim::sets: lines, lru_counter, first_in
    stats,    \* the seven counters
    unpaid    \* history: lines, by set and tag, with a store that has not
              \* been charged a write to memory

vars == <<config, sets, stats, unpaid>>

-----------------------------------------------------------------------------
TwoTo[n \in Nat] == IF n = 0 THEN 1 ELSE 2 * TwoTo[n - 1]

IsPowerOfTwo(x) == x > 0 /\ \E n \in 0 .. AddressBits - 1 : x = TwoTo[n]

\* parse_arguments()
Accepted(c) ==
    /\ c.repl \in {"lru", "fifo"}
    /\ IsPowerOfTwo(c.sets) /\ IsPowerOfTwo(c.ways) /\ IsPowerOfTwo(c.block)
    /\ c.block >= 4
    /\ c.alloc \/ ~ c.back

SetIds == 0 .. config.sets - 1
LineIds == 0 .. config.ways - 1

\* parse_address().  The shift count of the tag is a uint32_t of its own; the
\* processor takes it modulo the width of the address.
Ctz(x) == CHOOSE n \in 0 .. AddressBits - 1 : x = TwoTo[n]
\* Variant with a bug: the bits within the block are part of the index.
ByteIndex(addr) == addr % config.sets

SetIndex(addr) == (addr \div config.block) % config.sets
Tag(addr) == addr \div TwoTo[(Ctz(config.block) + Ctz(config.sets)) % AddressBits]

Transfer == (config.block \div 4) * 100

Tags == {0} \cup {Tag(a) : a \in Addresses}
Times == 0 .. CounterSize - 1

CacheLine == [tag : Tags, valid : BOOLEAN, dirty : BOOLEAN, access_time : Times]
CacheSet == [lines : [LineIds -> CacheLine], lru_counter : Times, first_in : LineIds]

NoLine == [tag |-> 0, valid |-> FALSE, dirty |-> FALSE, access_time |-> 0]

First(S) == CHOOSE i \in S : \A j \in S : i <= j

Tick(n) == (n + 1) % CounterSize

-----------------------------------------------------------------------------
(* The parts of a CacheSet.                                                *)

Valid(set) == {i \in LineIds : set.lines[i].valid}
Full(set) == Valid(set) = LineIds

\* Variant with a bug: looks at the first line only.
HoldingFirst(set, tag) == {i \in Valid(set) : i = 0 /\ set.lines[i].tag = tag}

Holding(set, tag) == {i \in Valid(set) : set.lines[i].tag = tag}

\* Variant with a bug: a hit does not count as a use.
FindUntouched(set, tag) == set

\* Variant with a bug: the counter does not go on.
FindAtSameTime(set, tag) ==
    IF config.repl = "lru"
    THEN [set EXCEPT !.lines[First(Holding(set, tag))].access_time = set.lru_counter]
    ELSE set

\* find_cache_line(): the effect of a hit.
Find(set, tag) ==
    IF config.repl = "lru"
    THEN [set EXCEPT !.lines[First(Holding(set, tag))].access_time = set.lru_counter,
                     !.lru_counter = Tick(@)]
    ELSE set

\* remove_line(): the line to use, ...
Oldest(set) ==
    First({i \in LineIds : \A j \in LineIds :
             set.lines[i].access_time <= set.lines[j].access_time})

Removed(set) ==
    IF ~ Full(set) THEN First(LineIds \ Valid(set))
    ELSE IF config.repl = "fifo" THEN set.first_in
    ELSE Oldest(set)

\* Variant with a bug: the index runs past the last line.
FirstInRunsOff(set) ==
    IF Full(set) /\ config.repl = "fifo" THEN set.first_in + 1 ELSE set.first_in

\* ... what it does to first_in, ...
FirstInAfter(set) ==
    IF Full(set) /\ config.repl = "fifo"
    THEN (set.first_in + 1) % config.ways
    ELSE set.first_in

\* Variant with a bug: a dirty line is dropped.
NotWrittenBack(set) == FALSE

\* ... and whether the line has to be written back.
WrittenBack(set) ==
    Full(set) /\ set.lines[Removed(set)].dirty /\ config.back

\* *remove_me = {tag, true, dirty, 0, cache_set.lru_counter++}
Filled(set, tag, dirty) ==
    [set EXCEPT !.lines[Removed(set)] = [tag |-> tag, valid |-> TRUE,
                                         dirty |-> dirty,
                                         access_time |-> set.lru_counter],
                !.lru_counter = Tick(@),
                !.first_in = FirstInAfter(set)]

-----------------------------------------------------------------------------
Init ==
    /\ config \in {c \in Arguments : Accepted(c)}
    /\ sets = [s \in SetIds |-> [lines |-> [i \in LineIds |-> NoLine],
                                 lru_counter |-> 0, first_in |-> 0]]
    /\ stats = [total_loads |-> 0, total_stores |-> 0, load_hits |-> 0,
                load_misses |-> 0, store_hits |-> 0, store_misses |-> 0,
                total_cycles |-> 0]
    /\ unpaid = {}

\* The trace goes on.
Access ==
    /\ stats.total_loads + stats.total_stores < MaxAccesses
    /\ UNCHANGED config

Hits(addr) == Holding(sets[SetIndex(addr)], Tag(addr)) # {}

Replace(addr, set) == sets' = [sets EXCEPT ![SetIndex(addr)] = set]

LoadHit(addr) ==
    /\ Access
    /\ Hits(addr)
    /\ Replace(addr, Find(sets[SetIndex(addr)], Tag(addr)))
    /\ stats' = [stats EXCEPT !.total_loads = @ + 1, !.load_hits = @ + 1,
                              !.total_cycles = @ + 1]
    /\ UNCHANGED unpaid

\* What a store pays later once the line in its way has been written back.
StillUnpaid(addr) ==
    LET s == SetIndex(addr) IN
    IF WrittenBack(sets[s])
    THEN unpaid \ {<<s, sets[s].lines[Removed(sets[s])].tag>>}
    ELSE unpaid

FillCost(addr) ==
    1 + Transfer + IF WrittenBack(sets[SetIndex(addr)]) THEN Transfer ELSE 0

LoadMiss(addr) ==
    /\ Access
    /\ ~ Hits(addr)
    /\ Replace(addr, Filled(sets[SetIndex(addr)], Tag(addr), FALSE))
    /\ stats' = [stats EXCEPT !.total_loads = @ + 1, !.load_misses = @ + 1,
                              !.total_cycles = @ + FillCost(addr)]
    /\ unpaid' = StillUnpaid(addr)

Stored(set, tag) ==
    IF config.back
    THEN [set EXCEPT !.lines[First(Holding(set, tag))].dirty = TRUE]
    ELSE set

StoreHit(addr) ==
    LET s == SetIndex(addr) IN
    /\ Access
    /\ Hits(addr)
    /\ Replace(addr, Stored(Find(sets[s], Tag(addr)), Tag(addr)))
    /\ stats' = [stats EXCEPT !.total_stores = @ + 1, !.store_hits = @ + 1,
                              !.total_cycles = @ + IF config.back THEN 1 ELSE 101]
    /\ unpaid' = IF config.back THEN unpaid \cup {<<s, Tag(addr)>>} ELSE unpaid

StoreMissAllocate(addr) ==
    LET s == SetIndex(addr) IN
    /\ Access
    /\ ~ Hits(addr)
    /\ config.alloc
    /\ Replace(addr, Filled(sets[s], Tag(addr), config.back))
    /\ stats' = [stats EXCEPT
                   !.total_stores = @ + 1, !.store_misses = @ + 1,
                   !.total_cycles = @ + (FillCost(addr) + (IF config.back THEN 0 ELSE 100))]
    /\ unpaid' = StillUnpaid(addr) \cup IF config.back THEN {<<s, Tag(addr)>>} ELSE {}

StoreMissAround(addr) ==
    /\ Access
    /\ ~ Hits(addr)
    /\ ~ config.alloc
    /\ stats' = [stats EXCEPT !.total_stores = @ + 1, !.store_misses = @ + 1,
                              !.total_cycles = @ + 100]
    /\ UNCHANGED <<sets, unpaid>>

Next ==
    \E addr \in Addresses :
        \/ LoadHit(addr)
        \/ LoadMiss(addr)
        \/ StoreHit(addr)
        \/ StoreMissAllocate(addr)
        \/ StoreMissAround(addr)

Spec == Init /\ [][Next]_vars

-----------------------------------------------------------------------------
(* Properties.                                                             *)

\* Every variable keeps its type; first_in is the index of a line.
CacheTypeOK ==
    /\ config \in Arguments
    /\ sets \in [SetIds -> CacheSet]
    /\ stats \in [total_loads : Nat, total_stores : Nat, load_hits : Nat,
                  load_misses : Nat, store_hits : Nat, store_misses : Nat,
                  total_cycles : Nat]
    /\ unpaid \subseteq SetIds \X Tags

\* No block is in two lines of its set: a store would mark one of them
\* and the other would answer later loads (find_cache_line takes the first).
Distinct(set) ==
    \A i, j \in Valid(set) : set.lines[i].tag = set.lines[j].tag => i = j
NoDuplicates == \A s \in SetIds : Distinct(sets[s])

\* The dirty lines are those with a store that memory has not been charged
\* for: no store is lost on eviction and none is paid for twice (remove_line).
DirtyTags(set) == {set.lines[i].tag : i \in {j \in Valid(set) : set.lines[j].dirty}}
DirtyIsUnpaid ==
    unpaid = {x \in SetIds \X Tags : x[2] \in DirtyTags(sets[x[1]])}

\* As long as lru_counter has not wrapped, no two valid lines of a set were
\* used at the same time and none in the future, so that the minimum that
\* remove_line looks for is unique.
InOrder(set) ==
    \A i \in Valid(set) :
        /\ set.lines[i].access_time < set.lru_counter
        /\ \A j \in Valid(set) :
             set.lines[i].access_time = set.lines[j].access_time => i = j
TimesDistinct == \A s \in SetIds : InOrder(sets[s])

\* A block is found at all of its addresses or at none ("number of bytes in
\* each block", cache_sim.h:41).  The command line may leave no bits for the
\* tag; then tags are whole addresses and a block is many (parse_address).
TagHasBits == Ctz(config.block) + Ctz(config.sets) < AddressBits
BlockOf(addr) == addr \div config.block
BlocksAreWhole ==
    TagHasBits =>
        \A a, b \in Addresses : BlockOf(a) = BlockOf(b) => (Hits(a) <=> Hits(b))
=============================================================================
