----------------------------- MODULE IdealCache -----------------------------
(***************************************************************************)
(* What csf_assign03 promises of a cache: a set of blocks per index, at    *)
(* most Ways of them, in the order in which they are to be evicted.  No    *)
(* lines, tags or timestamps.  A memory access is to a block; what it      *)
(* costs follows from whether the block is there, from the write policies  *)
(* and from whether an evicted block is dirty.                             *)
(***************************************************************************)
EXTENDS Integers, SequencesExt

CONSTANTS Configs, Blocks

VARIABLES
    config,   \* the policies and sizes in force
    order,    \* order[s]: the blocks of set s, next one to be evicted first
    dirty,    \* blocks whose last store has not reached memory
    misses,
    cycles

vars == <<config, order, dirty, misses, cycles>>

Home(b) == b % config.sets
Resident(b) == Contains(order[Home(b)], b)
Transfer == (config.block \div 4) * 100

Init ==
    /\ config \in Configs
    /\ order = [s \in 0 .. config.sets - 1 |-> <<>>]
    /\ dirty = {}
    /\ misses = 0
    /\ cycles = 0

Position(q, b) == CHOOSE k \in 1 .. Len(q) : q[k] = b

Used(b) ==
    IF config.repl = "lru"
    THEN [order EXCEPT ![Home(b)] = Append(RemoveAt(@, Position(@, b)), b)]
    ELSE order

Hit(b, store) ==
    /\ cycles' = cycles + IF store /\ ~ config.back THEN 101 ELSE 1
    /\ Resident(b)
    /\ dirty' = IF store /\ config.back THEN dirty \cup {b} ELSE dirty
    /\ order' = Used(b)
    /\ UNCHANGED <<config, misses>>

MissFilling(b, store) ==
    LET set == order[Home(b)]
        full == Len(set) = config.ways
        out == IF full THEN {Head(set)} ELSE {}
        stay == IF full THEN Tail(set) ELSE set
    IN  /\ misses' = misses + 1
        /\ store => config.alloc
        /\ ~ Resident(b)
        /\ cycles' = cycles + 1 + Transfer
                       + (IF out \cap dirty # {} THEN Transfer ELSE 0)
                       + (IF store /\ ~ config.back THEN 100 ELSE 0)
        /\ dirty' = (dirty \ out) \cup IF store /\ config.back THEN {b} ELSE {}
        /\ order' = [order EXCEPT ![Home(b)] = Append(stay, b)]
        /\ UNCHANGED config

MissAround(b) ==
    /\ misses' = misses + 1
    /\ ~ config.alloc
    /\ ~ Resident(b)
    /\ cycles' = cycles + 100
    /\ UNCHANGED <<config, order, dirty>>

Next ==
    \E b \in Blocks :
        \/ \E store \in BOOLEAN : Hit(b, store) \/ MissFilling(b, store)
        \/ MissAround(b)

Spec == Init /\ [][Next]_vars
=============================================================================
