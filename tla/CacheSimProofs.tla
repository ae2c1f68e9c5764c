--------------------------- MODULE CacheSimProofs ---------------------------
(***************************************************************************)
(* Theorems about CacheSim, for every cache that parse_arguments accepts,  *)
(* any width of the counters and traces of any length: a block is in one   *)
(* line, stores are paid for, timestamps are distinct, and the simulator   *)
(* implements IdealCache under the mapping of CacheRefinement.             *)
(***************************************************************************)
EXTENDS CacheRefinement, SequenceTheorems, FiniteSetTheorems, WellFoundedInduction,
        TLAPS

-----------------------------------------------------------------------------
(* Least elements.                                                         *)

\* A set of numbers below a bound has a least element.  The initial segments
\* of the set are ordered by strict inclusion, which is well founded.
LEMMA LeastExists ==
    ASSUME NEW n \in Nat, NEW S, S \subseteq 0 .. n, S # {}
    PROVE  \E i \in S : \A j \in S : i <= j
<1> DEFINE Up(i) == S \cap (0 .. i)
           T == {Up(i) : i \in S}
<1>1. IsFiniteSet(S)
  <2>1. IsFiniteSet(0 .. n)
    BY FS_Interval
  <2> QED
    BY <2>1, FS_Subset
<1>2. IsWellFoundedOn(StrictSubsetOrdering(S), FiniteSubsetsOf(S))
  BY FS_StrictSubsetOrderingWellFounded
<1>3. T \subseteq FiniteSubsetsOf(S)
  BY <1>1, FS_Subset DEF FiniteSubsetsOf
<1>4. T # {}
  OBVIOUS
<1>5. \E x \in T : \A y \in T : <<y, x>> \notin StrictSubsetOrdering(S)
  BY <1>2, <1>3, <1>4, WFMin
<1>6. PICK i \in S : \A y \in T : <<y, Up(i)>> \notin StrictSubsetOrdering(S)
  BY <1>5
<1>7. ASSUME NEW j \in S, j < i
      PROVE  FALSE
  <2>1. /\ i \in Int /\ j \in Int
        /\ i >= 0 /\ j >= 0
    OBVIOUS
  <2>2. Up(j) \subseteq Up(i)
    BY <1>7, <2>1
  <2>3. i \in Up(i) /\ i \notin Up(j)
    BY <1>7, <2>1
  <2>4. <<Up(j), Up(i)>> \in StrictSubsetOrdering(S)
    BY <2>2, <2>3 DEF StrictSubsetOrdering
  <2> QED
    BY <1>6, <2>4
<1>8. \A j \in S : i <= j
  BY <1>7
<1> QED
  BY <1>8

LEMMA FirstIsIn ==
    ASSUME NEW n \in Nat, NEW S, S \subseteq 0 .. n, S # {}
    PROVE  First(S) \in S
BY LeastExists DEF First

-----------------------------------------------------------------------------
(* The configuration.                                                      *)

ConfigOK == config \in Arguments /\ Accepted(config)

LEMMA ConfigFacts ==
    ASSUME ConfigOK
    PROVE  /\ config.sets \in Nat \ {0}
           /\ config.ways \in Nat \ {0}
           /\ config.block \in Nat \ {0}
           /\ config.back \in BOOLEAN /\ config.alloc \in BOOLEAN
           /\ config.repl \in {"lru", "fifo"}
           /\ LineIds = 0 .. config.ways - 1
           /\ config.ways - 1 \in Nat
           /\ Transfer \in Nat
<1>1. config \in [sets : Nat, ways : Nat, block : Nat, alloc : BOOLEAN,
                  back : BOOLEAN, repl : {"lru", "fifo", "other"}]
  BY ArgumentsAssumption DEF ConfigOK
<1>2. config.block \div 4 \in Nat
  BY <1>1
<1> QED
  BY <1>1, <1>2 DEF ConfigOK, Accepted, IsPowerOfTwo, LineIds, Transfer

LEMMA AddressFacts ==
    ASSUME ConfigOK, NEW addr \in Addresses
    PROVE  SetIndex(addr) \in SetIds /\ Tag(addr) \in Tags
<1>1. addr \in Nat
  BY AddressesAssumption
<1>2. addr \div config.block \in Int
  BY <1>1, ConfigFacts
<1>3. SetIndex(addr) \in 0 .. config.sets - 1
  BY <1>2, ConfigFacts DEF SetIndex
<1> QED
  BY <1>3 DEF SetIds, Tags

-----------------------------------------------------------------------------
(* What the parts of a CacheSet return.                                    *)

LEMMA TickType == \A n \in Times : Tick(n) \in Times
BY WidthsAssumption DEF Tick, Times

LEMMA FoundLine ==
    ASSUME ConfigOK, NEW set \in CacheSet, NEW tag, Holding(set, tag) # {}
    PROVE  First(Holding(set, tag)) \in Holding(set, tag)
<1>1. Holding(set, tag) \subseteq 0 .. config.ways - 1
  BY ConfigFacts DEF Holding, Valid
<1> QED
  BY <1>1, ConfigFacts, FirstIsIn

LEMMA OldestLine ==
    ASSUME ConfigOK, NEW set \in CacheSet
    PROVE  Oldest(set) \in {i \in LineIds : \A j \in LineIds :
                              set.lines[i].access_time <= set.lines[j].access_time}
<1> DEFINE T == {set.lines[i].access_time : i \in LineIds}
           O == {i \in LineIds : \A j \in LineIds :
                   set.lines[i].access_time <= set.lines[j].access_time}
<1>1. T \subseteq 0 .. CounterSize - 1
  BY DEF CacheSet, CacheLine, Times
<1>2. T # {}
  <2>1. 0 \in LineIds
    BY ConfigFacts
  <2>2. set.lines[0].access_time \in T
    BY <2>1
  <2> QED
    BY <2>2
<1>3. CounterSize - 1 \in Nat
  BY WidthsAssumption
<1>4. \E t \in T : \A u \in T : t <= u
  BY <1>1, <1>2, <1>3, LeastExists
<1>5. O # {}
  BY <1>4
<1>6. O \subseteq 0 .. config.ways - 1
  BY ConfigFacts
<1>7. First(O) \in O
  BY <1>5, <1>6, ConfigFacts, FirstIsIn
<1> QED
  BY <1>7 DEF Oldest

LEMMA RemovedLine ==
    ASSUME ConfigOK, NEW set \in CacheSet
    PROVE  /\ Removed(set) \in LineIds
           /\ ~ Full(set) => Removed(set) \notin Valid(set)
<1>1. CASE ~ Full(set)
  <2>1. LineIds \ Valid(set) # {}
    BY <1>1 DEF Full, Valid
  <2>2. First(LineIds \ Valid(set)) \in LineIds \ Valid(set)
    BY <2>1, ConfigFacts, FirstIsIn
  <2> QED
    BY <1>1, <2>2 DEF Removed
<1>2. CASE Full(set)
  BY <1>2, OldestLine DEF Removed, CacheSet
<1> QED
  BY <1>1, <1>2

\* A dirty line is one of a write-back cache.
DirtyNeedsBack(set) == \A i \in Valid(set) : set.lines[i].dirty => config.back

\* Two states of a set that hold the same blocks.
SameBlocks(set, new) ==
    \A i \in LineIds : /\ new.lines[i].tag = set.lines[i].tag
                       /\ new.lines[i].valid = set.lines[i].valid

LEMMA SameBlocksDistinct ==
    ASSUME NEW set, NEW new, SameBlocks(set, new), Distinct(set)
    PROVE  Distinct(new)
BY DEF SameBlocks, Distinct, Valid

LEMMA FindFacts ==
    ASSUME ConfigOK, NEW set \in CacheSet, NEW tag, Holding(set, tag) # {}
    PROVE  /\ Find(set, tag) \in CacheSet
           /\ SameBlocks(set, Find(set, tag))
           /\ \A i \in LineIds : Find(set, tag).lines[i].dirty = set.lines[i].dirty
           /\ \/ Find(set, tag) = set
              \/ /\ Find(set, tag).lru_counter = Tick(set.lru_counter)
                 /\ \A i \in LineIds :
                      Find(set, tag).lines[i].access_time =
                        IF i = First(Holding(set, tag))
                        THEN set.lru_counter ELSE set.lines[i].access_time
<1> DEFINE f == First(Holding(set, tag))
<1>1. f \in LineIds
  BY FoundLine DEF Holding, Valid
<1>2. CASE config.repl = "lru"
  <2> DEFINE line == [set.lines[f] EXCEPT !.access_time = set.lru_counter]
  <2>1. /\ set.lines \in [LineIds -> CacheLine]
        /\ set.lru_counter \in Times
        /\ set.first_in \in LineIds
    BY DEF CacheSet
  <2>2. line \in CacheLine /\ line.tag = set.lines[f].tag
                           /\ line.valid = set.lines[f].valid
                           /\ line.dirty = set.lines[f].dirty
                           /\ line.access_time = set.lru_counter
    BY <1>1, <2>1 DEF CacheLine
  <2>3. Find(set, tag) = [set EXCEPT !.lines = [set.lines EXCEPT ![f] = line],
                                     !.lru_counter = Tick(set.lru_counter)]
    BY <1>2, <1>1, <2>1 DEF Find, CacheSet, CacheLine
  <2>4. Tick(set.lru_counter) \in Times
    BY <2>1, TickType
  <2> HIDE DEF line
  <2>5. [set.lines EXCEPT ![f] = line] \in [LineIds -> CacheLine]
    BY <1>1, <2>1, <2>2
  <2>6. Find(set, tag) \in CacheSet
    BY <2>1, <2>3, <2>4, <2>5 DEF CacheSet
  <2>7. /\ Find(set, tag).lines = [set.lines EXCEPT ![f] = line]
        /\ Find(set, tag).lru_counter = Tick(set.lru_counter)
    BY <2>3 DEF CacheSet
  <2> QED
    BY <1>1, <2>1, <2>2, <2>6, <2>7 DEF SameBlocks
<1>3. CASE config.repl # "lru"
  BY <1>3 DEF Find, SameBlocks
<1> QED
  BY <1>2, <1>3

LEMMA StoredFacts ==
    ASSUME ConfigOK, NEW set \in CacheSet, NEW tag, Holding(set, tag) # {}
    PROVE  /\ Stored(set, tag) \in CacheSet
           /\ SameBlocks(set, Stored(set, tag))
           /\ \A i \in LineIds :
                Stored(set, tag).lines[i].dirty =
                  IF config.back /\ i = First(Holding(set, tag))
                  THEN TRUE ELSE set.lines[i].dirty
           /\ Stored(set, tag).lru_counter = set.lru_counter
           /\ \A i \in LineIds :
                Stored(set, tag).lines[i].access_time = set.lines[i].access_time
<1> DEFINE f == First(Holding(set, tag))
<1>1. f \in LineIds
  BY FoundLine DEF Holding, Valid
<1>2. CASE config.back
  <2> DEFINE line == [set.lines[f] EXCEPT !.dirty = TRUE]
  <2>1. set.lines \in [LineIds -> CacheLine]
    BY DEF CacheSet
  <2>2. line \in CacheLine /\ line.tag = set.lines[f].tag
                           /\ line.valid = set.lines[f].valid
                           /\ line.dirty = TRUE
                           /\ line.access_time = set.lines[f].access_time
    BY <1>1, <2>1 DEF CacheLine
  <2>3. Stored(set, tag) = [set EXCEPT !.lines = [set.lines EXCEPT ![f] = line]]
    BY <1>2, <1>1, <2>1 DEF Stored, CacheSet, CacheLine
  <2> HIDE DEF line
  <2>4. [set.lines EXCEPT ![f] = line] \in [LineIds -> CacheLine]
    BY <1>1, <2>1, <2>2
  <2>5. Stored(set, tag) \in CacheSet
    BY <2>3, <2>4 DEF CacheSet
  <2>6. /\ Stored(set, tag).lines = [set.lines EXCEPT ![f] = line]
        /\ Stored(set, tag).lru_counter = set.lru_counter
    BY <2>3 DEF CacheSet
  <2> QED
    BY <1>1, <1>2, <2>1, <2>2, <2>5, <2>6 DEF SameBlocks
<1>3. CASE ~ config.back
  BY <1>3 DEF Stored, SameBlocks
<1> QED
  BY <1>2, <1>3

LEMMA FilledFacts ==
    ASSUME ConfigOK, NEW set \in CacheSet, NEW tag \in Tags, NEW dirty \in BOOLEAN
    PROVE  /\ Filled(set, tag, dirty) \in CacheSet
           /\ Filled(set, tag, dirty).lines =
                [set.lines EXCEPT ![Removed(set)] =
                    [tag |-> tag, valid |-> TRUE, dirty |-> dirty,
                     access_time |-> set.lru_counter]]
           /\ Filled(set, tag, dirty).lru_counter = Tick(set.lru_counter)
<1> DEFINE line == [tag |-> tag, valid |-> TRUE, dirty |-> dirty,
                    access_time |-> set.lru_counter]
           lines == [set.lines EXCEPT ![Removed(set)] = line]
<1>1. /\ set.lines \in [LineIds -> CacheLine]
      /\ set.lru_counter \in Times
      /\ set.first_in \in LineIds
  BY DEF CacheSet
<1>2. line \in CacheLine
  BY <1>1 DEF CacheLine
<1>3. lines \in [LineIds -> CacheLine]
  BY <1>1, <1>2, RemovedLine
<1>4. FirstInAfter(set) \in LineIds
  BY <1>1, ConfigFacts DEF FirstInAfter
<1>5. Tick(set.lru_counter) \in Times
  BY <1>1, TickType
<1>6. Filled(set, tag, dirty) = [set EXCEPT !.lines = lines,
                                   !.lru_counter = Tick(set.lru_counter),
                                   !.first_in = FirstInAfter(set)]
  BY DEF Filled, CacheSet
<1> HIDE DEF lines
<1>7. Filled(set, tag, dirty) = [lines |-> lines,
                                 lru_counter |-> Tick(set.lru_counter),
                                 first_in |-> FirstInAfter(set)]
  BY <1>6 DEF CacheSet
<1>8. Filled(set, tag, dirty) \in CacheSet
  BY <1>3, <1>4, <1>5, <1>7 DEF CacheSet
<1> QED
  BY <1>7, <1>8 DEF lines

-----------------------------------------------------------------------------
(* The inductive invariant, for one set and for all of them.  Without      *)
(* DirtyNeedsBack a line that is evicted without a charge could be dirty.  *)

SetOK(set) ==
    /\ set \in CacheSet
    /\ Distinct(set)
    /\ DirtyNeedsBack(set)

CacheInv ==
    /\ ConfigOK
    /\ CacheTypeOK
    /\ \A s \in SetIds : SetOK(sets[s])
    /\ DirtyIsUnpaid

\* A hit by a load.
LEMMA FindKeeps ==
    ASSUME ConfigOK, NEW set, SetOK(set), NEW tag, Holding(set, tag) # {}
    PROVE  /\ SetOK(Find(set, tag))
           /\ DirtyTags(Find(set, tag)) = DirtyTags(set)
           /\ Holding(Find(set, tag), tag) # {}
<1>1. /\ Find(set, tag) \in CacheSet
      /\ SameBlocks(set, Find(set, tag))
      /\ \A i \in LineIds : Find(set, tag).lines[i].dirty = set.lines[i].dirty
  BY FindFacts DEF SetOK
<1> DEFINE new == Find(set, tag)
<1> HIDE DEF new
<1>2. Distinct(new)
  BY <1>1, SameBlocksDistinct DEF SetOK, new
<1>3. DirtyNeedsBack(new)
  BY <1>1 DEF SetOK, DirtyNeedsBack, SameBlocks, Valid, new
<1>4. DirtyTags(new) = DirtyTags(set)
  BY <1>1 DEF DirtyTags, SameBlocks, Valid, new
<1>5. Holding(new, tag) # {}
  BY <1>1 DEF Holding, SameBlocks, Valid, new
<1> QED
  BY <1>1, <1>2, <1>3, <1>4, <1>5 DEF SetOK, new

\* A hit by a store.
LEMMA StoredKeeps ==
    ASSUME ConfigOK, NEW set, SetOK(set), NEW tag, Holding(set, tag) # {}
    PROVE  /\ SetOK(Stored(set, tag))
           /\ DirtyTags(Stored(set, tag)) =
                IF config.back THEN DirtyTags(set) \cup {tag} ELSE DirtyTags(set)
<1> DEFINE f == First(Holding(set, tag))
           new == Stored(set, tag)
<1>1. /\ new \in CacheSet
      /\ SameBlocks(set, new)
      /\ \A i \in LineIds : new.lines[i].dirty =
           IF config.back /\ i = f THEN TRUE ELSE set.lines[i].dirty
  BY StoredFacts DEF SetOK
<1>2. f \in Valid(set) /\ set.lines[f].tag = tag /\ f \in LineIds
  BY FoundLine DEF SetOK, Holding, Valid
<1> HIDE DEF new, f
<1>3. Distinct(new)
  BY <1>1, SameBlocksDistinct DEF SetOK
<1>4. DirtyNeedsBack(new)
  BY <1>1 DEF SetOK, DirtyNeedsBack, SameBlocks, Valid
<1>5. ASSUME config.back
      PROVE  DirtyTags(new) = DirtyTags(set) \cup {tag}
  <2>1. \A i \in LineIds : i \in Valid(new) <=> i \in Valid(set)
    BY <1>1 DEF SameBlocks, Valid
  <2>2. DirtyTags(new) \subseteq DirtyTags(set) \cup {tag}
    BY <1>1, <1>2, <2>1, ZenonT(30) DEF DirtyTags, SameBlocks, Valid
  <2>3. tag \in DirtyTags(new)
    BY <1>1, <1>2, <1>5, <2>1 DEF DirtyTags, SameBlocks
  <2>4. DirtyTags(set) \subseteq DirtyTags(new)
    BY <1>1, <2>1 DEF DirtyTags, SameBlocks, Valid
  <2> QED
    BY <2>2, <2>3, <2>4
<1>6. ASSUME ~ config.back
      PROVE  DirtyTags(new) = DirtyTags(set)
  BY <1>1, <1>6 DEF DirtyTags, SameBlocks, Valid
<1> QED
  BY <1>1, <1>3, <1>4, <1>5, <1>6 DEF SetOK, new

\* A miss that brings a block in.
LEMMA FilledKeeps ==
    ASSUME ConfigOK, NEW set, SetOK(set), NEW tag \in Tags, NEW dirty \in BOOLEAN,
           Holding(set, tag) = {}, dirty => config.back
    PROVE  /\ SetOK(Filled(set, tag, dirty))
           /\ DirtyTags(Filled(set, tag, dirty)) =
                (IF WrittenBack(set)
                 THEN DirtyTags(set) \ {set.lines[Removed(set)].tag}
                 ELSE DirtyTags(set))
                \cup (IF dirty THEN {tag} ELSE {})
<1> DEFINE r == Removed(set)
           new == Filled(set, tag, dirty)
           line == [tag |-> tag, valid |-> TRUE, dirty |-> dirty,
                    access_time |-> set.lru_counter]
<1>1. new \in CacheSet /\ new.lines = [set.lines EXCEPT ![r] = line]
  BY FilledFacts DEF SetOK
<1>2. r \in LineIds /\ (~ Full(set) => r \notin Valid(set))
  BY RemovedLine DEF SetOK
<1>3. set.lines \in [LineIds -> CacheLine]
  BY DEF SetOK, CacheSet
<1>4. line.tag = tag /\ line.valid = TRUE /\ line.dirty = dirty
  OBVIOUS
<1> HIDE DEF new, r, line
<1>5. /\ new.lines[r] = line
      /\ \A i \in LineIds \ {r} : new.lines[i] = set.lines[i]
  BY <1>1, <1>2, <1>3
<1>6. /\ r \in Valid(new)
      /\ \A i \in LineIds \ {r} : i \in Valid(new) <=> i \in Valid(set)
  BY <1>2, <1>4, <1>5 DEF Valid
<1>7. \A i \in Valid(set) : set.lines[i].tag # tag
  BY DEF Holding
<1>8. Distinct(new)
  <2> SUFFICES ASSUME NEW i \in Valid(new), NEW j \in Valid(new),
                      new.lines[i].tag = new.lines[j].tag
               PROVE  i = j
    BY DEF Distinct
  <2>1. i \in LineIds /\ j \in LineIds
    BY DEF Valid
  <2>2. CASE i = r \/ j = r
    BY <1>4, <1>5, <1>6, <1>7, <2>1, <2>2
  <2>3. CASE i # r /\ j # r
    <3>1. i \in Valid(set) /\ j \in Valid(set)
      BY <1>6, <2>1, <2>3
    <3>2. set.lines[i].tag = set.lines[j].tag
      BY <1>5, <2>1, <2>3
    <3> QED
      BY <3>1, <3>2 DEF SetOK, Distinct
  <2> QED
    BY <2>2, <2>3
<1>9. DirtyNeedsBack(new)
  <2> SUFFICES ASSUME NEW i \in Valid(new), new.lines[i].dirty
               PROVE  config.back
    BY DEF DirtyNeedsBack
  <2>1. CASE i = r
    BY <1>4, <1>5, <2>1
  <2>2. CASE i # r
    BY <1>5, <1>6, <2>2 DEF SetOK, DirtyNeedsBack, Valid
  <2> QED
    BY <2>1, <2>2
<1> DEFINE Others == {set.lines[i].tag : i \in {j \in Valid(set) \ {r} : set.lines[j].dirty}}
<1>10. DirtyTags(new) = Others \cup (IF dirty THEN {tag} ELSE {})
  <2>1. \A t : t \in DirtyTags(new) <=>
          \E i \in LineIds : i \in Valid(new) /\ new.lines[i].dirty /\ new.lines[i].tag = t
    BY DEF DirtyTags, Valid
  <2>2. \A t : t \in Others <=>
          \E i \in LineIds : i # r /\ i \in Valid(set) /\ set.lines[i].dirty /\ set.lines[i].tag = t
    BY DEF Valid
  <2> HIDE DEF Others
  <2>3. \A t : t \in DirtyTags(new) <=> (t \in Others \/ (dirty /\ t = tag))
    BY <1>2, <1>4, <1>5, <1>6, <2>1, <2>2
  <2> QED
    BY <2>3
<1>11. Others = IF WrittenBack(set) THEN DirtyTags(set) \ {set.lines[r].tag}
                                    ELSE DirtyTags(set)
  <2>1. \A i, j \in Valid(set) : set.lines[i].tag = set.lines[j].tag => i = j
    BY DEF SetOK, Distinct
  <2>2. CASE WrittenBack(set)
    <3>1. r \in Valid(set)
      BY <1>2, <2>2 DEF WrittenBack, Full
    <3> QED
      BY <2>1, <2>2, <3>1 DEF DirtyTags
  <2>3. CASE ~ WrittenBack(set)
    <3>1. ~ (r \in Valid(set) /\ set.lines[r].dirty)
      BY <1>2, <2>3 DEF WrittenBack, SetOK, DirtyNeedsBack, r
    <3> QED
      BY <2>3, <3>1 DEF DirtyTags
  <2> QED
    BY <2>2, <2>3
<1> QED
  BY <1>1, <1>8, <1>9, <1>10, <1>11 DEF SetOK, new, r

-----------------------------------------------------------------------------
(* Invariance.                                                             *)

LEMMA CacheInvInit == Init => CacheInv
<1> SUFFICES ASSUME Init PROVE CacheInv
  OBVIOUS
<1> USE DEF Init
<1>1. ConfigOK
  BY DEF ConfigOK
<1> DEFINE set == [lines |-> [i \in LineIds |-> NoLine], lru_counter |-> 0, first_in |-> 0]
<1>2. 0 \in Times /\ 0 \in LineIds
  BY <1>1, WidthsAssumption, ConfigFacts DEF Times
<1>3. NoLine \in CacheLine /\ NoLine.valid = FALSE
  BY <1>2 DEF NoLine, CacheLine, Tags
<1>4. set \in CacheSet /\ Valid(set) = {}
  BY <1>2, <1>3 DEF CacheSet, Valid
<1> HIDE DEF set
<1>5. SetOK(set)
  BY <1>4 DEF SetOK, Distinct, DirtyNeedsBack
<1>6. \A s \in SetIds : sets[s] = set
  BY DEF set
<1>7. DirtyTags(set) = {}
  BY <1>4 DEF DirtyTags
<1>8. DirtyIsUnpaid
  BY <1>6, <1>7 DEF DirtyIsUnpaid
<1>9. CacheTypeOK
  <2>1. sets \in [SetIds -> CacheSet]
    BY <1>4 DEF set
  <2> QED
    BY <2>1 DEF CacheTypeOK
<1> QED
  BY <1>1, <1>5, <1>6, <1>8, <1>9 DEF CacheInv

\* The type of the statistics, in one name.
StatsType == [total_loads : Nat, total_stores : Nat, load_hits : Nat,
              load_misses : Nat, store_hits : Nat, store_misses : Nat,
              total_cycles : Nat]

\* Replacing one set by another that is in order, and changing what is unpaid
\* there in the same way, keeps the invariant.
LEMMA ReplaceKeeps ==
    ASSUME CacheInv, UNCHANGED config, NEW s \in SetIds, NEW new, SetOK(new),
           sets' = [sets EXCEPT ![s] = new],
           unpaid' \subseteq SetIds \X Tags,
           \A x \in SetIds \X Tags :
             x \in unpaid' <=> IF x[1] = s THEN x[2] \in DirtyTags(new) ELSE x \in unpaid,
           stats' \in StatsType
    PROVE  CacheInv'
<1> USE DEF CacheInv
<1>1. /\ ConfigOK'
      /\ SetIds' = SetIds /\ LineIds' = LineIds /\ Tags' = Tags /\ CacheSet' = CacheSet
  BY DEF ConfigOK, SetIds, LineIds, Tags, Tag, CacheSet, CacheLine
<1>2. sets \in [SetIds -> CacheSet]
  BY DEF CacheTypeOK
<1>3. new \in CacheSet
  BY DEF SetOK
<1>4. \A q \in SetIds : sets'[q] = IF q = s THEN new ELSE sets[q]
  BY <1>2
<1>5. sets' \in [SetIds -> CacheSet]
  BY <1>2, <1>3
<1>6. CacheTypeOK'
  BY <1>1, <1>5 DEF CacheTypeOK, StatsType
<1>7. ASSUME NEW q \in SetIds
      PROVE  SetOK(sets[q])'
  <2>1. SetOK(sets'[q])
    BY <1>4
  <2> QED
    BY <1>1, <2>1 DEF SetOK, Distinct, DirtyNeedsBack, Valid
<1>8. \A x \in SetIds \X Tags : x \in unpaid' <=> x[2] \in DirtyTags(sets'[x[1]])
  <2> SUFFICES ASSUME NEW x \in SetIds \X Tags
               PROVE  x \in unpaid' <=> x[2] \in DirtyTags(sets'[x[1]])
    OBVIOUS
  <2>1. x \in unpaid <=> x[2] \in DirtyTags(sets[x[1]])
    BY DEF DirtyIsUnpaid
  <2> QED
    BY <1>4, <2>1
<1>9. \A q \in SetIds : DirtyTags(sets[q])' = DirtyTags(sets'[q])
  BY <1>1 DEF DirtyTags, Valid
<1>10. DirtyIsUnpaid'
  BY <1>1, <1>8, <1>9 DEF DirtyIsUnpaid
<1> QED
  BY <1>1, <1>6, <1>7, <1>10

LEMMA UnpaidBySet ==
    ASSUME CacheInv, NEW x \in SetIds \X Tags
    PROVE  x \in unpaid <=> x[2] \in DirtyTags(sets[x[1]])
BY DEF CacheInv, DirtyIsUnpaid

LEMMA FillCostType ==
    ASSUME CacheInv, NEW addr
    PROVE  FillCost(addr) \in Nat
BY ConfigFacts DEF CacheInv, FillCost

LEMMA StatsKeepType ==
    ASSUME NEW st \in StatsType, NEW n \in Nat
    PROVE  /\ [st EXCEPT !.total_loads = @ + 1] \in StatsType
           /\ [st EXCEPT !.total_stores = @ + 1] \in StatsType
           /\ [st EXCEPT !.load_hits = @ + 1] \in StatsType
           /\ [st EXCEPT !.load_misses = @ + 1] \in StatsType
           /\ [st EXCEPT !.store_hits = @ + 1] \in StatsType
           /\ [st EXCEPT !.store_misses = @ + 1] \in StatsType
           /\ [st EXCEPT !.total_cycles = @ + n] \in StatsType
<1>1. /\ st.total_loads + 1 \in Nat /\ st.total_stores + 1 \in Nat
      /\ st.load_hits + 1 \in Nat /\ st.load_misses + 1 \in Nat
      /\ st.store_hits + 1 \in Nat /\ st.store_misses + 1 \in Nat
      /\ st.total_cycles + n \in Nat
  BY DEF StatsType
<1> QED
  BY <1>1 DEF StatsType

LEMMA StatsAdded ==
    ASSUME stats \in StatsType, NEW n \in Nat
    PROVE  /\ [stats EXCEPT !.total_loads = @ + 1, !.load_hits = @ + 1,
                            !.total_cycles = @ + n] \in StatsType
           /\ [stats EXCEPT !.total_loads = @ + 1, !.load_misses = @ + 1,
                            !.total_cycles = @ + n] \in StatsType
           /\ [stats EXCEPT !.total_stores = @ + 1, !.store_hits = @ + 1,
                            !.total_cycles = @ + n] \in StatsType
           /\ [stats EXCEPT !.total_stores = @ + 1, !.store_misses = @ + 1,
                            !.total_cycles = @ + n] \in StatsType
<1>1. [stats EXCEPT !.total_loads = @ + 1, !.load_hits = @ + 1,
                   !.total_cycles = @ + n] \in StatsType
  <2> DEFINE a == [stats EXCEPT !.total_loads = @ + 1]
             b == [a EXCEPT !.load_hits = @ + 1]
  <2>1. a \in StatsType
    BY StatsKeepType
  <2> HIDE DEF a
  <2>2. b \in StatsType
    BY <2>1, StatsKeepType
  <2> HIDE DEF b
  <2>3. [b EXCEPT !.total_cycles = @ + n] \in StatsType
    BY <2>2, StatsKeepType
  <2> QED
    BY <2>3 DEF a, b
<1>2. [stats EXCEPT !.total_loads = @ + 1, !.load_misses = @ + 1,
                   !.total_cycles = @ + n] \in StatsType
  <2> DEFINE a == [stats EXCEPT !.total_loads = @ + 1]
             b == [a EXCEPT !.load_misses = @ + 1]
  <2>1. a \in StatsType
    BY StatsKeepType
  <2> HIDE DEF a
  <2>2. b \in StatsType
    BY <2>1, StatsKeepType
  <2> HIDE DEF b
  <2>3. [b EXCEPT !.total_cycles = @ + n] \in StatsType
    BY <2>2, StatsKeepType
  <2> QED
    BY <2>3 DEF a, b
<1>3. [stats EXCEPT !.total_stores = @ + 1, !.store_hits = @ + 1,
                   !.total_cycles = @ + n] \in StatsType
  <2> DEFINE a == [stats EXCEPT !.total_stores = @ + 1]
             b == [a EXCEPT !.store_hits = @ + 1]
  <2>1. a \in StatsType
    BY StatsKeepType
  <2> HIDE DEF a
  <2>2. b \in StatsType
    BY <2>1, StatsKeepType
  <2> HIDE DEF b
  <2>3. [b EXCEPT !.total_cycles = @ + n] \in StatsType
    BY <2>2, StatsKeepType
  <2> QED
    BY <2>3 DEF a, b
<1>4. [stats EXCEPT !.total_stores = @ + 1, !.store_misses = @ + 1,
                   !.total_cycles = @ + n] \in StatsType
  <2> DEFINE a == [stats EXCEPT !.total_stores = @ + 1]
             b == [a EXCEPT !.store_misses = @ + 1]
  <2>1. a \in StatsType
    BY StatsKeepType
  <2> HIDE DEF a
  <2>2. b \in StatsType
    BY <2>1, StatsKeepType
  <2> HIDE DEF b
  <2>3. [b EXCEPT !.total_cycles = @ + n] \in StatsType
    BY <2>2, StatsKeepType
  <2> QED
    BY <2>3 DEF a, b
<1> QED
  BY <1>1, <1>2, <1>3, <1>4

LEMMA CacheInvNext == CacheInv /\ [Next]_vars => CacheInv'
<1> SUFFICES ASSUME CacheInv, [Next]_vars
             PROVE  CacheInv'
  OBVIOUS
<1>1. ConfigOK /\ stats \in StatsType /\ unpaid \subseteq SetIds \X Tags
  BY DEF CacheInv, CacheTypeOK, StatsType
<1>2. \A addr \in Addresses : /\ SetIndex(addr) \in SetIds
                              /\ Tag(addr) \in Tags
                              /\ SetOK(sets[SetIndex(addr)])
  BY <1>1, AddressFacts DEF CacheInv
<1>3. config.back \in BOOLEAN
  BY <1>1, ConfigFacts
<1>4. ASSUME NEW addr \in Addresses, LoadHit(addr)
      PROVE  CacheInv'
  <2> DEFINE s == SetIndex(addr)
             new == Find(sets[s], Tag(addr))
  <2>1. SetOK(new) /\ DirtyTags(new) = DirtyTags(sets[s])
    BY <1>1, <1>2, <1>4, FindKeeps DEF LoadHit, Hits
  <2>2. /\ sets' = [sets EXCEPT ![s] = new]
        /\ UNCHANGED <<config, unpaid>>
    BY <1>4 DEF LoadHit, Replace, Access
  <2>3. stats' \in StatsType
    BY <1>1, <1>4, StatsAdded DEF LoadHit
  <2>4. \A x \in SetIds \X Tags :
          x \in unpaid' <=> IF x[1] = s THEN x[2] \in DirtyTags(new) ELSE x \in unpaid
    BY <2>1, <2>2, UnpaidBySet
  <2> HIDE DEF new
  <2> QED
    BY <1>1, <1>2, <2>1, <2>2, <2>3, <2>4, ReplaceKeeps
<1>5. ASSUME NEW addr \in Addresses, NEW dirty \in BOOLEAN, dirty => config.back,
             ~ Hits(addr), UNCHANGED config, stats' \in StatsType,
             Replace(addr, Filled(sets[SetIndex(addr)], Tag(addr), dirty)),
             unpaid' = StillUnpaid(addr) \cup
                         IF dirty THEN {<<SetIndex(addr), Tag(addr)>>} ELSE {}
      PROVE  CacheInv'
  <2> DEFINE s == SetIndex(addr)
             new == Filled(sets[s], Tag(addr), dirty)
             out == sets[s].lines[Removed(sets[s])].tag
  <2>1. /\ SetOK(new)
        /\ DirtyTags(new) =
             (IF WrittenBack(sets[s]) THEN DirtyTags(sets[s]) \ {out} ELSE DirtyTags(sets[s]))
             \cup (IF dirty THEN {Tag(addr)} ELSE {})
    BY <1>1, <1>2, <1>5, FilledKeeps DEF Hits
  <2>2. sets' = [sets EXCEPT ![s] = new]
    BY <1>5 DEF Replace
  <2>3. unpaid' \subseteq SetIds \X Tags
    BY <1>1, <1>2, <1>5 DEF StillUnpaid
  <2>4. unpaid' = (IF WrittenBack(sets[s]) THEN unpaid \ {<<s, out>>} ELSE unpaid)
                  \cup (IF dirty THEN {<<s, Tag(addr)>>} ELSE {})
    BY <1>5 DEF StillUnpaid
  <2> HIDE DEF new, out, s
  <2>5. \A x \in SetIds \X Tags :
          x \in unpaid' <=> IF x[1] = s THEN x[2] \in DirtyTags(new) ELSE x \in unpaid
    <3> SUFFICES ASSUME NEW q \in SetIds, NEW t \in Tags
                 PROVE  <<q, t>> \in unpaid' <=>
                          IF q = s THEN t \in DirtyTags(new) ELSE <<q, t>> \in unpaid
      OBVIOUS
    <3>1. <<q, t>> \in unpaid <=> t \in DirtyTags(sets[q])
      BY UnpaidBySet
    <3> QED
      BY <2>1, <2>4, <3>1 DEF s
  <2> QED
    BY <1>2, <1>5, <2>1, <2>2, <2>3, <2>5, ReplaceKeeps DEF s
<1>6. ASSUME NEW addr \in Addresses, LoadMiss(addr)
      PROVE  CacheInv'
  <2>1. stats' \in StatsType
    BY <1>1, <1>6, FillCostType, StatsAdded DEF LoadMiss
  <2> QED
    BY <1>5, <1>6, <2>1 DEF LoadMiss, Access
<1>7. ASSUME NEW addr \in Addresses, StoreMissAllocate(addr)
      PROVE  CacheInv'
  <2>1. FillCost(addr) + (IF config.back THEN 0 ELSE 100) \in Nat
    BY <1>3, FillCostType
  <2>2. stats' \in StatsType
    BY <1>1, <1>7, <2>1, StatsAdded DEF StoreMissAllocate
  <2> QED
    BY <1>3, <1>5, <1>7, <2>2 DEF StoreMissAllocate, Access
<1>8. ASSUME NEW addr \in Addresses, StoreHit(addr)
      PROVE  CacheInv'
  <2> DEFINE s == SetIndex(addr)
             found == Find(sets[s], Tag(addr))
             new == Stored(found, Tag(addr))
  <2>1. /\ SetOK(found) /\ Holding(found, Tag(addr)) # {}
        /\ DirtyTags(found) = DirtyTags(sets[s])
    BY <1>1, <1>2, <1>8, FindKeeps DEF StoreHit, Hits
  <2>2. /\ SetOK(new)
        /\ DirtyTags(new) = IF config.back THEN DirtyTags(sets[s]) \cup {Tag(addr)}
                                           ELSE DirtyTags(sets[s])
    BY <1>1, <2>1, StoredKeeps
  <2>3. /\ sets' = [sets EXCEPT ![s] = new]
        /\ unpaid' = IF config.back THEN unpaid \cup {<<s, Tag(addr)>>} ELSE unpaid
        /\ UNCHANGED config
    BY <1>8 DEF StoreHit, Replace, Access
  <2>4. stats' \in StatsType
    BY <1>1, <1>3, <1>8, StatsAdded DEF StoreHit
  <2>5. unpaid' \subseteq SetIds \X Tags
    BY <1>1, <1>2, <2>3
  <2> HIDE DEF new, found, s
  <2>6. \A x \in SetIds \X Tags :
          x \in unpaid' <=> IF x[1] = s THEN x[2] \in DirtyTags(new) ELSE x \in unpaid
    <3> SUFFICES ASSUME NEW q \in SetIds, NEW t \in Tags
                 PROVE  <<q, t>> \in unpaid' <=>
                          IF q = s THEN t \in DirtyTags(new) ELSE <<q, t>> \in unpaid
      OBVIOUS
    <3>1. <<q, t>> \in unpaid <=> t \in DirtyTags(sets[q])
      BY UnpaidBySet
    <3> QED
      BY <2>2, <2>3, <3>1
  <2> QED
    BY <1>2, <2>2, <2>3, <2>4, <2>5, <2>6, ReplaceKeeps DEF s
<1>9. ASSUME UNCHANGED <<config, sets, unpaid>>, stats' \in StatsType
      PROVE  CacheInv'
  <2>1. SetIds' = SetIds /\ LineIds' = LineIds
    BY <1>9 DEF SetIds, LineIds
  <2>2. Tags' = Tags
    BY <1>9 DEF Tags, Tag
  <2>3. CacheSet' = CacheSet
    BY <2>1, <2>2 DEF CacheSet, CacheLine
  <2>4. ConfigOK'
    BY <1>9 DEF CacheInv, ConfigOK
  <2>5. CacheTypeOK'
    BY <1>9, <2>1, <2>2, <2>3 DEF CacheInv, CacheTypeOK, StatsType
  <2>6. ASSUME NEW s \in SetIds PROVE SetOK(sets[s])'
    <3>1. SetOK(sets[s])
      BY DEF CacheInv
    <3>2. SetOK(sets[s])' = SetOK(sets[s])
      BY <1>9, <2>1, <2>2, <2>3 DEF SetOK, Distinct, DirtyNeedsBack, Valid
    <3> QED
      BY <3>1, <3>2
  <2>7. \A s \in SetIds : DirtyTags(sets[s])' = DirtyTags(sets[s])
    BY <1>9, <2>1 DEF DirtyTags, Valid
  <2>8. DirtyIsUnpaid'
    BY <1>9, <2>1, <2>2, <2>7 DEF CacheInv, DirtyIsUnpaid
  <2> QED
    BY <2>1, <2>4, <2>5, <2>6, <2>8 DEF CacheInv
<1>10. ASSUME NEW addr \in Addresses, StoreMissAround(addr)
       PROVE  CacheInv'
  BY <1>1, <1>9, <1>10, StatsAdded DEF StoreMissAround, Access
<1>11. CASE UNCHANGED vars
  BY <1>1, <1>9, <1>11 DEF vars
<1> QED
  BY <1>4, <1>6, <1>7, <1>8, <1>10, <1>11 DEF Next

THEOREM CacheInvariant == Spec => []CacheInv
BY CacheInvInit, CacheInvNext, PTL DEF Spec

\* Every variable of the simulator keeps its type, whatever the command line
\* and the trace (access_memory).
THEOREM CacheTypeCorrect == Spec => []CacheTypeOK
<1>1. CacheInv => CacheTypeOK
  BY DEF CacheInv
<1> QED
  BY <1>1, CacheInvariant, PTL

\* No block is ever in two lines (handle_load, handle_store, remove_line).
THEOREM BlocksOnce == Spec => []NoDuplicates
<1>1. CacheInv => NoDuplicates
  BY DEF CacheInv, NoDuplicates, SetOK
<1> QED
  BY <1>1, CacheInvariant, PTL

\* Every store is charged to memory exactly when its line stops being dirty
\* (remove_line, handle_store).
THEOREM StoresPaidFor == Spec => []DirtyIsUnpaid
<1>1. CacheInv => DirtyIsUnpaid
  BY DEF CacheInv
<1> QED
  BY <1>1, CacheInvariant, PTL

-----------------------------------------------------------------------------
(* Timestamps, for traces too short to wrap lru_counter.                   *)

\* The counter of a set has not yet gone round.
Unwrapped(set) ==
    /\ InOrder(set)
    /\ set.lru_counter <= stats.total_loads + stats.total_stores

TimesInv ==
    /\ CacheInv
    /\ stats.total_loads + stats.total_stores <= MaxAccesses
    /\ \A s \in SetIds : Unwrapped(sets[s])

LEMMA TickOne ==
    ASSUME NEW n \in Times, n + 1 < CounterSize
    PROVE  Tick(n) = n + 1
BY WidthsAssumption DEF Tick, Times

\* One line of the set is given the present time, or none.
LEMMA StampedInOrder ==
    ASSUME NEW set \in CacheSet, NEW new \in CacheSet, NEW f \in LineIds,
           InOrder(set), set.lru_counter + 1 < CounterSize,
           new.lru_counter = Tick(set.lru_counter),
           \A i \in Valid(new) : i = f \/ i \in Valid(set),
           \A i \in LineIds : new.lines[i].access_time =
             IF i = f THEN set.lru_counter ELSE set.lines[i].access_time
    PROVE  InOrder(new) /\ new.lru_counter = set.lru_counter + 1
<1>1. set.lru_counter \in Times /\ set.lru_counter \in Nat
  BY WidthsAssumption DEF CacheSet, Times
<1>2. new.lru_counter = set.lru_counter + 1
  BY <1>1, TickOne
<1>3. \A i \in Valid(new) : i \in LineIds
  BY DEF Valid
<1>4. \A i \in LineIds : set.lines[i].access_time \in Int
  BY DEF CacheSet, CacheLine, Times
<1>5. \A i \in Valid(new) : new.lines[i].access_time < new.lru_counter
  BY <1>1, <1>2, <1>3, <1>4 DEF InOrder
<1>6. ASSUME NEW i \in Valid(new), NEW j \in Valid(new),
             new.lines[i].access_time = new.lines[j].access_time
      PROVE  i = j
  <2>1. \A k \in Valid(set) : set.lines[k].access_time < set.lru_counter
    BY DEF InOrder
  <2>2. \A k \in Valid(set) : k \in LineIds /\ set.lines[k].access_time # set.lru_counter
    BY <1>1, <1>4, <2>1 DEF Valid
  <2>3. CASE i = f \/ j = f
    BY <1>3, <1>6, <2>2, <2>3
  <2>4. CASE i # f /\ j # f
    BY <1>3, <1>6, <2>4 DEF InOrder
  <2> QED
    BY <2>3, <2>4
<1> QED
  BY <1>2, <1>5, <1>6 DEF InOrder

LEMMA FindInOrder ==
    ASSUME ConfigOK, NEW set \in CacheSet, NEW tag, Holding(set, tag) # {},
           InOrder(set), set.lru_counter + 1 < CounterSize
    PROVE  /\ InOrder(Find(set, tag))
           /\ Find(set, tag).lru_counter <= set.lru_counter + 1
<1> DEFINE f == First(Holding(set, tag))
           new == Find(set, tag)
<1>1. f \in LineIds
  BY FoundLine DEF Holding, Valid
<1>2. /\ new \in CacheSet
      /\ SameBlocks(set, new)
      /\ \/ new = set
         \/ /\ new.lru_counter = Tick(set.lru_counter)
            /\ \A i \in LineIds : new.lines[i].access_time =
                 IF i = f THEN set.lru_counter ELSE set.lines[i].access_time
  BY FindFacts
<1>3. set.lru_counter \in Int
  BY DEF CacheSet, Times
<1> HIDE DEF new, f
<1>4. CASE new = set
  BY <1>3, <1>4 DEF new
<1>5. CASE new # set
  <2>1. \A i \in Valid(new) : i \in Valid(set)
    BY <1>2 DEF SameBlocks, Valid
  <2>2. InOrder(new) /\ new.lru_counter = set.lru_counter + 1
    BY <1>1, <1>2, <1>5, <2>1, StampedInOrder
  <2> QED
    BY <1>3, <2>2 DEF new
<1> QED
  BY <1>4, <1>5

LEMMA FilledInOrder ==
    ASSUME ConfigOK, NEW set \in CacheSet, NEW tag \in Tags, NEW dirty \in BOOLEAN,
           InOrder(set), set.lru_counter + 1 < CounterSize
    PROVE  /\ InOrder(Filled(set, tag, dirty))
           /\ Filled(set, tag, dirty).lru_counter <= set.lru_counter + 1
<1> DEFINE r == Removed(set)
           new == Filled(set, tag, dirty)
           line == [tag |-> tag, valid |-> TRUE, dirty |-> dirty,
                    access_time |-> set.lru_counter]
<1>1. /\ new \in CacheSet
      /\ new.lines = [set.lines EXCEPT ![r] = line]
      /\ new.lru_counter = Tick(set.lru_counter)
  BY FilledFacts
<1>2. r \in LineIds
  BY RemovedLine
<1>3. /\ set.lines \in [LineIds -> CacheLine]
      /\ set.lru_counter \in Int
  BY DEF CacheSet, Times
<1>4. line.access_time = set.lru_counter
  OBVIOUS
<1> HIDE DEF new, r, line
<1>5. \A i \in LineIds : new.lines[i] = IF i = r THEN line ELSE set.lines[i]
  BY <1>1, <1>3
<1>6. \A i \in Valid(new) : i = r \/ i \in Valid(set)
  BY <1>5 DEF Valid
<1>7. \A i \in LineIds : new.lines[i].access_time =
        IF i = r THEN set.lru_counter ELSE set.lines[i].access_time
  BY <1>4, <1>5
<1>8. InOrder(new) /\ new.lru_counter = set.lru_counter + 1
  BY <1>1, <1>2, <1>6, <1>7, StampedInOrder
<1> QED
  BY <1>3, <1>8 DEF new

LEMMA StoredInOrder ==
    ASSUME ConfigOK, NEW set \in CacheSet, NEW tag, Holding(set, tag) # {}, InOrder(set)
    PROVE  /\ InOrder(Stored(set, tag))
           /\ Stored(set, tag).lru_counter = set.lru_counter
<1> DEFINE new == Stored(set, tag)
<1>1. /\ SameBlocks(set, new)
      /\ new.lru_counter = set.lru_counter
      /\ \A i \in LineIds : new.lines[i].access_time = set.lines[i].access_time
  BY StoredFacts
<1> HIDE DEF new
<1>2. \A i \in Valid(new) : i \in Valid(set) /\ i \in LineIds
  BY <1>1 DEF SameBlocks, Valid
<1>3. InOrder(new)
  BY <1>1, <1>2 DEF InOrder
<1> QED
  BY <1>1, <1>3 DEF new

\* Every access adds 1 to one of the totals.
LEMMA AccessCounted ==
    ASSUME CacheInv, NEW addr \in Addresses,
           \/ LoadHit(addr) \/ LoadMiss(addr) \/ StoreHit(addr)
           \/ StoreMissAllocate(addr) \/ StoreMissAround(addr)
    PROVE  /\ stats.total_loads + stats.total_stores < MaxAccesses
           /\ stats'.total_loads + stats'.total_stores
                = stats.total_loads + stats.total_stores + 1
           /\ UNCHANGED config
<1>1. stats \in StatsType
  BY DEF CacheInv, CacheTypeOK, StatsType
<1>2. stats.total_loads \in Nat /\ stats.total_stores \in Nat
  BY <1>1 DEF StatsType
<1>3. /\ stats.total_loads + stats.total_stores < MaxAccesses
      /\ UNCHANGED config
  BY DEF LoadHit, LoadMiss, StoreHit, StoreMissAllocate, StoreMissAround, Access
<1>4. CASE LoadHit(addr) \/ LoadMiss(addr)
  <2>1. /\ stats'.total_loads = stats.total_loads + 1
        /\ stats'.total_stores = stats.total_stores
    BY <1>1, <1>4 DEF LoadHit, LoadMiss, StatsType
  <2> QED
    BY <1>2, <1>3, <2>1
<1>5. CASE StoreHit(addr) \/ StoreMissAllocate(addr) \/ StoreMissAround(addr)
  <2>1. /\ stats'.total_stores = stats.total_stores + 1
        /\ stats'.total_loads = stats.total_loads
    BY <1>1, <1>5 DEF StoreHit, StoreMissAllocate, StoreMissAround, StatsType
  <2> QED
    BY <1>2, <1>3, <2>1
<1> QED
  BY <1>4, <1>5

\* An access to one set that keeps it in order and adds at most 1 to its
\* counter keeps the invariant.
LEMMA ReplaceInOrder ==
    ASSUME TimesInv, CacheInv', UNCHANGED config, NEW s \in SetIds, NEW new,
           sets' = [sets EXCEPT ![s] = new],
           InOrder(new), new.lru_counter <= sets[s].lru_counter + 1,
           new.lru_counter \in Int,
           stats.total_loads + stats.total_stores < MaxAccesses,
           stats'.total_loads + stats'.total_stores
             = stats.total_loads + stats.total_stores + 1
    PROVE  TimesInv'
<1>1. /\ sets \in [SetIds -> CacheSet]
      /\ stats.total_loads \in Nat /\ stats.total_stores \in Nat
  BY DEF TimesInv, CacheInv, CacheTypeOK
<1>2. SetIds' = SetIds /\ LineIds' = LineIds
  BY DEF SetIds, LineIds
<1>3. \A q \in SetIds : sets'[q] = IF q = s THEN new ELSE sets[q]
  BY <1>1
<1>4. stats'.total_loads + stats'.total_stores <= MaxAccesses
  BY <1>1, WidthsAssumption
<1>5. ASSUME NEW q \in SetIds
      PROVE  /\ InOrder(sets'[q])
             /\ sets'[q].lru_counter <= stats'.total_loads + stats'.total_stores
  <2>1. /\ InOrder(sets[q])
        /\ sets[q].lru_counter <= stats.total_loads + stats.total_stores
        /\ sets[q].lru_counter \in Int
    BY <1>1 DEF TimesInv, Unwrapped, CacheSet, Times
  <2> QED
    BY <1>1, <1>3, <2>1
<1>6. \A q \in SetIds : Unwrapped(sets[q])'
  BY <1>2, <1>5 DEF Unwrapped, InOrder, Valid
<1> QED
  BY <1>2, <1>4, <1>6 DEF TimesInv

LEMMA TimesInvInit == Init => TimesInv
<1> SUFFICES ASSUME Init PROVE TimesInv
  OBVIOUS
<1>1. CacheInv
  BY CacheInvInit
<1>2. stats.total_loads = 0 /\ stats.total_stores = 0
  BY DEF Init
<1>3. ASSUME NEW s \in SetIds
      PROVE  Valid(sets[s]) = {} /\ sets[s].lru_counter = 0
  BY DEF Init, Valid, NoLine
<1>4. \A s \in SetIds : Unwrapped(sets[s])
  BY <1>2, <1>3 DEF Unwrapped, InOrder
<1> QED
  BY <1>1, <1>2, <1>4, WidthsAssumption DEF TimesInv

LEMMA TimesInvNext ==
    ASSUME MaxAccesses < CounterSize
    PROVE  TimesInv /\ [Next]_vars => TimesInv'
<1> SUFFICES ASSUME TimesInv, [Next]_vars
             PROVE  TimesInv'
  OBVIOUS
<1>1. CacheInv /\ CacheInv' /\ ConfigOK
  BY CacheInvNext DEF TimesInv, CacheInv
<1>2. ASSUME NEW addr \in Addresses,
             stats.total_loads + stats.total_stores < MaxAccesses
      PROVE  /\ SetIndex(addr) \in SetIds /\ Tag(addr) \in Tags
             /\ sets[SetIndex(addr)] \in CacheSet
             /\ InOrder(sets[SetIndex(addr)])
             /\ sets[SetIndex(addr)].lru_counter + 1 < CounterSize
             /\ sets[SetIndex(addr)].lru_counter \in Int
  <2> DEFINE s == SetIndex(addr)
  <2>1. s \in SetIds /\ Tag(addr) \in Tags
    BY <1>1, AddressFacts
  <2>2. sets[s] \in CacheSet /\ Unwrapped(sets[s])
    BY <1>1, <2>1 DEF TimesInv, CacheInv, SetOK
  <2>3. stats.total_loads \in Nat /\ stats.total_stores \in Nat
    BY <1>1 DEF CacheInv, CacheTypeOK
  <2>4. sets[s].lru_counter \in Int
    BY <2>2 DEF CacheSet, Times
  <2>5. sets[s].lru_counter + 1 < CounterSize
    BY <1>2, <2>2, <2>3, <2>4, WidthsAssumption DEF Unwrapped
  <2> QED
    BY <2>1, <2>2, <2>4, <2>5 DEF Unwrapped
<1>3. ASSUME NEW addr \in Addresses, LoadHit(addr)
      PROVE  TimesInv'
  <2> DEFINE s == SetIndex(addr)
             new == Find(sets[s], Tag(addr))
  <2>1. /\ stats.total_loads + stats.total_stores < MaxAccesses
        /\ stats'.total_loads + stats'.total_stores
             = stats.total_loads + stats.total_stores + 1
        /\ UNCHANGED config
    BY <1>1, <1>3, AccessCounted
  <2>2. Holding(sets[s], Tag(addr)) # {} /\ sets' = [sets EXCEPT ![s] = new]
    BY <1>3 DEF LoadHit, Hits, Replace
  <2>3. InOrder(new) /\ new.lru_counter <= sets[s].lru_counter + 1
    BY <1>1, <1>2, <2>1, <2>2, FindInOrder
  <2>4. new.lru_counter \in Int
    <3>1. new \in CacheSet
      BY <1>1, <1>2, <2>1, <2>2, FindFacts
    <3> QED
      BY <3>1 DEF CacheSet, Times
  <2> HIDE DEF new
  <2> QED
    BY <1>1, <1>2, <2>1, <2>2, <2>3, <2>4, ReplaceInOrder
<1>4. ASSUME NEW addr \in Addresses, NEW dirty \in BOOLEAN,
             LoadMiss(addr) \/ StoreMissAllocate(addr),
             Replace(addr, Filled(sets[SetIndex(addr)], Tag(addr), dirty))
      PROVE  TimesInv'
  <2> DEFINE s == SetIndex(addr)
             new == Filled(sets[s], Tag(addr), dirty)
  <2>1. /\ stats.total_loads + stats.total_stores < MaxAccesses
        /\ stats'.total_loads + stats'.total_stores
             = stats.total_loads + stats.total_stores + 1
        /\ UNCHANGED config
    BY <1>1, <1>4, AccessCounted
  <2>2. sets' = [sets EXCEPT ![s] = new]
    BY <1>4 DEF Replace
  <2>3. InOrder(new) /\ new.lru_counter <= sets[s].lru_counter + 1
    BY <1>1, <1>2, <2>1, FilledInOrder
  <2>4. new.lru_counter \in Int
    <3>1. new \in CacheSet
      BY <1>1, <1>2, <2>1, FilledFacts
    <3> QED
      BY <3>1 DEF CacheSet, Times
  <2> HIDE DEF new
  <2> QED
    BY <1>1, <1>2, <2>1, <2>2, <2>3, <2>4, ReplaceInOrder
<1>5. ASSUME NEW addr \in Addresses, LoadMiss(addr) \/ StoreMissAllocate(addr)
      PROVE  TimesInv'
  <2>1. config.back \in BOOLEAN
    BY <1>1, ConfigFacts
  <2> QED
    BY <1>4, <1>5, <2>1 DEF LoadMiss, StoreMissAllocate
<1>6. ASSUME NEW addr \in Addresses, StoreHit(addr)
      PROVE  TimesInv'
  <2> DEFINE s == SetIndex(addr)
             found == Find(sets[s], Tag(addr))
             new == Stored(found, Tag(addr))
  <2>1. /\ stats.total_loads + stats.total_stores < MaxAccesses
        /\ stats'.total_loads + stats'.total_stores
             = stats.total_loads + stats.total_stores + 1
        /\ UNCHANGED config
    BY <1>1, <1>6, AccessCounted
  <2>2. Holding(sets[s], Tag(addr)) # {} /\ sets' = [sets EXCEPT ![s] = new]
    BY <1>6 DEF StoreHit, Hits, Replace
  <2>3. /\ InOrder(found) /\ found.lru_counter <= sets[s].lru_counter + 1
        /\ found \in CacheSet
    BY <1>1, <1>2, <2>1, <2>2, FindInOrder, FindFacts
  <2>4. Holding(found, Tag(addr)) # {}
    <3>1. SetOK(sets[s])
      BY <1>1, <1>2, <2>1 DEF CacheInv
    <3> QED
      BY <1>1, <2>2, <3>1, FindKeeps
  <2> HIDE DEF found
  <2>5. InOrder(new) /\ new.lru_counter = found.lru_counter
    BY <1>1, <2>3, <2>4, StoredInOrder
  <2>6. new.lru_counter \in Int
    BY <2>3, <2>5 DEF CacheSet, Times
  <2> HIDE DEF new
  <2> QED
    BY <1>1, <1>2, <2>1, <2>2, <2>3, <2>5, <2>6, ReplaceInOrder
<1>7. ASSUME UNCHANGED <<config, sets>>,
             stats'.total_loads + stats'.total_stores <= MaxAccesses,
             stats.total_loads + stats.total_stores
               <= stats'.total_loads + stats'.total_stores,
             stats'.total_loads + stats'.total_stores \in Int
      PROVE  TimesInv'
  <2>1. SetIds' = SetIds /\ LineIds' = LineIds
    BY <1>7 DEF SetIds, LineIds
  <2>2. stats.total_loads + stats.total_stores \in Int
    BY <1>1 DEF CacheInv, CacheTypeOK
  <2>3. ASSUME NEW s \in SetIds
        PROVE  /\ InOrder(sets[s])
               /\ sets[s].lru_counter <= stats'.total_loads + stats'.total_stores
    <3>1. sets[s].lru_counter \in Int
      BY <1>1 DEF CacheInv, SetOK, CacheSet, Times
    <3>2. InOrder(sets[s]) /\ sets[s].lru_counter <= stats.total_loads + stats.total_stores
      BY DEF TimesInv, Unwrapped
    <3> QED
      BY <1>7, <2>2, <3>1, <3>2
  <2>4. \A s \in SetIds : Unwrapped(sets[s])'
    BY <1>7, <2>1, <2>3 DEF Unwrapped, InOrder, Valid
  <2> QED
    BY <1>1, <1>7, <2>1, <2>4 DEF TimesInv
<1>8. ASSUME NEW addr \in Addresses, StoreMissAround(addr)
      PROVE  TimesInv'
  <2>1. /\ stats.total_loads + stats.total_stores < MaxAccesses
        /\ stats'.total_loads + stats'.total_stores
             = stats.total_loads + stats.total_stores + 1
        /\ UNCHANGED config
    BY <1>1, <1>8, AccessCounted
  <2>2. stats.total_loads \in Nat /\ stats.total_stores \in Nat
    BY <1>1 DEF CacheInv, CacheTypeOK
  <2>3. UNCHANGED sets
    BY <1>8 DEF StoreMissAround
  <2> QED
    BY <1>7, <2>1, <2>2, <2>3, WidthsAssumption
<1>9. CASE UNCHANGED vars
  <2>1. stats.total_loads \in Nat /\ stats.total_stores \in Nat
    BY <1>1 DEF CacheInv, CacheTypeOK
  <2> QED
    BY <1>7, <1>9, <2>1 DEF vars, TimesInv
<1> QED
  BY <1>3, <1>5, <1>6, <1>8, <1>9 DEF Next

\* If lru_counter is wide enough for the trace, the timestamps in a set are
\* distinct and in the past: the line that remove_line evicts is the only
\* least recently used one.
THEOREM TimesStayDistinct ==
    ASSUME MaxAccesses < CounterSize
    PROVE  Spec => []TimesDistinct
<1>1. Init => TimesInv
  BY TimesInvInit
<1>2. TimesInv /\ [Next]_vars => TimesInv'
  BY TimesInvNext
<1>3. TimesInv => TimesDistinct
  BY DEF TimesInv, TimesDistinct, Unwrapped
<1> QED
  BY <1>1, <1>2, <1>3, PTL DEF Spec

-----------------------------------------------------------------------------
(* Powers of two and the parts of an address.                              *)

\* A set that has 0, and the next number with every number, has them all.
LEMMA Naturals ==
    ASSUME NEW S, 0 \in S, \A k \in Nat : k \in S => k + 1 \in S
    PROVE  \A n \in Nat : n \in S
<1> SUFFICES ASSUME NEW n \in Nat, n \notin S PROVE FALSE
  OBVIOUS
<1> DEFINE Others == (0 .. n) \ S
<1>1. PICK k \in Others : \A j \in Others : k <= j
  <2>1. Others \subseteq 0 .. n /\ n \in Others
    OBVIOUS
  <2> HIDE DEF Others
  <2> QED
    BY <2>1, LeastExists
<1>2. k # 0 /\ k - 1 \in 0 .. n /\ k - 1 \notin Others
  BY <1>1
<1> QED
  BY <1>1, <1>2

PowerStep(f, n) == IF n = 0 THEN 1 ELSE 2 * f[n - 1]

\* There is a function that doubles from 1 on, so TwoTo is one.
LEMMA TwoToIs == TwoTo = [n \in Nat |-> PowerStep(TwoTo, n)]
<1> DEFINE Upto(k, g) == \A n \in 0 .. k : g[n] = PowerStep(g, n)
           S == {k \in Nat : \E g : Upto(k, g)}
<1>1. 0 \in S
  <2> DEFINE g == [n \in Nat |-> 1]
  <2>1. Upto(0, g)
    BY DEF PowerStep
  <2> HIDE DEF Upto, g
  <2> QED
    BY <2>1
<1>2. ASSUME NEW k \in Nat, k \in S
      PROVE  k + 1 \in S
  <2>1. PICK g : Upto(k, g)
    BY <1>2
  <2> DEFINE h == [n \in Nat |-> PowerStep(g, n)]
  <2>2. \A n \in 0 .. k : h[n] = g[n]
    BY <2>1
  <2>3. Upto(k + 1, h)
    <3> SUFFICES ASSUME NEW n \in 0 .. k + 1 PROVE h[n] = PowerStep(h, n)
      OBVIOUS
    <3>1. n # 0 => h[n - 1] = g[n - 1]
      BY <2>2
    <3>2. h[n] = PowerStep(g, n)
      OBVIOUS
    <3> HIDE DEF h
    <3> QED
      BY <3>1, <3>2 DEF PowerStep
  <2> HIDE DEF Upto, h
  <2> QED
    BY <2>3
<1>3. \A k \in Nat : \E g : Upto(k, g)
  <2> HIDE DEF Upto
  <2>1. \A k \in Nat : k \in S
    <3> HIDE DEF S
    <3> QED
      BY <1>1, <1>2, Naturals
  <2> QED
    BY <2>1
\* Any two of them agree as far as both go.
<1>4. ASSUME NEW k \in Nat, NEW j \in Nat, j <= k, NEW g, NEW h, Upto(k, g), Upto(j, h)
      PROVE  g[j] = h[j]
  <2> DEFINE Same == {n \in Nat : n <= j => g[n] = h[n]}
  <2>1. 0 \in Same
    BY <1>4 DEF PowerStep
  <2>2. ASSUME NEW n \in Nat, n \in Same
        PROVE  n + 1 \in Same
    <3> SUFFICES ASSUME n + 1 <= j PROVE g[n + 1] = h[n + 1]
      OBVIOUS
    <3>1. g[n] = h[n]
      BY <2>2
    <3>2. g[n + 1] = PowerStep(g, n + 1) /\ h[n + 1] = PowerStep(h, n + 1)
      BY <1>4
    <3> QED
      BY <3>1, <3>2 DEF PowerStep
  <2>3. j \in Same
    <3> HIDE DEF Same
    <3> QED
      BY <2>1, <2>2, Naturals
  <2> QED
    BY <2>3
<1> DEFINE G(k) == CHOOSE g : Upto(k, g)
           F == [n \in Nat |-> G(n)[n]]
<1>5. \A k \in Nat : Upto(k, G(k))
  <2> HIDE DEF Upto
  <2> QED
    BY <1>3, Zenon
<1>6. \A n \in Nat : F[n] = PowerStep(F, n)
  <2> SUFFICES ASSUME NEW n \in Nat PROVE F[n] = PowerStep(F, n)
    OBVIOUS
  <2>1. F[n] = G(n)[n] /\ (n # 0 => F[n - 1] = G(n - 1)[n - 1])
    OBVIOUS
  <2> HIDE DEF F, G
  <2>2. G(n)[n] = PowerStep(G(n), n)
    BY <1>5
  <2>3. n # 0 => G(n)[n - 1] = G(n - 1)[n - 1]
    <3> SUFFICES ASSUME n # 0 PROVE G(n)[n - 1] = G(n - 1)[n - 1]
      OBVIOUS
    <3>1. n - 1 \in Nat /\ n - 1 <= n
      OBVIOUS
    <3>2. Upto(n, G(n)) /\ Upto(n - 1, G(n - 1))
      BY <1>5, <3>1
    <3> HIDE DEF Upto
    <3> QED
      BY <1>4, <3>1, <3>2
  <2> QED
    BY <2>1, <2>2, <2>3 DEF PowerStep
<1> DEFINE IsPower(f) == f = [n \in Nat |-> PowerStep(f, n)]
<1>7. IsPower(F)
  <2>1. F = [n \in Nat |-> F[n]]
    OBVIOUS
  <2> HIDE DEF F
  <2> QED
    BY <1>6, <2>1
<1>8. TwoTo = CHOOSE f : IsPower(f)
  BY DEF TwoTo, PowerStep
<1>9. IsPower(TwoTo)
  <2> HIDE DEF IsPower, F
  <2> QED
    BY <1>7, <1>8, Zenon
<1> QED
  BY <1>9

LEMMA TwoToFacts ==
    /\ TwoTo[0] = 1
    /\ \A n \in Nat : TwoTo[n] \in Nat \ {0} /\ TwoTo[n + 1] = 2 * TwoTo[n]
<1>1. TwoTo[0] = 1
  BY TwoToIs DEF PowerStep
<1>2. \A n \in Nat : TwoTo[n + 1] = 2 * TwoTo[n]
  <2> SUFFICES ASSUME NEW n \in Nat PROVE TwoTo[n + 1] = 2 * TwoTo[n]
    OBVIOUS
  <2>1. n + 1 \in Nat /\ n + 1 # 0 /\ (n + 1) - 1 = n
    OBVIOUS
  <2>2. TwoTo[n + 1] = PowerStep(TwoTo, n + 1)
    BY <2>1, TwoToIs
  <2> QED
    BY <2>1, <2>2 DEF PowerStep
<1> DEFINE S == {n \in Nat : TwoTo[n] \in Nat \ {0}}
<1>3. 0 \in S
  BY <1>1
<1>4. ASSUME NEW n \in Nat, n \in S PROVE n + 1 \in S
  BY <1>2, <1>4
<1>5. \A n \in Nat : n \in S
  <2> HIDE DEF S
  <2> QED
    BY <1>3, <1>4, Naturals
<1> QED
  BY <1>1, <1>2, <1>5

\* Shifting by one count and then by another is shifting by their sum.
LEMMA TwoToSum == \A m, n \in Nat : TwoTo[m + n] = TwoTo[m] * TwoTo[n]
<1> SUFFICES ASSUME NEW m \in Nat PROVE \A n \in Nat : TwoTo[m + n] = TwoTo[m] * TwoTo[n]
  OBVIOUS
<1> DEFINE S == {n \in Nat : TwoTo[m + n] = TwoTo[m] * TwoTo[n]}
<1>1. 0 \in S
  <2>1. m + 0 = m /\ TwoTo[m] \in Nat
    BY TwoToFacts
  <2> QED
    BY <2>1, TwoToFacts
<1>2. ASSUME NEW n \in Nat, n \in S PROVE n + 1 \in S
  <2>1. m + (n + 1) = (m + n) + 1 /\ m + n \in Nat
    OBVIOUS
  <2>2. TwoTo[(m + n) + 1] = 2 * TwoTo[m + n] /\ TwoTo[n + 1] = 2 * TwoTo[n]
    BY <2>1, TwoToFacts
  <2>3. TwoTo[m + n] = TwoTo[m] * TwoTo[n]
    BY <1>2
  <2>4. TwoTo[m] \in Nat /\ TwoTo[n] \in Nat
    BY TwoToFacts
  <2>5. \A a, b \in Nat : 2 * (a * b) = a * (2 * b)
    OBVIOUS
  <2> QED
    BY <2>1, <2>2, <2>3, <2>4, <2>5
<1>3. \A n \in Nat : n \in S
  <2> HIDE DEF S
  <2> QED
    BY <1>1, <1>2, Naturals
<1> QED
  BY <1>3

LEMMA CtzIs ==
    ASSUME NEW x, IsPowerOfTwo(x)
    PROVE  /\ Ctz(x) \in 0 .. AddressBits - 1
           /\ x = TwoTo[Ctz(x)]
BY DEF IsPowerOfTwo, Ctz

\* When the tag has bits, the tag and the index of an address are the number
\* of its block divided by the number of sets.
LEMMA AddressParts ==
    ASSUME ConfigOK, TagHasBits, NEW addr \in Addresses
    PROVE  /\ addr \div config.block \in Nat
           /\ SetIndex(addr) = (addr \div config.block) % config.sets
           /\ Tag(addr) = (addr \div config.block) \div config.sets
<1>1. addr \in Nat
  BY AddressesAssumption
<1>2. /\ config.block = TwoTo[Ctz(config.block)] /\ Ctz(config.block) \in 0 .. AddressBits - 1
      /\ config.sets = TwoTo[Ctz(config.sets)] /\ Ctz(config.sets) \in 0 .. AddressBits - 1
  BY CtzIs DEF ConfigOK, Accepted
<1> DEFINE m == Ctz(config.block)
           n == Ctz(config.sets)
<1>3. m \in Nat /\ n \in Nat /\ m + n < AddressBits
  BY <1>2 DEF TagHasBits
<1> HIDE DEF m, n
<1>4. (m + n) % AddressBits = m + n
  BY <1>3, WidthsAssumption
<1>5. TwoTo[m + n] = config.block * config.sets
  BY <1>2, <1>3, TwoToSum DEF m, n
<1>6. Tag(addr) = addr \div (config.block * config.sets)
  BY <1>4, <1>5 DEF Tag, m, n
<1>7. config.block \in Nat \ {0} /\ config.sets \in Nat \ {0}
  BY ConfigFacts
<1>8. \A a \in Nat, b, c \in Nat \ {0} : (a \div b) \div c = a \div (b * c) /\ a \div b \in Nat
  OBVIOUS
<1> QED
  BY <1>1, <1>6, <1>7, <1>8 DEF SetIndex

\* A block is found at all of its addresses or at none (parse_address,
\* find_cache_line).
LEMMA BlocksWhole == ConfigOK => BlocksAreWhole
<1> SUFFICES ASSUME ConfigOK, TagHasBits, NEW a \in Addresses, NEW b \in Addresses,
                    BlockOf(a) = BlockOf(b)
             PROVE  Hits(a) <=> Hits(b)
  BY DEF BlocksAreWhole
<1>1. SetIndex(a) = SetIndex(b) /\ Tag(a) = Tag(b)
  BY AddressParts DEF BlockOf
<1> QED
  BY <1>1 DEF Hits

-----------------------------------------------------------------------------
(* The lines of a set in the order in which they are to be evicted.        *)

LEMMA BeforeIsOrder ==
    ASSUME ConfigOK, NEW set \in CacheSet
    PROVE  /\ \A i \in LineIds : ~ EvictedBefore(set, i, i)
           /\ \A i, j, k \in LineIds :
                EvictedBefore(set, i, j) /\ EvictedBefore(set, j, k) => EvictedBefore(set, i, k)
<1> DEFINE Key(i) == IF config.repl = "lru" THEN set.lines[i].access_time
                     ELSE (i - set.first_in) % config.ways
<1>1. \A i, j \in LineIds : EvictedBefore(set, i, j) <=> Key(i) < Key(j)
  BY DEF EvictedBefore
<1>2. \A i \in LineIds : Key(i) \in Int
  <2>1. set.first_in \in Int /\ \A i \in LineIds : i \in Int
    BY ConfigFacts DEF CacheSet
  <2>2. \A i \in LineIds : set.lines[i].access_time \in Int
    BY DEF CacheSet, CacheLine, Times
  <2>3. \A i \in LineIds : (i - set.first_in) % config.ways \in Int
    BY <2>1, ConfigFacts
  <2> QED
    BY <2>2, <2>3
<1> HIDE DEF Key
<1> QED
  BY <1>1, <1>2

\* The function e lists the n valid lines of the set, the next one to be
\* evicted first.
Lists(e, n, set) ==
    /\ n \in Nat
    /\ e \in [1 .. n -> LineIds]
    /\ \A k \in 1 .. n : e[k] \in Valid(set)
    /\ \A i \in Valid(set) : \E k \in 1 .. n : e[k] = i
    /\ \A k, l \in 1 .. n : k < l => EvictedBefore(set, e[k], e[l])

LEMMA ListsOnce ==
    ASSUME ConfigOK, NEW set \in CacheSet, NEW n, NEW e, Lists(e, n, set),
           NEW k \in 1 .. n, NEW l \in 1 .. n
    PROVE  /\ e[k] = e[l] => k = l
           /\ EvictedBefore(set, e[k], e[l]) <=> k < l
<1>1. e[k] \in LineIds /\ e[l] \in LineIds /\ k \in Int /\ l \in Int
  BY DEF Lists
<1>2. k < l => EvictedBefore(set, e[k], e[l])
  BY DEF Lists
<1>3. l < k => EvictedBefore(set, e[l], e[k])
  BY DEF Lists
<1> QED
  BY <1>1, <1>2, <1>3, BeforeIsOrder

LEMMA CountedBy ==
    ASSUME NEW n \in Nat, NEW T, NEW f \in [1 .. n -> T],
           \A k, l \in 1 .. n : f[k] = f[l] => k = l,
           \A i \in T : \E k \in 1 .. n : f[k] = i
    PROVE  Cardinality(T) = n
<1>1. f \in Injection(1 .. n, T)
  BY DEF Injection, IsInjective
<1>2. f \in Surjection(1 .. n, T)
  BY DEF Surjection
<1>3. f \in Bijection(1 .. n, T)
  BY <1>1, <1>2 DEF Bijection
<1>4. ExistsBijection(1 .. n, T)
  BY <1>3 DEF ExistsBijection
<1> QED
  BY <1>4, FS_CountingElements

LEMMA ListedCount ==
    ASSUME ConfigOK, NEW set \in CacheSet, NEW n, NEW e, Lists(e, n, set)
    PROVE  /\ Cardinality(Valid(set)) = n
           /\ \A k \in 1 .. n : Cardinality(Ahead(set, e[k])) = k - 1
<1>1. \A k, l \in 1 .. n : /\ e[k] = e[l] => k = l
                           /\ EvictedBefore(set, e[k], e[l]) <=> k < l
  BY ListsOnce
<1>2. Cardinality(Valid(set)) = n
  <2>1. /\ n \in Nat /\ e \in [1 .. n -> Valid(set)]
        /\ \A i \in Valid(set) : \E k \in 1 .. n : e[k] = i
    BY DEF Lists
  <2> QED
    BY <1>1, <2>1, CountedBy
<1>3. ASSUME NEW k \in 1 .. n
      PROVE  Cardinality(Ahead(set, e[k])) = k - 1
  <2> DEFINE T == Ahead(set, e[k])
             f == [l \in 1 .. k - 1 |-> e[l]]
  <2>1. n \in Nat /\ k - 1 \in Nat /\ \A l \in 1 .. k - 1 : l \in 1 .. n /\ l < k
    BY DEF Lists
  <2>2. \A i : i \in T <=> i \in Valid(set) /\ EvictedBefore(set, i, e[k])
    BY DEF Ahead
  <2>3. \A l \in 1 .. k - 1 : e[l] \in T
    BY <1>1, <2>1, <2>2 DEF Lists
  <2>4. ASSUME NEW i \in T
        PROVE  \E l \in 1 .. k - 1 : e[l] = i
    <3>1. i \in Valid(set) /\ EvictedBefore(set, i, e[k])
      BY <2>2
    <3>2. PICK l \in 1 .. n : e[l] = i
      BY <3>1 DEF Lists
    <3>3. l < k
      BY <1>1, <3>1, <3>2
    <3> QED
      BY <2>1, <3>2, <3>3
  <2> HIDE DEF T
  <2>5. f \in [1 .. k - 1 -> T]
    BY <2>3
  <2>6. \A l, m \in 1 .. k - 1 : f[l] = f[m] => l = m
    BY <1>1, <2>1
  <2>7. \A i \in T : \E l \in 1 .. k - 1 : f[l] = i
    BY <2>4
  <2> HIDE DEF f
  <2>8. Cardinality(T) = k - 1
    BY <2>1, <2>5, <2>6, <2>7, CountedBy
  <2> QED
    BY <2>8 DEF T
<1> QED
  BY <1>2, <1>3

LEMMA ListedAt ==
    ASSUME ConfigOK, NEW set \in CacheSet, NEW n, NEW e, Lists(e, n, set), NEW k \in 1 .. n
    PROVE  InQueue(set, k) = e[k]
<1> DEFINE P(i) == i \in Valid(set) /\ Cardinality(Ahead(set, i)) = k - 1
<1>1. InQueue(set, k) = CHOOSE i : P(i)
  <2>1. InQueue(set, k) = CHOOSE i \in Valid(set) : Cardinality(Ahead(set, i)) = k - 1
    BY DEF InQueue
  <2> QED
    BY <2>1
<1>2. P(e[k])
  <2>1. e[k] \in Valid(set)
    BY DEF Lists
  <2>2. Cardinality(Ahead(set, e[k])) = k - 1
    BY ListedCount
  <2> QED
    BY <2>1, <2>2
<1>3. P(InQueue(set, k))
  <2> HIDE DEF P
  <2> QED
    BY <1>1, <1>2, Zenon
<1> DEFINE i == InQueue(set, k)
<1> HIDE DEF i
<1>4. i \in Valid(set) /\ Cardinality(Ahead(set, i)) = k - 1
  BY <1>3 DEF i
<1>5. PICK l \in 1 .. n : e[l] = i
  BY <1>4 DEF Lists
<1>6. Cardinality(Ahead(set, i)) = l - 1
  BY <1>5, ListedCount
<1>7. l = k
  BY <1>4, <1>6
<1> QED
  BY <1>5, <1>7 DEF i

\* What Queue is.
QueuesAre ==
    \A s \in SetIds : \A n, e :
        Lists(e, n, sets[s]) => Queue(s) = [k \in 1 .. n |-> BlockIn(s, e[k])]

LEMMA QueueIs == CacheInv => QueuesAre
<1> SUFFICES ASSUME CacheInv, NEW s \in SetIds, NEW n, NEW e, Lists(e, n, sets[s])
             PROVE  Queue(s) = [k \in 1 .. n |-> BlockIn(s, e[k])]
  BY DEF QueuesAre
<1>1. ConfigOK /\ sets[s] \in CacheSet
  BY DEF CacheInv, SetOK
<1>2. Cardinality(Valid(sets[s])) = n
  BY <1>1, ListedCount
<1>3. \A k \in 1 .. n : InQueue(sets[s], k) = e[k]
  BY <1>1, ListedAt
<1> QED
  BY <1>2, <1>3 DEF Queue

LEMMA QueueIsNext == CacheInv' => QueuesAre'
<1>1. (CacheInv => QueuesAre)'
  BY QueueIs, PTL
<1> QED
  BY <1>1

-----------------------------------------------------------------------------
(* How an access changes the list of lines.                                *)

\* A line goes to the end of the list, ...
MovedToEnd(e, n, p) ==
    [k \in 1 .. n |-> IF k < p THEN e[k] ELSE IF k < n THEN e[k + 1] ELSE e[p]]

LEMMA MovedLists ==
    ASSUME NEW set, NEW new, NEW n, NEW e, Lists(e, n, set), NEW p \in 1 .. n,
           \A k, l \in 1 .. n : e[k] = e[l] => k = l,
           Valid(new) = Valid(set),
           \A i, j \in Valid(set) :
             i # e[p] /\ j # e[p] /\ EvictedBefore(set, i, j) => EvictedBefore(new, i, j),
           \A i \in Valid(set) : i # e[p] => EvictedBefore(new, i, e[p])
    PROVE  Lists(MovedToEnd(e, n, p), n, new)
<1> DEFINE f == MovedToEnd(e, n, p)
           at(k) == IF k < p THEN k ELSE IF k < n THEN k + 1 ELSE p
<1>1. n \in Nat /\ \A k \in 1 .. n : at(k) \in 1 .. n
  BY DEF Lists
<1>2. \A k \in 1 .. n : f[k] = e[at(k)]
  BY DEF MovedToEnd
<1>3. f \in [1 .. n -> LineIds]
  <2>1. \A k \in 1 .. n : e[at(k)] \in LineIds
    BY <1>1 DEF Lists
  <2>2. f = [k \in 1 .. n |-> f[k]]
    BY DEF MovedToEnd
  <2> HIDE DEF f, at
  <2> QED
    BY <1>2, <2>1, <2>2
<1>4. \A k \in 1 .. n : f[k] \in Valid(new)
  <2> HIDE DEF f, at
  <2> QED
    BY <1>1, <1>2 DEF Lists
<1>5. ASSUME NEW i \in Valid(new)
      PROVE  \E k \in 1 .. n : f[k] = i
  <2>1. PICK l \in 1 .. n : e[l] = i
    BY DEF Lists
  <2> DEFINE k == IF l < p THEN l ELSE IF l = p THEN n ELSE l - 1
  <2>2. k \in 1 .. n /\ at(k) = l
    BY <1>1
  <2> HIDE DEF f, at, k
  <2> QED
    BY <1>2, <2>1, <2>2
<1>6. ASSUME NEW k \in 1 .. n, NEW l \in 1 .. n, k < l
      PROVE  EvictedBefore(new, f[k], f[l])
  <2>1. at(k) # p /\ at(k) \in 1 .. n /\ at(l) \in 1 .. n
    BY <1>1, <1>6
  <2>2. (at(l) # p /\ at(k) < at(l)) \/ at(l) = p
    BY <1>1, <1>6
  <2> HIDE DEF f, at
  <2>3. f[k] = e[at(k)] /\ f[l] = e[at(l)]
    BY <1>2
  <2>4. e[at(k)] \in Valid(set) /\ e[at(l)] \in Valid(set)
    BY <2>1 DEF Lists
  <2>5. e[at(k)] # e[p] /\ (at(l) # p => e[at(l)] # e[p])
    BY <2>1
  <2>6. CASE at(l) = p
    BY <2>3, <2>4, <2>5, <2>6
  <2>7. CASE at(l) # p /\ at(k) < at(l)
    <3>1. EvictedBefore(set, e[at(k)], e[at(l)])
      BY <2>1, <2>7 DEF Lists
    <3> QED
      BY <2>3, <2>4, <2>5, <2>7, <3>1
  <2> QED
    BY <2>2, <2>6, <2>7
<1> HIDE DEF f, at
<1>7. Lists(f, n, new)
  BY <1>1, <1>3, <1>4, <1>5, <1>6 DEF Lists
<1> QED
  BY <1>7 DEF f

\* ... or a line joins it there.
JoinedAtEnd(e, n, r) == [k \in 1 .. n + 1 |-> IF k <= n THEN e[k] ELSE r]

LEMMA JoinedLists ==
    ASSUME NEW set, NEW new, NEW n, NEW e, Lists(e, n, set), NEW r \in LineIds,
           Valid(new) = Valid(set) \cup {r},
           \A i, j \in Valid(set) : EvictedBefore(set, i, j) => EvictedBefore(new, i, j),
           \A i \in Valid(set) : EvictedBefore(new, i, r)
    PROVE  Lists(JoinedAtEnd(e, n, r), n + 1, new)
<1> DEFINE f == JoinedAtEnd(e, n, r)
<1>1. n \in Nat /\ n + 1 \in Nat
  BY DEF Lists
<1>2. \A k \in 1 .. n + 1 : /\ k \in Int
                            /\ k \in 1 .. n => f[k] = e[k]
                            /\ k \notin 1 .. n => k = n + 1 /\ f[k] = r
  BY <1>1 DEF JoinedAtEnd
<1>3. \A k \in 1 .. n + 1 : f[k] \in LineIds /\ f[k] \in Valid(new)
  <2> HIDE DEF f
  <2> QED
    BY <1>2 DEF Lists
<1>4. f \in [1 .. n + 1 -> LineIds]
  <2>1. f = [k \in 1 .. n + 1 |-> f[k]]
    BY DEF JoinedAtEnd
  <2> HIDE DEF f
  <2> QED
    BY <1>3, <2>1
<1>5. n + 1 \in 1 .. n + 1 /\ n + 1 \notin 1 .. n /\ \A k \in 1 .. n : k \in 1 .. n + 1
  BY <1>1
<1> HIDE DEF f
<1>6. ASSUME NEW i \in Valid(new)
      PROVE  \E k \in 1 .. n + 1 : f[k] = i
  <2>1. CASE i = r
    BY <1>2, <1>5, <2>1
  <2>2. CASE i \in Valid(set)
    <3>1. PICK k \in 1 .. n : e[k] = i
      BY <2>2 DEF Lists
    <3> QED
      BY <1>2, <1>5, <3>1
  <2> QED
    BY <2>1, <2>2
<1>7. ASSUME NEW k \in 1 .. n + 1, NEW l \in 1 .. n + 1, k < l
      PROVE  EvictedBefore(new, f[k], f[l])
  <2>1. k \in 1 .. n
    BY <1>1, <1>7
  <2>2. f[k] = e[k] /\ e[k] \in Valid(set)
    BY <1>2, <2>1 DEF Lists
  <2>3. CASE l \in 1 .. n
    <3>1. f[l] = e[l] /\ e[l] \in Valid(set) /\ EvictedBefore(set, e[k], e[l])
      BY <1>2, <1>7, <2>1, <2>3 DEF Lists
    <3> QED
      BY <2>2, <3>1
  <2>4. CASE l \notin 1 .. n
    BY <1>2, <2>2, <2>4
  <2> QED
    BY <2>3, <2>4
<1>8. Lists(f, n + 1, new)
  BY <1>1, <1>3, <1>4, <1>6, <1>7 DEF Lists
<1> QED
  BY <1>8 DEF f

\* The same list for a set with the same lines, times and first_in.
LEMMA SameLists ==
    ASSUME NEW set, NEW new, NEW n, NEW e, Lists(e, n, set),
           Valid(new) = Valid(set), new.first_in = set.first_in,
           \A i \in LineIds : new.lines[i].access_time = set.lines[i].access_time
    PROVE  Lists(e, n, new)
<1>1. \A i, j \in LineIds : EvictedBefore(set, i, j) => EvictedBefore(new, i, j)
  BY DEF EvictedBefore
<1> QED
  BY <1>1 DEF Lists

-----------------------------------------------------------------------------
(* The line that remove_line returns.                                      *)

\* Until a set is full its lines are used from the first on, and first_in is 0.
FillsInOrder(set) ==
    ~ Full(set) => /\ set.first_in = 0
                   /\ \A i \in Valid(set), j \in LineIds \ Valid(set) : i < j

LEMMA FullCount ==
    ASSUME ConfigOK, NEW set \in CacheSet, NEW n, NEW e, Lists(e, n, set)
    PROVE  /\ n = config.ways <=> Full(set)
           /\ n <= config.ways
<1>1. Cardinality(Valid(set)) = n
  BY ListedCount
<1>2. IsFiniteSet(LineIds) /\ Cardinality(LineIds) = config.ways
  <2>1. config.ways - 1 \in Nat /\ config.ways \in Nat /\ LineIds = 0 .. config.ways - 1
    BY ConfigFacts
  <2>2. /\ IsFiniteSet(0 .. config.ways - 1)
        /\ Cardinality(0 .. config.ways - 1) =
             IF 0 > config.ways - 1 THEN 0 ELSE (config.ways - 1) - 0 + 1
    <3>1. 0 \in Int /\ config.ways - 1 \in Int
      BY <2>1
    <3> QED
      BY <3>1, FS_Interval
  <2> QED
    BY <2>1, <2>2
<1>3. Valid(set) \in SUBSET LineIds
  BY DEF Valid
<1>4. /\ Cardinality(Valid(set)) <= Cardinality(LineIds)
      /\ Cardinality(LineIds) = Cardinality(Valid(set)) => LineIds = Valid(set)
  BY <1>2, <1>3, FS_Subset
<1> QED
  BY <1>1, <1>2, <1>4 DEF Full

\* The position of a line in a queue that goes round.
LEMMA Distance ==
    ASSUME NEW w \in Nat \ {0}, NEW i \in 0 .. w - 1, NEW f \in 0 .. w - 1
    PROVE  (i - f) % w = IF i >= f THEN i - f ELSE i - f + w
OBVIOUS

LEMMA DistanceNext ==
    ASSUME NEW w \in Nat \ {0}, NEW i \in 0 .. w - 1, NEW f \in 0 .. w - 1
    PROVE  /\ (f + 1) % w \in 0 .. w - 1
           /\ (i - ((f + 1) % w)) % w = IF i = f THEN w - 1 ELSE ((i - f) % w) - 1
<1>1. (f + 1) % w = IF f = w - 1 THEN 0 ELSE f + 1
  OBVIOUS
<1>2. (f + 1) % w \in 0 .. w - 1
  BY <1>1
<1> DEFINE g == (f + 1) % w
<1> HIDE DEF g
<1>3. (i - g) % w = IF i >= g THEN i - g ELSE i - g + w
  BY <1>2, Distance DEF g
<1>4. (i - f) % w = IF i >= f THEN i - f ELSE i - f + w
  BY Distance
<1> QED
  BY <1>1, <1>2, <1>3, <1>4 DEF g

LEMMA HeadRemoved ==
    ASSUME ConfigOK, NEW set \in CacheSet, NEW n, NEW e, Lists(e, n, set), Full(set)
    PROVE  n \in Nat \ {0} /\ e[1] = Removed(set)
<1> DEFINE r == Removed(set)
<1>1. n = config.ways /\ n \in Nat \ {0}
  BY FullCount, ConfigFacts
<1>2. r \in LineIds /\ r \in Valid(set)
  BY RemovedLine DEF Full
<1>3. PICK k \in 1 .. n : e[k] = r
  BY <1>2 DEF Lists
<1>4. e[1] \in LineIds /\ \A l \in 1 .. n : e[l] \in LineIds
  BY <1>1 DEF Lists
<1>5. \A i \in LineIds : ~ EvictedBefore(set, i, r)
  <2>1. CASE config.repl = "lru"
    <3>1. r = Oldest(set)
      BY <2>1 DEF Removed
    <3>2. \A j \in LineIds : set.lines[r].access_time <= set.lines[j].access_time
      BY <3>1, OldestLine
    <3>3. \A j \in LineIds : set.lines[j].access_time \in Int
      BY DEF CacheSet, CacheLine, Times
    <3> HIDE DEF r
    <3> QED
      BY <1>2, <2>1, <3>2, <3>3 DEF EvictedBefore
  <2>2. CASE config.repl # "lru"
    <3>1. r = set.first_in
      BY <2>2, ConfigFacts DEF Removed
    <3>2. \A i \in LineIds : (i - r) % config.ways \in 0 .. config.ways - 1
      BY <1>2, ConfigFacts
    <3>3. (r - r) % config.ways = 0
      BY <1>2, ConfigFacts, Distance
    <3> HIDE DEF r
    <3> QED
      BY <1>2, <2>2, <3>1, <3>2, <3>3 DEF EvictedBefore
  <2> QED
    BY <2>1, <2>2
<1> HIDE DEF r
<1>6. k = 1
  <2> SUFFICES ASSUME 1 < k PROVE FALSE
    BY <1>1
  <2>1. EvictedBefore(set, e[1], e[k])
    BY <1>1 DEF Lists
  <2> QED
    BY <1>3, <1>4, <1>5, <2>1
<1> QED
  BY <1>1, <1>3, <1>6 DEF r

-----------------------------------------------------------------------------
(* What the operations of a set do to its list.                            *)

LEMMA FirstIsLeast ==
    ASSUME NEW n \in Nat, NEW S, S \subseteq 0 .. n, S # {}
    PROVE  \A j \in S : First(S) <= j
BY LeastExists DEF First

LEMMA FilledFirstIn ==
    ASSUME NEW set \in CacheSet, NEW tag, NEW dirty
    PROVE  Filled(set, tag, dirty).first_in = FirstInAfter(set)
BY DEF Filled, CacheSet

LEMMA StoredFirstIn ==
    ASSUME NEW set \in CacheSet, NEW tag
    PROVE  Stored(set, tag).first_in = set.first_in
BY DEF Stored, CacheSet

LEMMA FindFirstIn ==
    ASSUME NEW set \in CacheSet, NEW tag
    PROVE  Find(set, tag).first_in = set.first_in
BY DEF Find, CacheSet

LEMMA FindUsed ==
    ASSUME ConfigOK, NEW set \in CacheSet, NEW tag, Holding(set, tag) # {},
           config.repl = "lru"
    PROVE  \A i \in LineIds : Find(set, tag).lines[i].access_time =
             IF i = First(Holding(set, tag)) THEN set.lru_counter
             ELSE set.lines[i].access_time
<1> DEFINE f == First(Holding(set, tag))
           line == [set.lines[f] EXCEPT !.access_time = set.lru_counter]
<1>1. f \in LineIds
  BY FoundLine DEF Holding, Valid
<1>2. set.lines \in [LineIds -> CacheLine]
  BY DEF CacheSet
<1>3. line.access_time = set.lru_counter
  BY <1>1, <1>2 DEF CacheLine
<1>4. Find(set, tag).lines = [set.lines EXCEPT ![f] = line]
  BY <1>1, <1>2 DEF Find, CacheSet, CacheLine
<1> HIDE DEF line, f
<1>5. \A i \in LineIds : Find(set, tag).lines[i] = IF i = f THEN line ELSE set.lines[i]
  BY <1>1, <1>2, <1>4
<1> QED
  BY <1>3, <1>5 DEF f

LEMMA FilledLists ==
    ASSUME ConfigOK, NEW set \in CacheSet, NEW tag \in Tags, NEW dirty \in BOOLEAN,
           FillsInOrder(set), InOrder(set), NEW n, NEW e, Lists(e, n, set)
    PROVE  /\ FillsInOrder(Filled(set, tag, dirty))
           /\ Full(set) => Lists(MovedToEnd(e, n, 1), n, Filled(set, tag, dirty))
           /\ ~ Full(set) =>
                Lists(JoinedAtEnd(e, n, Removed(set)), n + 1, Filled(set, tag, dirty))
<1> DEFINE r == Removed(set)
           new == Filled(set, tag, dirty)
           line == [tag |-> tag, valid |-> TRUE, dirty |-> dirty,
                    access_time |-> set.lru_counter]
<1>1. /\ new.lines = [set.lines EXCEPT ![r] = line]
      /\ new.first_in = FirstInAfter(set)
  BY FilledFacts, FilledFirstIn
<1>2. r \in LineIds /\ (~ Full(set) => r \notin Valid(set))
  BY RemovedLine
<1>3. /\ set.lines \in [LineIds -> CacheLine]
      /\ set.first_in \in LineIds
  BY DEF CacheSet
<1>4. line.valid = TRUE /\ line.access_time = set.lru_counter
  OBVIOUS
<1>5. ~ Full(set) => r = First(LineIds \ Valid(set))
  BY DEF Removed
<1> HIDE DEF new, r, line
<1>6. \A i \in LineIds : new.lines[i] = IF i = r THEN line ELSE set.lines[i]
  BY <1>1, <1>3
<1>7. Valid(new) = Valid(set) \cup {r}
  BY <1>2, <1>4, <1>6 DEF Valid
<1>8. \A i \in Valid(set) : i \in LineIds
  BY DEF Valid
<1>9. \A i \in Valid(set) : set.lines[i].access_time < set.lru_counter
  BY DEF InOrder
<1>10. ASSUME Full(set)
       PROVE  Lists(MovedToEnd(e, n, 1), n, new)
  <2>1. n \in Nat \ {0} /\ e[1] = r
    BY <1>10, HeadRemoved DEF r
  <2>2. 1 \in 1 .. n
    BY <2>1
  <2>3. Valid(new) = Valid(set)
    BY <1>2, <1>7, <1>10 DEF Full
  <2>4. \A k, l \in 1 .. n : e[k] = e[l] => k = l
    BY ListsOnce
  <2>5. ASSUME config.repl = "lru"
        PROVE  /\ \A i, j \in Valid(set) : i # r /\ j # r /\ EvictedBefore(set, i, j)
                    => EvictedBefore(new, i, j)
               /\ \A i \in Valid(set) : i # r => EvictedBefore(new, i, r)
    BY <1>2, <1>4, <1>6, <1>8, <1>9, <2>5 DEF EvictedBefore
  <2>6. ASSUME config.repl # "lru"
        PROVE  /\ \A i, j \in Valid(set) : i # r /\ j # r /\ EvictedBefore(set, i, j)
                    => EvictedBefore(new, i, j)
               /\ \A i \in Valid(set) : i # r => EvictedBefore(new, i, r)
    <3> DEFINE w == config.ways
    <3>1. w \in Nat \ {0} /\ LineIds = 0 .. w - 1
      BY ConfigFacts
    <3>2. r = set.first_in /\ new.first_in = (r + 1) % w
      BY <1>1, <1>10, <2>6, ConfigFacts DEF Removed, FirstInAfter, r
    <3> HIDE DEF w
    <3>3. \A i \in LineIds : (i - new.first_in) % w =
                                IF i = r THEN w - 1 ELSE ((i - r) % w) - 1
      <4> SUFFICES ASSUME NEW i \in LineIds
                   PROVE  (i - new.first_in) % w = IF i = r THEN w - 1 ELSE ((i - r) % w) - 1
        OBVIOUS
      <4>1. i \in 0 .. w - 1 /\ r \in 0 .. w - 1
        BY <1>2, <3>1
      <4>2. (i - ((r + 1) % w)) % w = IF i = r THEN w - 1 ELSE ((i - r) % w) - 1
        BY <3>1, <4>1, DistanceNext
      <4> QED
        BY <3>2, <4>2
    <3>4. \A i \in LineIds : (i - r) % w \in 0 .. w - 1
      BY <1>2, <3>1
    <3>5. \A i, j \in LineIds : i # r /\ j # r /\ EvictedBefore(set, i, j)
                                  => EvictedBefore(new, i, j)
      BY <2>6, <3>2, <3>3, <3>4 DEF EvictedBefore, w
    <3>6. \A i \in LineIds : i # r => EvictedBefore(new, i, r)
      BY <1>2, <2>6, <3>1, <3>3, <3>4 DEF EvictedBefore, w
    <3> QED
      BY <1>8, <3>5, <3>6
  <2> QED
    BY <2>1, <2>2, <2>3, <2>4, <2>5, <2>6, MovedLists
<1>11. ASSUME ~ Full(set)
       PROVE  Lists(JoinedAtEnd(e, n, r), n + 1, new) /\ FillsInOrder(new)
  <2>1. /\ new.first_in = set.first_in /\ set.first_in = 0
        /\ \A i \in Valid(set), j \in LineIds \ Valid(set) : i < j
    BY <1>1, <1>11 DEF FirstInAfter, FillsInOrder
  <2>2. r \in LineIds \ Valid(set)
    BY <1>2, <1>11
  <2>3. ASSUME config.repl = "lru"
        PROVE  /\ \A i, j \in Valid(set) : EvictedBefore(set, i, j) => EvictedBefore(new, i, j)
               /\ \A i \in Valid(set) : EvictedBefore(new, i, r)
    BY <1>2, <1>4, <1>6, <1>8, <1>9, <1>11, <2>3 DEF EvictedBefore
  <2>4. ASSUME config.repl # "lru"
        PROVE  /\ \A i, j \in Valid(set) : EvictedBefore(set, i, j) => EvictedBefore(new, i, j)
               /\ \A i \in Valid(set) : EvictedBefore(new, i, r)
    <3>1. config.ways \in Nat \ {0} /\ LineIds = 0 .. config.ways - 1
      BY ConfigFacts
    <3>2. \A i \in LineIds : (i - 0) % config.ways = i
      BY <3>1
    <3>3. \A i, j \in LineIds : EvictedBefore(new, i, j) <=> i < j
      BY <2>1, <2>4, <3>2 DEF EvictedBefore
    <3>4. \A i, j \in LineIds : EvictedBefore(set, i, j) <=> i < j
      BY <2>1, <2>4, <3>2 DEF EvictedBefore
    <3> QED
      BY <1>8, <2>1, <2>2, <3>3, <3>4
  <2>5. Lists(JoinedAtEnd(e, n, r), n + 1, new)
    BY <1>2, <1>7, <2>3, <2>4, JoinedLists
  <2>6. \A j \in LineIds \ Valid(set) : r <= j
    <3>1. LineIds \ Valid(set) # {} /\ LineIds \ Valid(set) \subseteq 0 .. config.ways - 1
      BY <2>2, ConfigFacts
    <3> QED
      BY <1>5, <1>11, <3>1, ConfigFacts, FirstIsLeast
  <2>7. \A i \in Valid(new), j \in LineIds \ Valid(new) : i < j
    <3> SUFFICES ASSUME NEW i \in Valid(new), NEW j \in LineIds \ Valid(new) PROVE i < j
      OBVIOUS
    <3>1. j \in LineIds \ Valid(set) /\ j # r /\ j \in Int /\ r \in Int
      BY <1>2, <1>7, ConfigFacts
    <3>2. CASE i = r
      BY <2>6, <3>1, <3>2
    <3>3. CASE i # r
      BY <1>7, <2>1, <3>1, <3>3
    <3> QED
      BY <3>2, <3>3
  <2> QED
    BY <2>1, <2>5, <2>7 DEF FillsInOrder
<1>12. ASSUME Full(set)
       PROVE  FillsInOrder(new)
  BY <1>2, <1>7, <1>12 DEF FillsInOrder, Full
<1> QED
  BY <1>10, <1>11, <1>12 DEF new, r

\* A hit changes the order in a set for LRU only.
LEMMA FindLists ==
    ASSUME ConfigOK, NEW set \in CacheSet, NEW tag, Holding(set, tag) # {},
           FillsInOrder(set), InOrder(set), NEW n, NEW e, Lists(e, n, set),
           NEW p \in 1 .. n, e[p] = First(Holding(set, tag))
    PROVE  /\ FillsInOrder(Find(set, tag))
           /\ config.repl = "lru" => Lists(MovedToEnd(e, n, p), n, Find(set, tag))
           /\ config.repl # "lru" => Lists(e, n, Find(set, tag))
<1> DEFINE new == Find(set, tag)
<1>1. SameBlocks(set, new) /\ new.first_in = set.first_in
  BY FindFacts, FindFirstIn
<1>2. config.repl # "lru" => new = set
  BY DEF Find
<1>3. config.repl = "lru" =>
        \A i \in LineIds : new.lines[i].access_time =
          IF i = e[p] THEN set.lru_counter ELSE set.lines[i].access_time
  BY FindUsed
<1> HIDE DEF new
<1>4. Valid(new) = Valid(set)
  BY <1>1 DEF SameBlocks, Valid
<1>5. FillsInOrder(new)
  BY <1>1, <1>4 DEF FillsInOrder, Full
<1>6. ASSUME config.repl = "lru"
      PROVE  Lists(MovedToEnd(e, n, p), n, new)
  <2>1. \A i \in Valid(set) : i \in LineIds /\ set.lines[i].access_time < set.lru_counter
    BY DEF InOrder, Valid
  <2>2. \A k, l \in 1 .. n : e[k] = e[l] => k = l
    BY ListsOnce
  <2>3. \A i, j \in Valid(set) :
          i # e[p] /\ j # e[p] /\ EvictedBefore(set, i, j) => EvictedBefore(new, i, j)
    BY <1>3, <1>6, <2>1 DEF EvictedBefore
  <2>4. e[p] \in LineIds
    BY DEF Lists
  <2>5. \A i \in Valid(set) : i # e[p] => EvictedBefore(new, i, e[p])
    BY <1>3, <1>6, <2>1, <2>4 DEF EvictedBefore
  <2> QED
    BY <1>4, <2>2, <2>3, <2>5, MovedLists
<1> QED
  BY <1>2, <1>5, <1>6 DEF new

LEMMA StoredLists ==
    ASSUME ConfigOK, NEW set \in CacheSet, NEW tag, Holding(set, tag) # {},
           FillsInOrder(set), NEW n, NEW e, Lists(e, n, set)
    PROVE  /\ FillsInOrder(Stored(set, tag))
           /\ Lists(e, n, Stored(set, tag))
<1> DEFINE new == Stored(set, tag)
<1>1. /\ SameBlocks(set, new) /\ new.first_in = set.first_in
      /\ \A i \in LineIds : new.lines[i].access_time = set.lines[i].access_time
  BY StoredFacts, StoredFirstIn
<1> HIDE DEF new
<1>2. Valid(new) = Valid(set)
  BY <1>1 DEF SameBlocks, Valid
<1>3. FillsInOrder(new)
  BY <1>1, <1>2 DEF FillsInOrder, Full
<1>4. Lists(e, n, new)
  BY <1>1, <1>2, SameLists
<1> QED
  BY <1>3, <1>4 DEF new

-----------------------------------------------------------------------------
(* Blocks.                                                                 *)

LEMMA Division ==
    ASSUME NEW n \in Nat \ {0}, NEW s \in 0 .. n - 1, NEW t \in Nat
    PROVE  (t * n + s) % n = s /\ (t * n + s) \div n = t
<1>1. t * n + s \in Nat /\ t * n <= t * n + s /\ t * n + s < (t + 1) * n
  <2>1. t * n \in Nat /\ (t + 1) * n = t * n + n
    OBVIOUS
  <2> QED
    BY <2>1
<1>2. (t * n + s) \div n = t
  OBVIOUS
<1>3. \A a \in Nat : a % n = a - n * (a \div n)
  OBVIOUS
<1> QED
  BY <1>1, <1>2, <1>3

LEMMA Quotient ==
    ASSUME NEW n \in Nat \ {0}, NEW b \in Nat, NEW t, NEW s, t = b \div n, s = b % n
    PROVE  t * n + s = b /\ t \in Nat
<1>1. s = b - n * t /\ t \in Nat
  OBVIOUS
<1>2. \A x, y \in Nat : x * y = y * x /\ x * y \in Int
  OBVIOUS
<1>3. t * n = n * t /\ n * t \in Int
  BY <1>1, <1>2
<1> DEFINE p == n * t
<1>4. s = b - p /\ t * n = p /\ p \in Int
  BY <1>1, <1>3
<1> HIDE DEF p
<1>5. p + s = b
  BY <1>4
<1> QED
  BY <1>1, <1>4, <1>5, Zenon

BlockNo(t, s) == t * config.sets + s

LEMMA BlockNoOnce ==
    ASSUME ConfigOK, NEW s \in SetIds, NEW q \in SetIds, NEW t \in Nat, NEW u \in Nat,
           BlockNo(t, s) = BlockNo(u, q)
    PROVE  t = u /\ s = q
<1>1. config.sets \in Nat \ {0} /\ s \in 0 .. config.sets - 1 /\ q \in 0 .. config.sets - 1
  BY ConfigFacts DEF SetIds
<1> DEFINE n == config.sets
<1> HIDE DEF n
<1>2. (t * n + s) % n = s /\ (t * n + s) \div n = t
  BY <1>1, Division DEF n
<1>3. (u * n + q) % n = q /\ (u * n + q) \div n = u
  BY <1>1, Division DEF n
<1>4. t * n + s = u * n + q
  BY DEF BlockNo, n
<1> QED
  BY <1>2, <1>3, <1>4

LEMMA BlockOfAddress ==
    ASSUME ConfigOK, TagHasBits, NEW addr \in Addresses
    PROVE  /\ BlockOf(addr) \in BlockNumbers
           /\ BlockOf(addr) = BlockNo(Tag(addr), SetIndex(addr))
           /\ BlockOf(addr) % config.sets = SetIndex(addr)
           /\ Tag(addr) \in Nat
<1> DEFINE b == BlockOf(addr)
<1>1. b \in Nat /\ SetIndex(addr) = b % config.sets /\ Tag(addr) = b \div config.sets
  BY AddressParts DEF BlockOf
<1>2. b \in BlockNumbers
  BY DEF ConfigOK, Commands, BlockNumbers, BlockOf
<1> HIDE DEF b
<1>3. Tag(addr) * config.sets + SetIndex(addr) = b /\ Tag(addr) \in Nat
  BY <1>1, ConfigFacts, Quotient
<1>4. BlockNo(Tag(addr), SetIndex(addr)) = b
  BY <1>3 DEF BlockNo
<1>5. b % config.sets = SetIndex(addr) /\ Tag(addr) \in Nat
  BY <1>1, <1>3
<1> QED
  BY <1>2, <1>4, <1>5 DEF b

LEMMA TagsAreNumbers ==
    ASSUME ConfigOK, TagHasBits
    PROVE  Tags \subseteq Nat
BY BlockOfAddress DEF Tags

LEMMA DirtyAre ==
    ASSUME CacheInv
    PROVE  DirtyBlocks = {BlockNo(x[2], x[1]) : x \in unpaid}
<1>1. /\ sets \in [SetIds -> CacheSet]
      /\ unpaid = {x \in SetIds \X Tags : x[2] \in DirtyTags(sets[x[1]])}
  BY DEF CacheInv, CacheTypeOK, DirtyIsUnpaid
<1>2. ASSUME NEW b \in DirtyBlocks
      PROVE  \E x \in unpaid : b = BlockNo(x[2], x[1])
  <2>1. PICK s \in SetIds, i \in LineIds :
          /\ sets[s].lines[i].valid /\ sets[s].lines[i].dirty
          /\ b = BlockIn(s, i)
    BY DEF DirtyBlocks
  <2>2. sets[s].lines[i].tag \in Tags
    BY <1>1 DEF CacheSet, CacheLine
  <2>3. sets[s].lines[i].tag \in DirtyTags(sets[s])
    BY <2>1 DEF DirtyTags, Valid
  <2>4. <<s, sets[s].lines[i].tag>> \in unpaid
    BY <1>1, <2>2, <2>3
  <2> QED
    BY <2>1, <2>4 DEF BlockIn, BlockNo
<1>3. ASSUME NEW x \in unpaid
      PROVE  BlockNo(x[2], x[1]) \in DirtyBlocks
  <2>1. x[1] \in SetIds /\ x[2] \in DirtyTags(sets[x[1]])
    BY <1>1
  <2>2. PICK i \in LineIds : /\ sets[x[1]].lines[i].valid /\ sets[x[1]].lines[i].dirty
                             /\ x[2] = sets[x[1]].lines[i].tag
    BY <2>1 DEF DirtyTags, Valid
  <2>3. BlockNo(x[2], x[1]) = BlockIn(x[1], i)
    BY <2>2 DEF BlockNo, BlockIn
  <2>4. <<x[1], i>> \in {y \in SetIds \X LineIds :
           sets[y[1]].lines[y[2]].valid /\ sets[y[1]].lines[y[2]].dirty}
    BY <2>1, <2>2
  <2> QED
    BY <2>3, <2>4 DEF DirtyBlocks
<1> QED
  BY <1>2, <1>3

LEMMA DirtyAreNext ==
    CacheInv' => DirtyBlocks' = {BlockNo(x[2], x[1]) : x \in unpaid}'
<1>1. CacheInv => DirtyBlocks = {BlockNo(x[2], x[1]) : x \in unpaid}
  BY DirtyAre
<1>2. (CacheInv => DirtyBlocks = {BlockNo(x[2], x[1]) : x \in unpaid})'
  BY <1>1, PTL
<1> QED
  BY <1>2

-----------------------------------------------------------------------------
(* The queues of a state and of the next one.                              *)

Listed ==
    \A s \in SetIds : FillsInOrder(sets[s]) /\ \E n, e : Lists(e, n, sets[s])

QueueInv == TimesInv /\ Listed

\* The blocks of the m lines that f lists.
BlocksListed(set, s, m, f) == [k \in 1 .. m |-> BlockNo(set.lines[f[k]].tag, s)]

\* The queue of one set becomes what f lists.
OrderBecomes(new, s, m, f) ==
    Listed' /\ Order' = [Order EXCEPT ![s] = BlocksListed(new, s, m, f)]

LEMMA OrderChanges ==
    ASSUME QueueInv, CacheInv', UNCHANGED config, NEW s \in SetIds, NEW new,
           sets' = [sets EXCEPT ![s] = new],
           FillsInOrder(new), NEW m, NEW f, Lists(f, m, new)
    PROVE  OrderBecomes(new, s, m, f)
<1>1. /\ SetIds' = SetIds /\ LineIds' = LineIds
      /\ sets \in [SetIds -> CacheSet]
      /\ CacheInv
  BY DEF SetIds, LineIds, QueueInv, TimesInv, CacheInv, CacheTypeOK
<1>2. \A q \in SetIds : sets'[q] = IF q = s THEN new ELSE sets[q]
  BY <1>1
<1>3. ASSUME NEW q \in SetIds, NEW n, NEW e, Lists(e, n, sets'[q])
      PROVE  Lists(e, n, sets[q])'
  BY <1>1, <1>3 DEF Lists, Valid, EvictedBefore
<1>4. ASSUME NEW q \in SetIds, FillsInOrder(sets'[q])
      PROVE  FillsInOrder(sets[q])'
  BY <1>1, <1>4 DEF FillsInOrder, Full, Valid
<1>5. \A q \in SetIds : FillsInOrder(sets'[q])
  BY <1>2 DEF QueueInv, Listed
<1>6. \A q \in SetIds : \E n, e : Lists(e, n, sets'[q])
  BY <1>2 DEF QueueInv, Listed
<1>7. Listed'
  BY <1>1, <1>3, <1>4, <1>5, <1>6 DEF Listed
<1>8. QueuesAre /\ QueuesAre'
  BY <1>1, QueueIs, QueueIsNext
<1> DEFINE Are(q, n, e) == Queue(q) = [k \in 1 .. n |-> BlockIn(q, e[k])]
<1>13. \A q \in SetIds : \A n, e : Lists(e, n, sets[q])' => Are(q, n, e)'
  BY <1>1, <1>8 DEF QueuesAre
<1>9. ASSUME NEW q \in SetIds, q # s
      PROVE  Queue(q)' = Queue(q)
  <2>1. PICK n, e : Lists(e, n, sets[q])
    BY DEF QueueInv, Listed
  <2>2. Lists(e, n, sets[q])'
    BY <1>2, <1>3, <1>9, <2>1
  <2>3. Queue(q) = [k \in 1 .. n |-> BlockIn(q, e[k])]
    BY <1>8, <2>1 DEF QueuesAre
  <2>4. Queue(q)' = [k \in 1 .. n |-> BlockIn(q, e[k])']
    <3>1. Are(q, n, e)'
      <4> HIDE DEF Are
      <4> QED
        BY <1>13, <2>2
    <3> QED
      BY <3>1
  <2>5. \A i : BlockIn(q, i)' = BlockIn(q, i)
    BY <1>2, <1>9 DEF BlockIn
  <2> QED
    BY <2>3, <2>4, <2>5
<1>10. Queue(s)' = BlocksListed(new, s, m, f)
  <2>1. Lists(f, m, sets[s])'
    BY <1>2, <1>3
  <2>2. Queue(s)' = [k \in 1 .. m |-> BlockIn(s, f[k])']
    <3>1. Are(s, m, f)'
      <4> HIDE DEF Are
      <4> QED
        BY <1>13, <2>1
    <3> QED
      BY <3>1
  <2>3. \A i : BlockIn(s, i)' = BlockNo(new.lines[i].tag, s)
    BY <1>2 DEF BlockIn, BlockNo
  <2> QED
    BY <2>2, <2>3 DEF BlocksListed
<1>11. Order' = [q \in SetIds |-> Queue(q)']
  BY <1>1 DEF Order
<1>12. Order = [q \in SetIds |-> Queue(q)]
  BY DEF Order
<1> QED
  BY <1>7, <1>9, <1>10, <1>11, <1>12 DEF OrderBecomes

-----------------------------------------------------------------------------
(* Queues as sequences.                                                    *)

LEMMA JoinedSequence ==
    ASSUME NEW n \in Nat, NEW q \in Seq(Int), Len(q) = n, NEW x \in Int
    PROVE  Append(q, x) = [k \in 1 .. n + 1 |-> IF k <= n THEN q[k] ELSE x]
<1> DEFINE a == Append(q, x)
<1>1. /\ a \in Seq(Int) /\ Len(a) = n + 1
      /\ \A k \in 1 .. n : a[k] = q[k]
      /\ a[n + 1] = x
  BY AppendProperties
<1> HIDE DEF a
<1>2. a = [k \in 1 .. n + 1 |-> a[k]]
  BY <1>1
<1>3. \A k \in 1 .. n + 1 : a[k] = IF k <= n THEN q[k] ELSE x
  <2>1. \A k \in 1 .. n + 1 : (k <= n => k \in 1 .. n) /\ (~ (k <= n) => k = n + 1)
    OBVIOUS
  <2> QED
    BY <1>1, <2>1
<1> QED
  BY <1>2, <1>3 DEF a

LEMMA TailSequence ==
    ASSUME NEW n \in Nat \ {0}, NEW q \in Seq(Int), Len(q) = n, NEW x \in Int
    PROVE  Append(Tail(q), x) = [k \in 1 .. n |-> IF k < n THEN q[k + 1] ELSE x]
<1>1. Tail(q) \in Seq(Int) /\ Len(Tail(q)) = n - 1 /\ \A k \in 1 .. n - 1 : Tail(q)[k] = q[k + 1]
  OBVIOUS
<1> DEFINE t == Tail(q)
<1> HIDE DEF t
<1>2. Append(t, x) = [k \in 1 .. (n - 1) + 1 |-> IF k <= n - 1 THEN t[k] ELSE x]
  <2>1. n - 1 \in Nat /\ t \in Seq(Int) /\ Len(t) = n - 1
    BY <1>1 DEF t
  <2> QED
    BY <2>1, JoinedSequence
<1>3. (n - 1) + 1 = n /\ \A k \in 1 .. n : k < n <=> k <= n - 1
  OBVIOUS
<1>4. \A k \in 1 .. n : (IF k <= n - 1 THEN t[k] ELSE x) = IF k < n THEN q[k + 1] ELSE x
  BY <1>1, <1>3 DEF t
<1> QED
  BY <1>2, <1>3, <1>4 DEF t

Requeued(q, n, p, x) ==
    [k \in 1 .. n |-> IF k < p THEN q[k] ELSE IF k < n THEN q[k + 1] ELSE x]

LEMMA MovedSequence ==
    ASSUME NEW n \in Nat, NEW q \in Seq(Int), Len(q) = n, NEW p \in 1 .. n, NEW x \in Int
    PROVE  Append(Ideal!RemoveAt(q, p), x) = Requeued(q, n, p, x)
<1> DEFINE a == SubSeq(q, 1, p - 1)
           b == SubSeq(q, p + 1, n)
           c == a \o b
<1>1. Ideal!RemoveAt(q, p) = c
  BY DEF Ideal!RemoveAt
<1>2. /\ a \in Seq(Int) /\ Len(a) = p - 1 /\ \A k \in 1 .. p - 1 : a[k] = q[k]
      /\ b \in Seq(Int) /\ Len(b) = n - p /\ \A k \in 1 .. n - p : b[k] = q[k + p]
  <2>1. \A k \in 1 .. p - 1 : q[k] \in Int
    OBVIOUS
  <2>2. \A k \in p + 1 .. n : q[k] \in Int
    OBVIOUS
  <2>3. 1 \in Int /\ p - 1 \in Int /\ p + 1 \in Int /\ n \in Int /\ p \in Int
    OBVIOUS
  <2>4. /\ a \in Seq(Int) /\ Len(a) = p - 1 /\ \A k \in 1 .. p - 1 : a[k] = q[k]
    BY <2>1, <2>3
  <2>5. b \in Seq(Int) /\ Len(b) = n - p
    BY <2>2, <2>3
  <2>6. \A k \in 1 .. n - p : b[k] = q[k + p]
    BY <2>3
  <2> QED
    BY <2>4, <2>5, <2>6
<1> HIDE DEF a, b
<1>3. /\ c \in Seq(Int) /\ Len(c) = n - 1
      /\ \A k \in 1 .. n - 1 : c[k] = IF k < p THEN q[k] ELSE q[k + 1]
  <2>1. /\ c \in Seq(Int) /\ Len(c) = Len(a) + Len(b)
        /\ \A k \in 1 .. Len(a) + Len(b) :
             c[k] = IF k <= Len(a) THEN a[k] ELSE b[k - Len(a)]
    BY <1>2, ConcatProperties
  <2>2. \A k \in 1 .. n - 1 : c[k] = IF k <= Len(a) THEN a[k] ELSE b[k - Len(a)]
    <3>1. Len(a) + Len(b) = n - 1
      BY <1>2
    <3> QED
      BY <2>1, <3>1, Zenon
  <2>5. Len(c) = n - 1
    BY <1>2, <2>1
  <2>3. ASSUME NEW k \in 1 .. n - 1, k < p
        PROVE  c[k] = q[k]
    BY <1>2, <2>2, <2>3
  <2>4. ASSUME NEW k \in 1 .. n - 1, ~ (k < p)
        PROVE  c[k] = q[k + 1]
    <3>1. k - (p - 1) \in 1 .. n - p /\ ~ (k <= p - 1) /\ (k - (p - 1)) + p = k + 1
      BY <2>4
    <3>2. c[k] = b[k - (p - 1)]
      BY <1>2, <2>2, <3>1
    <3>3. b[k - (p - 1)] = q[(k - (p - 1)) + p]
      BY <1>2, <3>1
    <3> QED
      BY <3>1, <3>2, <3>3
  <2> HIDE DEF c
  <2> QED
    BY <2>1, <2>3, <2>4, <2>5
<1> HIDE DEF c
<1>4. n - 1 \in Nat /\ (n - 1) + 1 = n
  OBVIOUS
<1>5. Append(c, x) = [k \in 1 .. (n - 1) + 1 |-> IF k <= n - 1 THEN c[k] ELSE x]
  BY <1>3, <1>4, JoinedSequence
<1>6. \A k \in 1 .. n : (IF k <= n - 1 THEN c[k] ELSE x) =
        IF k < p THEN q[k] ELSE IF k < n THEN q[k + 1] ELSE x
  <2> SUFFICES ASSUME NEW k \in 1 .. n
               PROVE  (IF k <= n - 1 THEN c[k] ELSE x) =
                        IF k < p THEN q[k] ELSE IF k < n THEN q[k + 1] ELSE x
    OBVIOUS
  <2>1. CASE k < n
    <3>1. k \in 1 .. n - 1 /\ k <= n - 1
      BY <2>1
    <3> QED
      BY <1>3, <2>1, <3>1
  <2>2. CASE k = n
    <3>1. ~ (k <= n - 1) /\ ~ (k < p) /\ ~ (k < n)
      BY <2>2
    <3> QED
      BY <3>1
  <2> QED
    BY <2>1, <2>2
<1> QED
  BY <1>1, <1>4, <1>5, <1>6 DEF Requeued

LEMMA PositionIs ==
    ASSUME NEW q, NEW x, NEW p \in 1 .. Len(q), q[p] = x,
           \A k \in 1 .. Len(q) : q[k] = x => k = p
    PROVE  Ideal!Position(q, x) = p
BY DEF Ideal!Position

-----------------------------------------------------------------------------
(* The queue that an address leads to.                                     *)

\* The queue q holds the blocks that e lists, that of addr where it hits.
QueueShows(q, s, n, e, addr) ==
    /\ q = BlocksListed(sets[s], s, n, e)
    /\ q \in Seq(Int) /\ Len(q) = n
    /\ \A k, l \in 1 .. n : q[k] = q[l] => k = l
    /\ \A k \in 1 .. n : q[k] = BlockOf(addr) <=> e[k] \in Holding(sets[s], Tag(addr))

LEMMA QueueOfAddress ==
    ASSUME QueueInv, TagHasBits, NEW addr \in Addresses, NEW s, s = SetIndex(addr),
           NEW n, NEW e, Lists(e, n, sets[s])
    PROVE  QueueShows(Order[s], s, n, e, addr)
<1>1. CacheInv /\ ConfigOK
  BY DEF QueueInv, TimesInv, CacheInv
<1>2. s \in SetIds /\ SetOK(sets[s])
  BY <1>1, AddressFacts DEF CacheInv
<1>3. Order[s] = [k \in 1 .. n |-> BlockNo(sets[s].lines[e[k]].tag, s)]
  <2>1. Queue(s) = [k \in 1 .. n |-> BlockIn(s, e[k])]
    BY <1>1, <1>2, QueueIs DEF QueuesAre
  <2>2. Order[s] = Queue(s)
    BY <1>2 DEF Order
  <2> QED
    BY <2>1, <2>2 DEF BlockIn, BlockNo
<1>4. ASSUME NEW k \in 1 .. n
      PROVE  /\ e[k] \in Valid(sets[s]) /\ e[k] \in LineIds
             /\ sets[s].lines[e[k]].tag \in Nat
             /\ BlockNo(sets[s].lines[e[k]].tag, s) \in Int
  <2>1. e[k] \in Valid(sets[s]) /\ e[k] \in LineIds
    BY DEF Lists
  <2>2. sets[s].lines[e[k]].tag \in Tags
    BY <1>2, <2>1 DEF SetOK, CacheSet, CacheLine
  <2>3. sets[s].lines[e[k]].tag \in Nat
    BY <1>1, <2>2, TagsAreNumbers
  <2>4. config.sets \in Nat /\ s \in Int
    BY <1>1, <1>2, ConfigFacts DEF SetIds
  <2>5. \A t, u \in Nat : t * u \in Int
    OBVIOUS
  <2>6. sets[s].lines[e[k]].tag * config.sets \in Int
    BY <2>3, <2>4, <2>5
  <2> QED
    BY <2>1, <2>3, <2>4, <2>6 DEF BlockNo
<1>5. n \in Nat
  BY DEF Lists
<1>6. Order[s] \in Seq(Int) /\ Len(Order[s]) = n
  BY <1>3, <1>4, <1>5
<1>7. ASSUME NEW k \in 1 .. n, NEW l \in 1 .. n, Order[s][k] = Order[s][l]
      PROVE  k = l
  <2>1. BlockNo(sets[s].lines[e[k]].tag, s) = BlockNo(sets[s].lines[e[l]].tag, s)
    BY <1>3, <1>7
  <2>2. sets[s].lines[e[k]].tag = sets[s].lines[e[l]].tag
    BY <1>1, <1>2, <1>4, <2>1, BlockNoOnce
  <2>3. e[k] = e[l]
    BY <1>2, <1>4, <2>2 DEF SetOK, Distinct
  <2> QED
    BY <1>1, <1>2, <2>3, ListsOnce DEF SetOK
<1>8. ASSUME NEW k \in 1 .. n
      PROVE  Order[s][k] = BlockOf(addr) <=> e[k] \in Holding(sets[s], Tag(addr))
  <2>1. Order[s][k] = BlockNo(sets[s].lines[e[k]].tag, s)
    BY <1>3
  <2>2. BlockOf(addr) = BlockNo(Tag(addr), s) /\ Tag(addr) \in Nat
    BY <1>1, BlockOfAddress
  <2>3. e[k] \in Holding(sets[s], Tag(addr)) <=> sets[s].lines[e[k]].tag = Tag(addr)
    BY <1>4 DEF Holding
  <2>4. BlockNo(sets[s].lines[e[k]].tag, s) = BlockNo(Tag(addr), s)
          => sets[s].lines[e[k]].tag = Tag(addr)
    BY <1>1, <1>2, <1>4, <2>2, BlockNoOnce
  <2> QED
    BY <2>1, <2>2, <2>3, <2>4
<1> QED
  BY <1>3, <1>6, <1>7, <1>8 DEF BlocksListed, QueueShows

\* An address hits exactly if its block is in the queue.
LEMMA ResidentIffHit ==
    ASSUME QueueInv, TagHasBits, NEW addr \in Addresses
    PROVE  Ideal!Resident(BlockOf(addr)) <=> Hits(addr)
<1> DEFINE s == SetIndex(addr)
<1>1. ConfigOK /\ s \in SetIds
  BY AddressFacts DEF QueueInv, TimesInv, CacheInv
<1>2. PICK n, e : Lists(e, n, sets[s])
  BY <1>1 DEF QueueInv, Listed
<1>3. Ideal!Home(BlockOf(addr)) = s
  BY <1>1, BlockOfAddress DEF Ideal!Home
<1>4. Ideal!Resident(BlockOf(addr)) <=> \E k \in 1 .. Len(Order[s]) : Order[s][k] = BlockOf(addr)
  BY <1>3 DEF Ideal!Resident, Ideal!Contains
<1>5. /\ Len(Order[s]) = n
      /\ \A k \in 1 .. n :
           Order[s][k] = BlockOf(addr) <=> e[k] \in Holding(sets[s], Tag(addr))
  <2>1. QueueShows(Order[s], s, n, e, addr)
    BY <1>2, QueueOfAddress
  <2> QED
    BY <2>1 DEF QueueShows
<1>6. (\E k \in 1 .. n : e[k] \in Holding(sets[s], Tag(addr))) <=> Hits(addr)
  BY <1>2 DEF Lists, Hits, Holding
<1> QED
  BY <1>4, <1>5, <1>6

-----------------------------------------------------------------------------
(* What an access does to the queue and to the dirty blocks.               *)

LEMMA HitOrder ==
    ASSUME QueueInv, CacheInv', UNCHANGED config, TagHasBits,
           NEW addr \in Addresses, NEW s, s = SetIndex(addr), NEW new,
           sets' = [sets EXCEPT ![s] = new],
           FillsInOrder(new), SameBlocks(sets[s], new),
           NEW n, NEW e, Lists(e, n, sets[s]),
           NEW p \in 1 .. n, e[p] \in Holding(sets[s], Tag(addr)),
           config.repl = "lru" => Lists(MovedToEnd(e, n, p), n, new),
           config.repl # "lru" => Lists(e, n, new)
    PROVE  Listed' /\ Order' = Ideal!Used(BlockOf(addr))
<1> DEFINE b == BlockOf(addr)
           q == Order[s]
           No(i) == BlockNo(sets[s].lines[i].tag, s)
<1>1. ConfigOK /\ s \in SetIds /\ CacheInv
  BY AddressFacts DEF QueueInv, TimesInv, CacheInv
<1>2. /\ q = [k \in 1 .. n |-> No(e[k])]
      /\ q \in Seq(Int) /\ Len(q) = n
      /\ \A k, l \in 1 .. n : q[k] = q[l] => k = l
      /\ q[p] = b
  <2>1. QueueShows(q, s, n, e, addr)
    BY QueueOfAddress
  <2> QED
    BY <2>1 DEF QueueShows, BlocksListed
<1>3. n \in Nat /\ e \in [1 .. n -> LineIds]
  BY DEF Lists
<1>4. \A i \in LineIds : BlockNo(new.lines[i].tag, s) = No(i)
  BY DEF SameBlocks
<1>5. Ideal!Home(b) = s
  BY <1>1, BlockOfAddress DEF Ideal!Home
<1>6. Order = [Order EXCEPT ![s] = q]
  BY <1>1 DEF Order
<1> HIDE DEF b, q, No
<1>7. ASSUME config.repl = "lru"
      PROVE  Listed' /\ Order' = Ideal!Used(b)
  <2> DEFINE f == MovedToEnd(e, n, p)
             new_q == BlocksListed(new, s, n, f)
  <2>1. Listed' /\ Order' = [Order EXCEPT ![s] = new_q]
    <3>1. OrderBecomes(new, s, n, f)
      BY <1>1, <1>7, OrderChanges
    <3> QED
      BY <3>1 DEF OrderBecomes
  <2>2. Ideal!Position(q, b) = p
    BY <1>2, PositionIs
  <2>3. b \in Int
    BY <1>2
  <2>4. Append(Ideal!RemoveAt(q, p), b) = Requeued(q, n, p, b)
    BY <1>2, <1>3, <2>3, MovedSequence
  <2>5. ASSUME NEW k \in 1 .. n
        PROVE  BlockNo(new.lines[f[k]].tag, s) =
                 IF k < p THEN q[k] ELSE IF k < n THEN q[k + 1] ELSE b
    <3>1. f[k] = IF k < p THEN e[k] ELSE IF k < n THEN e[k + 1] ELSE e[p]
      BY DEF MovedToEnd
    <3>2. f[k] \in LineIds
      BY <1>7 DEF Lists
    <3>3. BlockNo(new.lines[f[k]].tag, s) = No(f[k])
      BY <1>4, <3>2
    <3>4. k < n => k + 1 \in 1 .. n
      BY <1>3
    <3> HIDE DEF f
    <3> QED
      BY <1>2, <3>1, <3>3, <3>4
  <2>6. new_q = Append(Ideal!RemoveAt(q, p), b)
    BY <2>4, <2>5 DEF BlocksListed, Requeued
  <2> HIDE DEF new_q
  <2>7. Ideal!Used(b) = [Order EXCEPT ![s] = Append(Ideal!RemoveAt(q, Ideal!Position(q, b)), b)]
    BY <1>5, <1>7 DEF Ideal!Used, q
  <2> QED
    BY <2>1, <2>2, <2>6, <2>7
<1>8. ASSUME config.repl # "lru"
      PROVE  Listed' /\ Order' = Ideal!Used(b)
  <2> DEFINE new_q == BlocksListed(new, s, n, e)
  <2>1. Listed' /\ Order' = [Order EXCEPT ![s] = new_q]
    <3>1. OrderBecomes(new, s, n, e)
      BY <1>1, <1>8, OrderChanges
    <3> QED
      BY <3>1 DEF OrderBecomes
  <2>2. new_q = q
    BY <1>2, <1>3, <1>4 DEF BlocksListed
  <2> HIDE DEF new_q
  <2>3. Ideal!Used(b) = Order
    BY <1>8 DEF Ideal!Used
  <2> QED
    BY <1>6, <2>1, <2>2, <2>3
<1> QED
  BY <1>7, <1>8 DEF b

LEMMA FillOrder ==
    ASSUME QueueInv, CacheInv', UNCHANGED config, TagHasBits,
           NEW addr \in Addresses, NEW s, s = SetIndex(addr), NEW dirty \in BOOLEAN,
           sets' = [sets EXCEPT ![s] = Filled(sets[s], Tag(addr), dirty)]
    PROVE  /\ Listed'
           /\ Len(Order[s]) = config.ways <=> Full(sets[s])
           /\ Full(sets[s]) =>
                /\ Head(Order[s]) = BlockNo(sets[s].lines[Removed(sets[s])].tag, s)
                /\ Order' = [Order EXCEPT ![s] = Append(Tail(Order[s]), BlockOf(addr))]
           /\ ~ Full(sets[s]) =>
                Order' = [Order EXCEPT ![s] = Append(Order[s], BlockOf(addr))]
<1> DEFINE b == BlockOf(addr)
           q == Order[s]
           set == sets[s]
           r == Removed(set)
           new == Filled(set, Tag(addr), dirty)
           No(i) == BlockNo(set.lines[i].tag, s)
           line == [tag |-> Tag(addr), valid |-> TRUE, dirty |-> dirty,
                    access_time |-> set.lru_counter]
<1>1. /\ ConfigOK /\ s \in SetIds /\ Tag(addr) \in Tags
      /\ set \in CacheSet /\ InOrder(set) /\ FillsInOrder(set)
  BY AddressFacts DEF QueueInv, Listed, TimesInv, Unwrapped, CacheInv, SetOK
<1>2. PICK n, e : Lists(e, n, set)
  BY <1>1 DEF QueueInv, Listed
<1>3. /\ q = [k \in 1 .. n |-> No(e[k])]
      /\ q \in Seq(Int) /\ Len(q) = n
  <2>1. QueueShows(q, s, n, e, addr)
    BY <1>2, QueueOfAddress
  <2> QED
    BY <2>1 DEF QueueShows, BlocksListed
<1>4. n \in Nat /\ e \in [1 .. n -> LineIds]
  BY <1>2 DEF Lists
<1>5. new.lines = [set.lines EXCEPT ![r] = line]
  BY <1>1, FilledFacts
<1>6. line.tag = Tag(addr)
  OBVIOUS
<1>7. r \in LineIds /\ (~ Full(set) => r \notin Valid(set)) /\ set.lines \in [LineIds -> CacheLine]
  BY <1>1, RemovedLine DEF CacheSet
<1>8. /\ FillsInOrder(new)
      /\ Full(set) => Lists(MovedToEnd(e, n, 1), n, new)
      /\ ~ Full(set) => Lists(JoinedAtEnd(e, n, r), n + 1, new)
  BY <1>1, <1>2, FilledLists
<1>9. n = config.ways <=> Full(set)
  BY <1>1, <1>2, FullCount
<1>10. BlockNo(Tag(addr), s) = b /\ b \in Int
  <2>1. b \in Nat
    BY <1>1, AddressParts DEF BlockOf
  <2> QED
    BY <1>1, <2>1, BlockOfAddress
<1>11. sets' = [sets EXCEPT ![s] = new]
  OBVIOUS
<1>12. Full(set) => n \in Nat \ {0} /\ e[1] = r
  BY <1>1, <1>2, HeadRemoved
<1>13. \A k \in 1 .. n : e[k] \in Valid(set)
  BY <1>2 DEF Lists
<1>14. \A k, l \in 1 .. n : e[k] = e[l] => k = l
  BY <1>1, <1>2, ListsOnce
<1> HIDE DEF new, line, No
<1>15. \A i \in LineIds : BlockNo(new.lines[i].tag, s) = IF i = r THEN b ELSE No(i)
  BY <1>5, <1>6, <1>7, <1>10 DEF No
<1> HIDE DEF b, q, set, r
<1>16. ASSUME Full(set)
       PROVE  /\ Listed'
              /\ Head(q) = No(r)
              /\ Order' = [Order EXCEPT ![s] = Append(Tail(q), b)]
  <2> DEFINE f == MovedToEnd(e, n, 1)
             new_q == BlocksListed(new, s, n, f)
  <2>1. Listed' /\ Order' = [Order EXCEPT ![s] = new_q]
    <3>1. OrderBecomes(new, s, n, f)
      BY <1>1, <1>8, <1>11, <1>16, OrderChanges
    <3> QED
      BY <3>1 DEF OrderBecomes
  <2>2. n \in Nat \ {0} /\ e[1] = r
    BY <1>12, <1>16
  <2>3. Append(Tail(q), b) = [k \in 1 .. n |-> IF k < n THEN q[k + 1] ELSE b]
    BY <1>3, <1>10, <2>2, TailSequence
  <2>4. ASSUME NEW k \in 1 .. n
        PROVE  BlockNo(new.lines[f[k]].tag, s) = IF k < n THEN q[k + 1] ELSE b
    <3>1. f[k] = IF k < n THEN e[k + 1] ELSE e[1]
      BY DEF MovedToEnd
    <3> HIDE DEF f
    <3>2. CASE k < n
      <4>1. k + 1 \in 1 .. n /\ k + 1 # 1 /\ 1 \in 1 .. n
        BY <1>4, <3>2
      <4>2. f[k] = e[k + 1] /\ e[k + 1] # r /\ e[k + 1] \in LineIds
        BY <1>4, <1>14, <2>2, <3>1, <3>2, <4>1
      <4>3. BlockNo(new.lines[f[k]].tag, s) = No(e[k + 1])
        BY <1>15, <4>2
      <4> QED
        BY <1>3, <3>2, <4>1, <4>3
    <3>3. CASE ~ (k < n)
      BY <1>7, <1>15, <2>2, <3>1, <3>3
    <3> QED
      BY <3>2, <3>3
  <2>5. new_q = Append(Tail(q), b)
    BY <2>3, <2>4 DEF BlocksListed
  <2> HIDE DEF new_q
  <2>6. Head(q) = No(r)
    <3>1. 1 \in 1 .. n /\ q # <<>>
      BY <1>3, <2>2
    <3>2. Head(q) = q[1]
      BY <1>3, <3>1
    <3> QED
      BY <1>3, <2>2, <3>1, <3>2
  <2> QED
    BY <2>1, <2>5, <2>6
<1>17. ASSUME ~ Full(set)
       PROVE  Listed' /\ Order' = [Order EXCEPT ![s] = Append(q, b)]
  <2> DEFINE f == JoinedAtEnd(e, n, r)
             new_q == BlocksListed(new, s, n + 1, f)
  <2>1. Listed' /\ Order' = [Order EXCEPT ![s] = new_q]
    <3>1. OrderBecomes(new, s, n + 1, f)
      BY <1>1, <1>8, <1>11, <1>17, OrderChanges
    <3> QED
      BY <3>1 DEF OrderBecomes
  <2>2. Append(q, b) = [k \in 1 .. n + 1 |-> IF k <= n THEN q[k] ELSE b]
    BY <1>3, <1>4, <1>10, JoinedSequence
  <2>3. ASSUME NEW k \in 1 .. n + 1
        PROVE  BlockNo(new.lines[f[k]].tag, s) = IF k <= n THEN q[k] ELSE b
    <3>1. f[k] = IF k <= n THEN e[k] ELSE r
      BY DEF JoinedAtEnd
    <3> HIDE DEF f
    <3>2. CASE k <= n
      <4>1. k \in 1 .. n
        BY <1>4, <3>2
      <4>2. f[k] = e[k] /\ e[k] # r /\ e[k] \in LineIds
        BY <1>4, <1>7, <1>13, <1>17, <3>1, <3>2, <4>1
      <4> QED
        BY <1>3, <1>15, <3>2, <4>1, <4>2
    <3>3. CASE ~ (k <= n)
      BY <1>7, <1>15, <3>1, <3>3
    <3> QED
      BY <3>2, <3>3
  <2>4. new_q = Append(q, b)
    BY <2>2, <2>3 DEF BlocksListed
  <2> HIDE DEF new_q
  <2> QED
    BY <2>1, <2>4
<1> QED
  BY <1>3, <1>9, <1>16, <1>17 DEF b, q, set, r, No

LEMMA VictimDirty ==
    ASSUME CacheInv, NEW s \in SetIds
    PROVE  WrittenBack(sets[s]) <=>
             /\ Full(sets[s])
             /\ <<s, sets[s].lines[Removed(sets[s])].tag>> \in unpaid
<1> DEFINE set == sets[s]
           r == Removed(set)
           t == set.lines[r].tag
<1>1. ConfigOK /\ SetOK(set)
  BY DEF CacheInv
<1>2. r \in LineIds /\ t \in Tags
  BY <1>1, RemovedLine DEF SetOK, CacheSet, CacheLine
<1>3. <<s, t>> \in unpaid <=> t \in DirtyTags(set)
  BY <1>2, UnpaidBySet
<1>4. r \in Valid(set) => (t \in DirtyTags(set) <=> set.lines[r].dirty)
  <2>1. \A i, j \in Valid(set) : set.lines[i].tag = set.lines[j].tag => i = j
    BY <1>1 DEF SetOK, Distinct
  <2> HIDE DEF r, set
  <2> QED
    BY <2>1 DEF DirtyTags, t
<1>5. Full(set) => r \in Valid(set)
  BY <1>2 DEF Full
<1>6. r \in Valid(set) /\ set.lines[r].dirty => config.back
  BY <1>1 DEF SetOK, DirtyNeedsBack
<1>7. WrittenBack(set) <=> Full(set) /\ set.lines[r].dirty /\ config.back
  BY DEF WrittenBack
<1> QED
  BY <1>3, <1>4, <1>5, <1>6, <1>7

\* The blocks of the lines in U.
BlocksOf(U) == {BlockNo(x[2], x[1]) : x \in U}

LEMMA DirtyBoth ==
    ASSUME CacheInv, CacheInv', UNCHANGED config
    PROVE  DirtyBlocks = BlocksOf(unpaid) /\ DirtyBlocks' = BlocksOf(unpaid')
<1>1. DirtyBlocks = BlocksOf(unpaid)
  BY DirtyAre DEF BlocksOf
<1>2. DirtyBlocks' = {BlockNo(x[2], x[1]) : x \in unpaid}'
  BY DirtyAreNext
<1>3. {BlockNo(x[2], x[1]) : x \in unpaid}' = BlocksOf(unpaid')
  BY DEF BlocksOf, BlockNo
<1> QED
  BY <1>1, <1>2, <1>3

LEMMA BlockInBlocks ==
    ASSUME CacheInv, TagHasBits, NEW s \in SetIds, NEW t \in Tags
    PROVE  /\ BlockNo(t, s) \in BlocksOf(unpaid) <=> <<s, t>> \in unpaid
           /\ BlocksOf(unpaid \ {<<s, t>>}) = BlocksOf(unpaid) \ {BlockNo(t, s)}
<1>1. /\ unpaid \subseteq SetIds \X Tags
      /\ ConfigOK
  BY DEF CacheInv, CacheTypeOK
<1>2. Tags \subseteq Nat
  BY <1>1, TagsAreNumbers
<1>3. \A x \in unpaid : BlockNo(x[2], x[1]) = BlockNo(t, s) <=> x = <<s, t>>
  <2> SUFFICES ASSUME NEW x \in unpaid, BlockNo(x[2], x[1]) = BlockNo(t, s)
               PROVE  x = <<s, t>>
    OBVIOUS
  <2>1. x[1] \in SetIds /\ x[2] \in Nat /\ t \in Nat /\ x = <<x[1], x[2]>>
    <3>1. x \in SetIds \X Tags
      BY <1>1
    <3>2. \A y \in SetIds \X Tags : y[1] \in SetIds /\ y[2] \in Tags /\ y = <<y[1], y[2]>>
      OBVIOUS
    <3> QED
      BY <1>2, <3>1, <3>2
  <2> QED
    BY <1>1, <2>1, BlockNoOnce
<1> QED
  BY <1>3 DEF BlocksOf

-----------------------------------------------------------------------------
(* Every access is one of the ideal cache.                                 *)

\* Every command line leaves bits of the address for the tag.
BitsLeft == \A c \in Commands : Ctz(c.block) + Ctz(c.sets) < AddressBits

LEMMA HasBits ==
    ASSUME BitsLeft, ConfigOK
    PROVE  TagHasBits
BY DEF BitsLeft, Commands, ConfigOK, TagHasBits

LEMMA QueueInvInit == Init => QueueInv
<1> SUFFICES ASSUME Init PROVE QueueInv
  OBVIOUS
<1>1. TimesInv /\ ConfigOK
  BY TimesInvInit DEF TimesInv, CacheInv
<1>2. ASSUME NEW s \in SetIds
      PROVE  FillsInOrder(sets[s]) /\ Lists(<<>>, 0, sets[s])
  <2>1. Valid(sets[s]) = {} /\ sets[s].first_in = 0
    BY DEF Init, Valid, NoLine
  <2>2. <<>> \in [1 .. 0 -> LineIds] /\ 1 .. 0 = {}
    OBVIOUS
  <2> QED
    BY <2>1, <2>2 DEF FillsInOrder, Lists
<1> QED
  BY <1>1, <1>2 DEF QueueInv, Listed

\* The position of the line that find_cache_line returns.
LEMMA HitPosition ==
    ASSUME QueueInv, NEW addr \in Addresses, Hits(addr), NEW s, s = SetIndex(addr)
    PROVE  \E n, e : /\ Lists(e, n, sets[s])
                     /\ \E p \in 1 .. n : /\ e[p] = First(Holding(sets[s], Tag(addr)))
                                          /\ e[p] \in Holding(sets[s], Tag(addr))
<1>1. ConfigOK /\ s \in SetIds /\ sets[s] \in CacheSet
  BY AddressFacts DEF QueueInv, TimesInv, CacheInv, SetOK
<1>2. PICK n, e : Lists(e, n, sets[s])
  BY <1>1 DEF QueueInv, Listed
<1> DEFINE f == First(Holding(sets[s], Tag(addr)))
<1>3. f \in Holding(sets[s], Tag(addr))
  BY <1>1, FoundLine DEF Hits
<1>4. f \in Valid(sets[s])
  BY <1>3 DEF Holding
<1> HIDE DEF f
<1>5. PICK p \in 1 .. n : e[p] = f
  BY <1>2, <1>4 DEF Lists
<1> QED
  BY <1>2, <1>3, <1>5 DEF f

\* The set that an address leads to is in order.
LEMMA SetOfAddress ==
    ASSUME QueueInv, NEW addr \in Addresses, NEW s, s = SetIndex(addr)
    PROVE  /\ ConfigOK /\ s \in SetIds /\ Tag(addr) \in Tags
           /\ SetOK(sets[s]) /\ sets[s] \in CacheSet
           /\ InOrder(sets[s]) /\ FillsInOrder(sets[s])
BY AddressFacts DEF QueueInv, Listed, TimesInv, Unwrapped, CacheInv, SetOK

LEMMA LoadHitOrder ==
    ASSUME QueueInv, CacheInv', TagHasBits, NEW addr \in Addresses, LoadHit(addr)
    PROVE  Listed' /\ Order' = Ideal!Used(BlockOf(addr))
<1> DEFINE s == SetIndex(addr)
           set == sets[s]
           tag == Tag(addr)
           new == Find(set, tag)
<1>1. /\ ConfigOK /\ s \in SetIds /\ set \in CacheSet
      /\ InOrder(set) /\ FillsInOrder(set)
  BY SetOfAddress
<1>2. UNCHANGED config /\ Hits(addr) /\ sets' = [sets EXCEPT ![s] = new]
  BY DEF LoadHit, Access, Replace
<1>3. PICK n, e : /\ Lists(e, n, set)
                  /\ \E p \in 1 .. n : e[p] = First(Holding(set, tag)) /\ e[p] \in Holding(set, tag)
  BY <1>2, HitPosition
<1>4. PICK p \in 1 .. n : e[p] = First(Holding(set, tag)) /\ e[p] \in Holding(set, tag)
  BY <1>3
<1>5. Holding(set, tag) # {}
  BY <1>4
<1>6. /\ FillsInOrder(new)
      /\ config.repl = "lru" => Lists(MovedToEnd(e, n, p), n, new)
      /\ config.repl # "lru" => Lists(e, n, new)
  BY <1>1, <1>3, <1>4, <1>5, FindLists
<1>7. SameBlocks(set, new)
  BY <1>1, <1>5, FindFacts
<1> HIDE DEF new
<1> QED
  BY <1>2, <1>3, <1>4, <1>6, <1>7, HitOrder

LEMMA StoreHitOrder ==
    ASSUME QueueInv, CacheInv', TagHasBits, NEW addr \in Addresses, StoreHit(addr)
    PROVE  Listed' /\ Order' = Ideal!Used(BlockOf(addr))
<1> DEFINE s == SetIndex(addr)
           set == sets[s]
           tag == Tag(addr)
           found == Find(set, tag)
           new == Stored(found, tag)
<1>1. /\ ConfigOK /\ s \in SetIds /\ SetOK(set) /\ set \in CacheSet
      /\ InOrder(set) /\ FillsInOrder(set)
  BY SetOfAddress
<1>2. UNCHANGED config /\ Hits(addr) /\ sets' = [sets EXCEPT ![s] = new]
  BY DEF StoreHit, Access, Replace
<1>3. PICK n, e : /\ Lists(e, n, set)
                  /\ \E p \in 1 .. n : e[p] = First(Holding(set, tag)) /\ e[p] \in Holding(set, tag)
  BY <1>2, HitPosition
<1>4. PICK p \in 1 .. n : e[p] = First(Holding(set, tag)) /\ e[p] \in Holding(set, tag)
  BY <1>3
<1>5. Holding(set, tag) # {}
  BY <1>4
<1>6. /\ FillsInOrder(found)
      /\ config.repl = "lru" => Lists(MovedToEnd(e, n, p), n, found)
      /\ config.repl # "lru" => Lists(e, n, found)
  BY <1>1, <1>3, <1>4, <1>5, FindLists
<1>7. SameBlocks(set, found) /\ found \in CacheSet
  BY <1>1, <1>5, FindFacts
<1>8. Holding(found, tag) # {}
  BY <1>1, <1>5, FindKeeps
<1> HIDE DEF found
<1>9. /\ config.repl = "lru" => FillsInOrder(new) /\ Lists(MovedToEnd(e, n, p), n, new)
      /\ config.repl # "lru" => FillsInOrder(new) /\ Lists(e, n, new)
  BY <1>1, <1>6, <1>7, <1>8, StoredLists
<1>10. SameBlocks(found, new)
  BY <1>1, <1>7, <1>8, StoredFacts
<1> HIDE DEF new
<1>11. SameBlocks(set, new)
  BY <1>7, <1>10 DEF SameBlocks
<1> QED
  BY <1>2, <1>3, <1>4, <1>9, <1>11, HitOrder

\* A miss that brings a block in, as the ideal cache sees it.
LEMMA FillStep ==
    ASSUME QueueInv, CacheInv', TagHasBits, NEW addr \in Addresses, NEW store \in BOOLEAN,
           NEW dirty \in BOOLEAN, dirty = (store /\ config.back),
           UNCHANGED config, ~ Hits(addr), store => config.alloc,
           Replace(addr, Filled(sets[SetIndex(addr)], Tag(addr), dirty)),
           unpaid' = StillUnpaid(addr) \cup
                       IF dirty THEN {<<SetIndex(addr), Tag(addr)>>} ELSE {},
           stats'.load_misses + stats'.store_misses = stats.load_misses + stats.store_misses + 1,
           stats'.total_cycles = stats.total_cycles + FillCost(addr)
                                   + (IF store /\ ~ config.back THEN 100 ELSE 0)
    PROVE  Listed' /\ Ideal!MissFilling(BlockOf(addr), store)
<1> DEFINE s == SetIndex(addr)
           b == BlockOf(addr)
           q == Order[s]
           t == sets[s].lines[Removed(sets[s])].tag
           full == Full(sets[s])
           out == IF full THEN {BlockNo(t, s)} ELSE {}
<1>1. /\ ConfigOK /\ s \in SetIds /\ sets[s] \in CacheSet /\ CacheInv /\ Tag(addr) \in Tags
  BY SetOfAddress DEF QueueInv, TimesInv
<1>2. sets' = [sets EXCEPT ![s] = Filled(sets[s], Tag(addr), dirty)]
  BY DEF Replace
<1>3. /\ Listed'
      /\ Len(q) = config.ways <=> full
      /\ full => /\ Head(q) = BlockNo(t, s)
                 /\ Order' = [Order EXCEPT ![s] = Append(Tail(q), b)]
      /\ ~ full => Order' = [Order EXCEPT ![s] = Append(q, b)]
  BY <1>2, FillOrder
<1>4. Ideal!Home(b) = s
  BY <1>1, BlockOfAddress DEF Ideal!Home
<1>5. ~ Ideal!Resident(b)
  BY ResidentIffHit
<1>6. t \in Tags
  BY <1>1, RemovedLine DEF CacheSet, CacheLine
<1>7. DirtyBlocks = BlocksOf(unpaid) /\ DirtyBlocks' = BlocksOf(unpaid')
  BY <1>1, DirtyBoth
<1>8. /\ BlockNo(t, s) \in DirtyBlocks <=> <<s, t>> \in unpaid
      /\ BlocksOf(unpaid \ {<<s, t>>}) = DirtyBlocks \ {BlockNo(t, s)}
  BY <1>1, <1>6, <1>7, BlockInBlocks
<1>9. WrittenBack(sets[s]) <=> out \cap DirtyBlocks # {}
  BY <1>1, <1>8, VictimDirty
<1>10. BlockNo(Tag(addr), s) = b
  BY <1>1, BlockOfAddress
<1>11. StillUnpaid(addr) = IF WrittenBack(sets[s]) THEN unpaid \ {<<s, t>>} ELSE unpaid
  BY DEF StillUnpaid
<1>12. FillCost(addr) = 1 + Transfer + IF WrittenBack(sets[s]) THEN Transfer ELSE 0
  BY DEF FillCost
<1>13. BlocksOf(StillUnpaid(addr)) = DirtyBlocks \ out
  BY <1>7, <1>8, <1>9, <1>11
<1>14. DirtyBlocks' = (DirtyBlocks \ out) \cup (IF store /\ config.back THEN {b} ELSE {})
  <2>1. CASE dirty
    <3>1. BlocksOf(unpaid') = BlocksOf(StillUnpaid(addr)) \cup {BlockNo(Tag(addr), s)}
      <4> DEFINE x == <<s, Tag(addr)>>
                 U == StillUnpaid(addr)
      <4>1. unpaid' = U \cup {x} /\ x[1] = s /\ x[2] = Tag(addr)
        BY <2>1
      <4> HIDE DEF x, U
      <4>2. BlocksOf(U \cup {x}) = BlocksOf(U) \cup {BlockNo(x[2], x[1])}
        BY DEF BlocksOf
      <4> QED
        BY <4>1, <4>2 DEF U
    <3> QED
      BY <1>7, <1>10, <1>13, <2>1, <3>1
  <2>2. CASE ~ dirty
    BY <1>7, <1>13, <2>2
  <2> QED
    BY <2>1, <2>2
<1>15. /\ Transfer \in Nat /\ Ideal!Transfer = Transfer
       /\ stats.total_cycles \in Nat
  BY <1>1, ConfigFacts DEF Ideal!Transfer, Transfer, CacheInv, CacheTypeOK
<1>16. stats'.total_cycles = stats.total_cycles + 1 + Ideal!Transfer
          + (IF out \cap DirtyBlocks # {} THEN Ideal!Transfer ELSE 0)
          + (IF store /\ ~ config.back THEN 100 ELSE 0)
  BY <1>9, <1>12, <1>15
<1> HIDE DEF s, b, q, full, t
<1>17. out = IF Len(q) = config.ways THEN {Head(q)} ELSE {}
  BY <1>3
<1> HIDE DEF out
<1>18. Order' = [Order EXCEPT ![s] =
                   Append(IF Len(q) = config.ways THEN Tail(q) ELSE q, b)]
  BY <1>3
<1>19. Ideal!MissFilling(b, store)
  BY <1>4, <1>5, <1>14, <1>16, <1>17, <1>18 DEF Ideal!MissFilling, q
<1> QED
  BY <1>3, <1>19 DEF b

\* What the statistics become.
LEMMA HitCounted ==
    ASSUME CacheInv, NEW addr \in Addresses, LoadHit(addr) \/ StoreHit(addr)
    PROVE  /\ stats'.load_misses + stats'.store_misses = stats.load_misses + stats.store_misses
           /\ LoadHit(addr) => stats'.total_cycles = stats.total_cycles + 1
           /\ StoreHit(addr) => stats'.total_cycles =
                                  stats.total_cycles + IF config.back THEN 1 ELSE 101
<1>1. stats \in StatsType
  BY DEF CacheInv, CacheTypeOK, StatsType
<1>2. LoadHit(addr) => /\ stats'.total_cycles = stats.total_cycles + 1
                       /\ stats'.load_misses = stats.load_misses
                       /\ stats'.store_misses = stats.store_misses
  BY <1>1 DEF LoadHit, StatsType
<1>3. StoreHit(addr) => /\ stats'.total_cycles = stats.total_cycles + IF config.back THEN 1 ELSE 101
                        /\ stats'.load_misses = stats.load_misses
                        /\ stats'.store_misses = stats.store_misses
  BY <1>1 DEF StoreHit, StatsType
<1> QED
  BY <1>2, <1>3

LEMMA MissCounted ==
    ASSUME CacheInv, NEW addr \in Addresses,
           LoadMiss(addr) \/ StoreMissAllocate(addr) \/ StoreMissAround(addr)
    PROVE  /\ stats'.load_misses + stats'.store_misses
                = stats.load_misses + stats.store_misses + 1
           /\ LoadMiss(addr) => stats'.total_cycles = stats.total_cycles + FillCost(addr)
           /\ StoreMissAllocate(addr) =>
                stats'.total_cycles = stats.total_cycles +
                                        (FillCost(addr) + IF config.back THEN 0 ELSE 100)
           /\ StoreMissAround(addr) => stats'.total_cycles = stats.total_cycles + 100
<1>1. stats \in StatsType
  BY DEF CacheInv, CacheTypeOK, StatsType
<1>2. stats.load_misses \in Nat /\ stats.store_misses \in Nat
  BY <1>1 DEF StatsType
<1>3. LoadMiss(addr) => /\ stats'.total_cycles = stats.total_cycles + FillCost(addr)
                        /\ stats'.load_misses = stats.load_misses + 1
                        /\ stats'.store_misses = stats.store_misses
  BY <1>1 DEF LoadMiss, StatsType
<1>4. StoreMissAllocate(addr) =>
        /\ stats'.total_cycles = stats.total_cycles +
                                   (FillCost(addr) + IF config.back THEN 0 ELSE 100)
        /\ stats'.load_misses = stats.load_misses
        /\ stats'.store_misses = stats.store_misses + 1
  BY <1>1 DEF StoreMissAllocate, StatsType
<1>5. StoreMissAround(addr) => /\ stats'.total_cycles = stats.total_cycles + 100
                               /\ stats'.load_misses = stats.load_misses
                               /\ stats'.store_misses = stats.store_misses + 1
  BY <1>1 DEF StoreMissAround, StatsType
<1> QED
  BY <1>2, <1>3, <1>4, <1>5

LEMMA UnchangedQueues ==
    ASSUME QueueInv, CacheInv', UNCHANGED <<config, sets, unpaid>>
    PROVE  Listed' /\ Order' = Order /\ DirtyBlocks' = DirtyBlocks
<1>1. CacheInv /\ ConfigOK /\ sets \in [SetIds -> CacheSet]
  BY DEF QueueInv, TimesInv, CacheInv, CacheTypeOK
<1>2. PICK s \in SetIds : TRUE
  BY <1>1, ConfigFacts DEF SetIds
<1>3. FillsInOrder(sets[s])
  BY DEF QueueInv, Listed
<1>4. PICK n, e : Lists(e, n, sets[s])
  BY DEF QueueInv, Listed
<1> DEFINE new == sets[s]
<1>5. sets' = [sets EXCEPT ![s] = new]
  BY <1>1
<1>6. OrderBecomes(new, s, n, e)
  BY <1>3, <1>4, <1>5, OrderChanges
<1>7. Order[s] = BlocksListed(new, s, n, e)
  <2>1. Queue(s) = [k \in 1 .. n |-> BlockIn(s, e[k])]
    BY <1>1, <1>4, QueueIs DEF QueuesAre
  <2> QED
    BY <2>1 DEF Order, BlocksListed, BlockIn, BlockNo
<1>8. Order = [Order EXCEPT ![s] = Order[s]]
  BY DEF Order
<1>9. DirtyBlocks' = DirtyBlocks
  BY <1>1, DirtyBoth
<1> QED
  BY <1>6, <1>7, <1>8, <1>9 DEF OrderBecomes

LEMMA QueueInvNext ==
    ASSUME MaxAccesses < CounterSize, BitsLeft, QueueInv, [Next]_vars
    PROVE  QueueInv' /\ [Ideal!Next]_(Ideal!vars)
<1>1. CacheInv /\ CacheInv' /\ TimesInv' /\ ConfigOK /\ TagHasBits
  BY CacheInvNext, TimesInvNext, HasBits DEF QueueInv, TimesInv, CacheInv
<1>2. config.back \in BOOLEAN
  BY <1>1, ConfigFacts
<1>3. ASSUME NEW addr \in Addresses, NEW store \in BOOLEAN,
             Ideal!Hit(BlockOf(addr), store) \/ Ideal!MissFilling(BlockOf(addr), store)
               \/ Ideal!MissAround(BlockOf(addr))
      PROVE  Ideal!Next
  <2>1. BlockOf(addr) \in BlockNumbers
    BY <1>1, BlockOfAddress
  <2> QED
    BY <1>3, <2>1 DEF Ideal!Next
<1>4. ASSUME NEW addr \in Addresses, LoadHit(addr)
      PROVE  Listed' /\ Ideal!Next
  <2>1. Listed' /\ Order' = Ideal!Used(BlockOf(addr))
    BY <1>1, <1>4, LoadHitOrder
  <2>2. UNCHANGED <<config, unpaid>> /\ Hits(addr)
    BY <1>4 DEF LoadHit, Access
  <2>3. DirtyBlocks' = DirtyBlocks
    BY <1>1, <2>2, DirtyBoth
  <2>4. Ideal!Resident(BlockOf(addr))
    BY <1>1, <2>2, ResidentIffHit
  <2>5. Ideal!Hit(BlockOf(addr), FALSE)
    BY <1>1, <1>4, <2>1, <2>2, <2>3, <2>4, HitCounted DEF Ideal!Hit
  <2> QED
    BY <1>3, <2>1, <2>5
<1>5. ASSUME NEW addr \in Addresses, StoreHit(addr)
      PROVE  Listed' /\ Ideal!Next
  <2> DEFINE s == SetIndex(addr)
             b == BlockOf(addr)
  <2>1. Listed' /\ Order' = Ideal!Used(b)
    BY <1>1, <1>5, StoreHitOrder
  <2>2. /\ UNCHANGED config /\ Hits(addr)
        /\ unpaid' = IF config.back THEN unpaid \cup {<<s, Tag(addr)>>} ELSE unpaid
    BY <1>5 DEF StoreHit, Access
  <2>3. DirtyBlocks = BlocksOf(unpaid) /\ DirtyBlocks' = BlocksOf(unpaid')
    BY <1>1, <2>2, DirtyBoth
  <2>4. BlockNo(Tag(addr), s) = b
    BY <1>1, BlockOfAddress
  <2>5. DirtyBlocks' = IF config.back THEN DirtyBlocks \cup {b} ELSE DirtyBlocks
    <3> DEFINE x == <<s, Tag(addr)>>
    <3>1. x[1] = s /\ x[2] = Tag(addr)
      OBVIOUS
    <3> HIDE DEF x
    <3>2. BlocksOf(unpaid \cup {x}) = BlocksOf(unpaid) \cup {BlockNo(x[2], x[1])}
      BY DEF BlocksOf
    <3> QED
      BY <2>2, <2>3, <2>4, <3>1, <3>2 DEF x
  <2>6. Ideal!Resident(b)
    BY <1>1, <2>2, ResidentIffHit
  <2> HIDE DEF b
  <2>7. Ideal!Hit(b, TRUE)
    BY <1>1, <1>2, <1>5, <2>1, <2>2, <2>5, <2>6, HitCounted DEF Ideal!Hit
  <2> QED
    BY <1>3, <2>1, <2>7 DEF b
<1>6. ASSUME NEW addr \in Addresses, LoadMiss(addr)
      PROVE  Listed' /\ Ideal!Next
  <2>1. /\ UNCHANGED config /\ ~ Hits(addr)
        /\ Replace(addr, Filled(sets[SetIndex(addr)], Tag(addr), FALSE))
        /\ unpaid' = StillUnpaid(addr)
    BY <1>6 DEF LoadMiss, Access
  <2>2. FillCost(addr) \in Nat /\ stats.total_cycles \in Nat
    BY <1>1, FillCostType DEF CacheInv, CacheTypeOK
  <2>3. /\ stats'.load_misses + stats'.store_misses
             = stats.load_misses + stats.store_misses + 1
        /\ stats'.total_cycles = stats.total_cycles + FillCost(addr) + 0
    BY <1>1, <1>6, <2>2, MissCounted
  <2>4. Listed' /\ Ideal!MissFilling(BlockOf(addr), FALSE)
    BY <1>1, <2>1, <2>3, FillStep
  <2> QED
    BY <1>3, <2>4
<1>7. ASSUME NEW addr \in Addresses, StoreMissAllocate(addr)
      PROVE  Listed' /\ Ideal!Next
  <2>1. /\ UNCHANGED config /\ ~ Hits(addr) /\ config.alloc
        /\ Replace(addr, Filled(sets[SetIndex(addr)], Tag(addr), config.back))
        /\ unpaid' = StillUnpaid(addr) \cup
                       IF config.back THEN {<<SetIndex(addr), Tag(addr)>>} ELSE {}
    BY <1>7 DEF StoreMissAllocate, Access
  <2>2. FillCost(addr) \in Nat /\ stats.total_cycles \in Nat
    BY <1>1, FillCostType DEF CacheInv, CacheTypeOK
  <2>3. /\ stats'.load_misses + stats'.store_misses
             = stats.load_misses + stats.store_misses + 1
        /\ stats'.total_cycles = stats.total_cycles + FillCost(addr)
                                   + (IF TRUE /\ ~ config.back THEN 100 ELSE 0)
    BY <1>1, <1>2, <1>7, <2>2, MissCounted
  <2>4. Listed' /\ Ideal!MissFilling(BlockOf(addr), TRUE)
    BY <1>1, <1>2, <2>1, <2>3, FillStep
  <2> QED
    BY <1>3, <2>4
<1>8. ASSUME NEW addr \in Addresses, StoreMissAround(addr)
      PROVE  Listed' /\ Ideal!Next
  <2>1. UNCHANGED <<config, sets, unpaid>> /\ ~ Hits(addr) /\ ~ config.alloc
    BY <1>8 DEF StoreMissAround, Access
  <2>2. Listed' /\ Order' = Order /\ DirtyBlocks' = DirtyBlocks
    BY <1>1, <2>1, UnchangedQueues
  <2>3. ~ Ideal!Resident(BlockOf(addr))
    BY <1>1, <2>1, ResidentIffHit
  <2>4. Ideal!MissAround(BlockOf(addr))
    BY <1>1, <1>8, <2>1, <2>2, <2>3, MissCounted DEF Ideal!MissAround
  <2> QED
    BY <1>3, <2>2, <2>4
<1>9. CASE UNCHANGED vars
  <2>1. Listed' /\ Order' = Order /\ DirtyBlocks' = DirtyBlocks
    BY <1>1, <1>9, UnchangedQueues DEF vars
  <2> QED
    BY <1>1, <1>9, <2>1 DEF QueueInv, Ideal!vars, vars
<1> QED
  BY <1>1, <1>4, <1>5, <1>6, <1>7, <1>8, <1>9 DEF QueueInv, Next

LEMMA IdealInit == Init => Ideal!Init
<1> SUFFICES ASSUME Init PROVE Ideal!Init
  OBVIOUS
<1>1. CacheInv
  BY CacheInvInit
<1>2. ASSUME NEW s \in SetIds
      PROVE  Queue(s) = <<>>
  <2>1. Valid(sets[s]) = {}
    BY DEF Init, Valid, NoLine
  <2>2. <<>> \in [1 .. 0 -> LineIds] /\ 1 .. 0 = {}
    OBVIOUS
  <2>3. Lists(<<>>, 0, sets[s])
    BY <2>1, <2>2 DEF Lists
  <2>4. Queue(s) = [k \in 1 .. 0 |-> BlockIn(s, <<>>[k])]
    BY <1>1, <2>3, QueueIs DEF QueuesAre
  <2> QED
    BY <2>2, <2>4
<1>3. DirtyBlocks = {}
  BY <1>1, DirtyAre DEF Init
<1>4. Order = [s \in 0 .. config.sets - 1 |-> <<>>]
  BY <1>2 DEF Order, SetIds
<1>5. config \in Commands
  BY DEF Init, Commands
<1>6. stats.load_misses + stats.store_misses = 0 /\ stats.total_cycles = 0
  BY DEF Init
<1> QED
  BY <1>3, <1>4, <1>5, <1>6 DEF Ideal!Init

\* The simulator evicts, charges and counts as the ideal cache does, for every
\* accepted command line that leaves bits for the tag and every trace that
\* lru_counter is wide enough for (access_memory as a whole).
THEOREM CacheIsIdeal ==
    ASSUME MaxAccesses < CounterSize, BitsLeft
    PROVE  Spec => ImplementsIdealCache
<1>1. Init => QueueInv /\ Ideal!Init
  BY QueueInvInit, IdealInit
<1>2. QueueInv /\ [Next]_vars => QueueInv' /\ [Ideal!Next]_(Ideal!vars)
  BY QueueInvNext
<1> QED
  BY <1>1, <1>2, PTL DEF Spec, ImplementsIdealCache, Ideal!Spec

\* A block is found at all of its addresses or at none (parse_address).
THEOREM BlocksStayWhole == Spec => []BlocksAreWhole
<1>1. CacheInv => BlocksAreWhole
  BY BlocksWhole DEF CacheInv
<1> QED
  BY <1>1, CacheInvariant, PTL
=============================================================================
