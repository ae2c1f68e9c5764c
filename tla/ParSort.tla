------------------------------ MODULE ParSort ------------------------------
(***************************************************************************)
(* csf_assign04/parsort.c: a merge sort of an array of integers in a       *)
(* shared, memory-mapped file.  A call of merge_sort() on more than        *)
(* threshold elements forks one process for each half, waits for both and  *)
(* merges what they leave in the mapping.                                  *)
(*                                                                         *)
(* A process is named by its path from the first process: <<"L", "R">> is  *)
(* the right child of the left child of <<>>.  A step is a system call, or *)
(* what a process does to the mapping between two system calls; copying    *)
(* back is one step per element.  qsort() and merge() are one step each.   *)
(***************************************************************************)
EXTENDS Integers, Sequences, FiniteSets, TLC

CONSTANTS
    Jobs,       \* contents of the file, with the threshold to sort it with
    ProcLimit,  \* processes the user may have (fork fails beyond)
    MaxFaults   \* bound on calls that fail and processes that are killed

ASSUME LimitsAssumption == {ProcLimit, MaxFaults} \subseteq Nat
ASSUME JobsAssumption ==
    \A job \in Jobs :
        LET n == Cardinality(DOMAIN job[1])
        IN  IsFiniteSet(DOMAIN job[1]) /\ job \in [0 .. n - 1 -> Int] \X Nat

VARIABLES
    arr,        \* the shared mapping
    input,      \* what it held at first
    threshold,  \* the argument, handed down to every process
    procs,      \* the processes forked so far, by path
    faults      \* how many faults have happened

args == <<input, threshold>>
vars == <<arr, input, threshold, procs, faults>>

N == Cardinality(DOMAIN input)

-----------------------------------------------------------------------------
(* A process: the range [begin, end) it sorts, where it is, how it ended   *)
(* ("none" while it runs), the wait status it last received, and its       *)
(* temporary array with the number of elements copied back from it.        *)

Root == <<>>
LeftOf(p) == Append(p, "L")
RightOf(p) == Append(p, "R")
Parent(p) == SubSeq(p, 1, Len(p) - 1)

Outcomes == {"none", "ok", "error", "signal"}
Places == {"main", "sort", "forkright", "waitleft", "waitright", "check",
           "merge", "copy", "unmap"}

Process(pc, b, e) ==
    [pc |-> pc, begin |-> b, end |-> e, outcome |-> "none",
     wstatus |-> "none", temp |-> <<>>, copied |-> 0]

Size(p) == procs[p].end - procs[p].begin

\* Variant with a bug: the middle of a range that starts at 0.
MidFromZero(p) == Size(p) \div 2

Mid(p) == procs[p].begin + Size(p) \div 2
At(p, pc) == procs[p].outcome = "none" /\ procs[p].pc = pc
Ended(p) == procs[p].outcome # "none"

\* An ended process keeps its slot until its parent has waited for it; the
\* children of an ended process are waited for by init.
Zombie(p) ==
    /\ Ended(p)
    /\ p # Root
    /\ ~ Ended(Parent(p))
    /\ procs[Parent(p)].pc \in
         IF p = LeftOf(Parent(p)) THEN {"forkright", "waitleft"}
                                  ELSE {"waitleft", "waitright"}
InUse == {p \in DOMAIN procs : ~ Ended(p) \/ Zombie(p)}

Goto(p, pc) == procs' = [procs EXCEPT ![p].pc = pc]
Exit(p, how) == procs' = [procs EXCEPT ![p].outcome = how]

\* What follows a return from merge_sort(): main goes on, a child exits.
Returned(p, proc) ==
    IF p = Root THEN [proc EXCEPT !.pc = "unmap"]
                ELSE [proc EXCEPT !.outcome = "ok"]

Fault == faults < MaxFaults /\ faults' = faults + 1

-----------------------------------------------------------------------------
(* Sorting and merging.                                                    *)

\* qsort() on [b, e) with compare_i64: every element goes to the place that
\* the number of those before it in the order gives it.
Place(a, b, e, i) ==
    b + Cardinality({j \in b .. e - 1 : a[j] < a[i] \/ (a[j] = a[i] /\ j < i)})
Sorted(a, b, e) ==
    [k \in DOMAIN a |->
        IF k \in b .. e - 1
        THEN a[CHOOSE i \in b .. e - 1 : Place(a, b, e, i) = k]
        ELSE a[k]]

\* Variant with a bug: the loop ends with the shorter half.
MergedShort(a, b, m, e) ==
    LET from[at \in (b .. m) \X (m .. e)] ==
          LET l == at[1]
              r == at[2]
          IN  IF l = m \/ r = e THEN <<>>
              ELSE IF a[l] <= a[r] THEN <<a[l]>> \o from[<<l + 1, r>>]
              ELSE <<a[r]>> \o from[<<l, r + 1>>]
        some == from[<<b, m>>]
    IN  [i \in 1 .. e - b |-> IF i \in DOMAIN some THEN some[i] ELSE a[b + i - 1]]

\* The loop of merge(): what it produces from positions l and r on.
MergedFrom(a, b, m, e) ==
    LET from[at \in (b .. m) \X (m .. e)] ==
          LET l == at[1]
              r == at[2]
          IN  IF l = m /\ r = e THEN <<>>
              ELSE IF l = m \/ (r < e /\ a[l] > a[r])
              THEN <<a[r]>> \o from[<<l, r + 1>>]
              ELSE <<a[l]>> \o from[<<l + 1, r>>]
    IN  from
Merged(a, b, m, e) == MergedFrom(a, b, m, e)[<<b, m>>]

\* The loop of is_sorted.c.
IsSorted(a) == \A i \in DOMAIN a \ {0} : a[i] >= a[i - 1]

-----------------------------------------------------------------------------
Init ==
    /\ \E job \in Jobs : input = job[1] /\ threshold = job[2]
    /\ arr = input
    /\ procs = [p \in {Root} |-> Process("main", 0, N)]
    /\ faults = 0

\* main: open, fstat, mmap.
MapFile ==
    /\ At(Root, "main")
    /\ Goto(Root, "sort")
    /\ UNCHANGED <<arr, args, faults>>

\* One of them fails; mmap() does for an empty file, which is one way for N
\* to be 0 (a file shorter than an integer is the other).
MapFails ==
    /\ At(Root, "main")
    /\ \/ N = 0 /\ UNCHANGED faults
       \/ Fault
    /\ Exit(Root, "error")
    /\ UNCHANGED <<arr, args>>

\* Variant with a bug: ranges of exactly threshold elements are split too.
SmallStrictly(p) == Size(p) < threshold

Small(p) == Size(p) <= threshold

SortSequentially(p) ==
    /\ At(p, "sort")
    /\ Small(p)
    /\ arr' = Sorted(arr, procs[p].begin, procs[p].end)
    /\ procs' = [procs EXCEPT ![p] = Returned(p, @)]
    /\ UNCHANGED <<args, faults>>

Fork(p, child, b, e, pc) ==
    /\ Cardinality(InUse) < ProcLimit
    /\ procs' = [q \in DOMAIN procs \union {child} |->
                    IF q = child THEN Process("sort", b, e)
                                 ELSE [procs EXCEPT ![p].pc = pc][q]]
    /\ UNCHANGED <<arr, args, faults>>

ForkLeft(p) ==
    /\ At(p, "sort")
    /\ ~ Small(p)
    /\ Fork(p, LeftOf(p), procs[p].begin, Mid(p), "forkright")

ForkRight(p) ==
    /\ At(p, "forkright")
    /\ Fork(p, RightOf(p), Mid(p), procs[p].end, "waitleft")

\* fatal("fork() failed").  A left child that is already there goes on.
ForkFails(p) ==
    /\ \/ At(p, "sort") /\ ~ Small(p)
       \/ At(p, "forkright")
    /\ \/ Cardinality(InUse) >= ProcLimit /\ UNCHANGED faults
       \/ Fault
    /\ Exit(p, "error")
    /\ UNCHANGED <<arr, args>>

Wait(p, child, pc) ==
    /\ Ended(child)
    /\ procs' = [procs EXCEPT ![p].wstatus = procs[child].outcome, ![p].pc = pc]
    /\ UNCHANGED <<arr, args, faults>>

\* Variant with a bug: does not wait for the left child.
WaitLeftNoHang(p) ==
    /\ At(p, "waitleft")
    /\ Goto(p, "waitright")
    /\ UNCHANGED <<arr, args, faults>>

\* Variant with a bug: waits until the left child has succeeded.
WaitLeftForSuccess(p) ==
    /\ At(p, "waitleft")
    /\ procs[LeftOf(p)].outcome = "ok"
    /\ Wait(p, LeftOf(p), "waitright")

WaitLeft(p) == At(p, "waitleft") /\ Wait(p, LeftOf(p), "waitright")

\* Variant with a bug: does not wait for the right child.
WaitRightNoHang(p) ==
    /\ At(p, "waitright")
    /\ procs' = [procs EXCEPT ![p].wstatus = "ok", ![p].pc = "check"]
    /\ UNCHANGED <<arr, args, faults>>

\* The second waitpid() overwrites the status of the first.
WaitRight(p) == At(p, "waitright") /\ Wait(p, RightOf(p), "check")

\* Variant with a bug: the status is not examined.
CheckNothing(p) ==
    /\ At(p, "check")
    /\ Goto(p, "merge")
    /\ UNCHANGED <<arr, args, faults>>

Check(p) ==
    /\ At(p, "check")
    /\ IF procs[p].wstatus = "ok" THEN Goto(p, "merge") ELSE Exit(p, "error")
    /\ UNCHANGED <<arr, args, faults>>

MallocFails(p) ==
    /\ At(p, "merge")
    /\ Fault
    /\ Exit(p, "error")
    /\ UNCHANGED <<arr, args>>

Merge(p) ==
    /\ At(p, "merge")
    /\ procs' = [procs EXCEPT
                   ![p].temp = Merged(arr, procs[p].begin, Mid(p), procs[p].end),
                   ![p].pc = "copy"]
    /\ UNCHANGED <<arr, args, faults>>

\* One element of temp_arr back into the mapping; free() after the last.
CopyBack(p) ==
    LET i == procs[p].copied IN
    /\ At(p, "copy")
    /\ arr' = [arr EXCEPT ![procs[p].begin + i] = procs[p].temp[i + 1]]
    /\ procs' = [procs EXCEPT ![p] =
                   IF i + 1 < Size(p)
                   THEN [@ EXCEPT !.copied = i + 1]
                   ELSE Returned(p, [@ EXCEPT !.copied = 0, !.temp = <<>>])]
    /\ UNCHANGED <<args, faults>>

\* main: munmap() and return.
Unmap ==
    /\ At(Root, "unmap")
    /\ \/ Exit(Root, "ok") /\ UNCHANGED faults
       \/ Fault /\ Exit(Root, "error")
    /\ UNCHANGED <<arr, args>>

\* A signal, such as that of the kernel running out of memory.
Killed(p) ==
    /\ ~ Ended(p)
    /\ Fault
    /\ Exit(p, "signal")
    /\ UNCHANGED <<arr, args>>

Step(p) ==
    \/ SortSequentially(p)
    \/ ForkLeft(p)
    \/ ForkRight(p)
    \/ ForkFails(p)
    \/ WaitLeft(p)
    \/ WaitRight(p)
    \/ Check(p)
    \/ MallocFails(p)
    \/ Merge(p)
    \/ CopyBack(p)

Next ==
    \/ MapFile
    \/ MapFails
    \/ Unmap
    \/ \E p \in DOMAIN procs : Step(p) \/ Killed(p)

Spec == Init /\ [][Next]_vars

\* The kernel runs some process as long as one can run.
FairSpec ==
    /\ Spec
    /\ WF_vars(MapFile \/ MapFails \/ Unmap \/ \E p \in DOMAIN procs : Step(p))

-----------------------------------------------------------------------------
(* Properties.                                                             *)

\* A process went on although its left child had failed: wstatus was that
\* of the right child by then.
LeftFailureMissed ==
    \E p \in DOMAIN procs :
        /\ LeftOf(p) \in DOMAIN procs
        /\ procs[LeftOf(p)].outcome \in {"error", "signal"}
        /\ \/ procs[p].pc \in {"merge", "copy", "unmap"}
           \/ procs[p].outcome = "ok"

\* Every variable keeps its type, ranges lie in the array, and the range of
\* a child lies in that of its parent (merge_sort, lines 59-141).
ParTypeOK ==
    /\ args \in Jobs
    /\ arr \in [DOMAIN input -> Int]
    /\ faults \in 0 .. MaxFaults
    /\ \A p \in DOMAIN procs :
         /\ procs[p].pc \in Places
         /\ {procs[p].outcome, procs[p].wstatus} \subseteq Outcomes
         /\ procs[p].temp \in Seq(Int)
         /\ 0 <= procs[p].begin /\ procs[p].begin <= procs[p].end
         /\ procs[p].end <= N
         /\ procs[p].copied \in 0 .. Size(p)
         /\ p # Root => /\ Parent(p) \in DOMAIN procs
                        /\ procs[p].begin >= procs[Parent(p)].begin
                        /\ procs[p].end <= procs[Parent(p)].end

Count(a, v) == Cardinality({i \in DOMAIN a : a[i] = v})
SameElements(a, b) ==
    \A v \in {a[i] : i \in DOMAIN a} \cup {b[i] : i \in DOMAIN b} :
        Count(a, v) = Count(b, v)

\* An exit status of 0 means that the file holds the elements it held
\* before, in order, unless the failure of a left child went unnoticed.
SortedOnSuccess ==
    (procs[Root].outcome = "ok" /\ ~ LeftFailureMissed)
      => IsSorted(arr) /\ SameElements(arr, input)

\* Two processes that are about to write never have a position in common:
\* a parent merges only after its children, and halves do not overlap.
Writing(p) ==
    /\ ~ Ended(p)
    /\ procs[p].pc \in {"merge", "copy"} \/ (procs[p].pc = "sort" /\ Small(p))
WritersDisjoint ==
    \A p, q \in DOMAIN procs :
        (p # q /\ Writing(p) /\ Writing(q) /\ ~ LeftFailureMissed)
          => \/ procs[p].end <= procs[q].begin
             \/ procs[q].end <= procs[p].begin

\* No element is ever lost: those not in the mapping while a process copies
\* back are in its temporary array.  Killed processes take theirs along.
Copying(i) ==
    {p \in DOMAIN procs : At(p, "copy") /\ i \in procs[p].begin .. procs[p].end - 1}
Contents ==
    [i \in DOMAIN arr |->
        IF Copying(i) = {} THEN arr[i]
        ELSE LET p == CHOOSE p \in Copying(i) : TRUE
             IN  procs[p].temp[i - procs[p].begin + 1]]
NothingLost ==
    \/ LeftFailureMissed
    \/ \E p \in DOMAIN procs : procs[p].outcome = "signal"
    \/ SameElements(Contents, input)

\* When main has returned 0 no process is left that changes the file.
ResultFinal ==
    [][(procs[Root].outcome = "ok" /\ ~ LeftFailureMissed) => UNCHANGED arr]_vars

\* A half of a range that is split has at least half of threshold + 1
\* elements, which bounds the leaves of the tree.
MaxLeaves == IF N <= threshold THEN 1 ELSE N \div ((threshold + 1) \div 2)

\* Every process ends, whatever fails: nobody waits for a process that
\* does not end.
EveryProcessEnds == <>[](\A p \in DOMAIN procs : Ended(p))

\* Unless there is a fault, and with slots for the whole tree of processes,
\* the program succeeds and the file is sorted.  An empty file is refused.
Enough == N > 0 /\ threshold > 0 /\ ProcLimit >= 2 * MaxLeaves - 1
Succeeds ==
    <>(\/ procs[Root].outcome = "ok" /\ IsSorted(arr)
       \/ faults > 0
       \/ ~ Enough)

\* "child processes completed successfully" (parsort.c:125).
ChildrenSucceeded ==
    \A p \in DOMAIN procs :
        At(p, "merge") => /\ procs[LeftOf(p)].outcome = "ok"
                          /\ procs[RightOf(p)].outcome = "ok"
=============================================================================
