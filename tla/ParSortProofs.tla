---------------------------- MODULE ParSortProofs ----------------------------
(***************************************************************************)
(* Theorems about ParSort, for files and thresholds of any size, any limit *)
(* on processes and any number of faults: what qsort() and merge() do to   *)
(* any array, what the tree of processes is like, and with both of these   *)
(* what is in the file.                                                    *)
(***************************************************************************)
EXTENDS ParSort, SequenceTheorems, FiniteSetTheorems, WellFoundedInduction, TLAPS

-----------------------------------------------------------------------------
(* Induction on numbers, and elements that change places.                  *)

LEMMA LeastIn ==
    ASSUME NEW n \in Nat, NEW S, S \subseteq 0 .. n, S # {}
    PROVE  \E k \in S : \A j \in S : k <= j
<1> DEFINE Below(k) == S \cap (0 .. k)
           Segments == {Below(k) : k \in S}
<1>1. IsFiniteSet(S)
  <2>1. IsFiniteSet(0 .. n)
    BY FS_Interval
  <2> QED
    BY <2>1, FS_Subset
<1>2. Segments \subseteq FiniteSubsetsOf(S) /\ Segments # {}
  <2>1. \A k \in S : Below(k) \subseteq S /\ IsFiniteSet(Below(k))
    BY <1>1, FS_Subset
  <2>2. \A k \in S : Below(k) \in FiniteSubsetsOf(S)
    BY <2>1 DEF FiniteSubsetsOf
  <2> QED
    BY <2>2
<1>3. \E x \in Segments :
         \A y \in Segments : <<y, x>> \notin StrictSubsetOrdering(S)
  BY <1>2, FS_StrictSubsetOrderingWellFounded, WFMin
<1>4. PICK k \in S :
         \A y \in Segments : <<y, Below(k)>> \notin StrictSubsetOrdering(S)
  BY <1>3
<1>5. ASSUME NEW j \in S, j < k
      PROVE  FALSE
  <2>1. k \in Int /\ j \in Int /\ k >= 0 /\ j >= 0
    OBVIOUS
  <2>2. Below(j) \subseteq Below(k) /\ k \in Below(k) /\ k \notin Below(j)
    BY <1>5, <2>1
  <2>3. <<Below(j), Below(k)>> \in StrictSubsetOrdering(S)
    BY <2>2 DEF StrictSubsetOrdering
  <2> QED
    BY <1>4, <2>3
<1> QED
  BY <1>5

\* A set that has 0, and the next number with every number, has them all.
LEMMA AllNumbers ==
    ASSUME NEW S, 0 \in S, \A k \in Nat : k \in S => k + 1 \in S
    PROVE  \A n \in Nat : n \in S
<1> SUFFICES ASSUME NEW n \in Nat, n \notin S PROVE FALSE
  OBVIOUS
<1> DEFINE Others == (0 .. n) \ S
<1>1. PICK k \in Others : \A j \in Others : k <= j
  <2>1. Others \subseteq 0 .. n /\ n \in Others
    OBVIOUS
  <2> HIDE DEF Others
  <2> QED
    BY <2>1, LeastIn
<1>2. k # 0 /\ k - 1 \in 0 .. n /\ k - 1 \notin Others
  BY <1>1
<1>3. k - 1 \in S /\ k - 1 \in Nat
  BY <1>2
<1> QED
  BY <1>1, <1>3

\* The elements of b at S are those of a at T, each as often.
Rearranged(b, S, a, T) ==
    \E f \in Bijection(S, T) : \A k \in S : b[k] = a[f[k]]

LEMMA Bijective ==
    ASSUME NEW S, NEW T, NEW f
    PROVE  f \in Bijection(S, T) <=> /\ f \in [S -> T]
                                     /\ \A x, y \in S : f[x] = f[y] => x = y
                                     /\ \A z \in T : \E x \in S : f[x] = z
<1>1. f \in Injection(S, T) <=> f \in [S -> T] /\ \A x, y \in S : f[x] = f[y] => x = y
  BY DEF Injection, IsInjective
<1>2. f \in Surjection(S, T) <=> f \in [S -> T] /\ \A z \in T : \E x \in S : f[x] = z
  BY DEF Surjection
<1>3. f \in Bijection(S, T) <=> f \in Injection(S, T) /\ f \in Surjection(S, T)
  BY DEF Bijection
<1> QED
  BY <1>1, <1>2, <1>3

Ordered(a, S) == \A i, j \in S : i <= j => a[i] <= a[j]

-----------------------------------------------------------------------------
(* What merge() does.                                                      *)

MergeStep(a, m, e, f, at) ==
    LET l == at[1]
        r == at[2]
    IN  IF l = m /\ r = e THEN <<>>
        ELSE IF l = m \/ (r < e /\ a[l] > a[r])
        THEN <<a[r]>> \o f[<<l, r + 1>>]
        ELSE <<a[l]>> \o f[<<l + 1, r>>]

\* The recursion of merge() is well founded, so that there is a function as
\* MergedFrom chooses one: at every position it does what the loop does there.
LEMMA MergeLoop ==
    ASSUME NEW a, NEW b \in Int, NEW m \in Int, NEW e \in Int, b <= m, m <= e,
           NEW l \in b .. m, NEW r \in m .. e
    PROVE  MergedFrom(a, b, m, e)[<<l, r>>] =
             MergeStep(a, m, e, MergedFrom(a, b, m, e), <<l, r>>)
<1> DEFINE D == (b .. m) \X (m .. e)
           Left(at) == (m - at[1]) + (e - at[2])
           Upto(k, g) == \A at \in D : Left(at) <= k => g[at] = MergeStep(a, m, e, g, at)
           S == {k \in Nat : \E g : Upto(k, g)}
<1>1. 0 \in S
  <2> DEFINE g == [at \in D |-> <<>>]
  <2>1. Upto(0, g)
    <3> SUFFICES ASSUME NEW at \in D, Left(at) <= 0
                 PROVE  g[at] = MergeStep(a, m, e, g, at)
      OBVIOUS
    <3>1. at[1] \in b .. m /\ at[2] \in m .. e
      OBVIOUS
    <3>2. \A x \in b .. m, y \in m .. e : (m - x) + (e - y) <= 0 => x = m /\ y = e
      OBVIOUS
    <3>3. at[1] = m /\ at[2] = e
      BY <3>1, <3>2
    <3> QED
      BY <3>3 DEF MergeStep
  <2> QED
    BY <2>1
<1>2. ASSUME NEW g, NEW h, NEW at \in D,
             \A z \in D : Left(z) < Left(at) => h[z] = g[z]
      PROVE  MergeStep(a, m, e, h, at) = MergeStep(a, m, e, g, at)
  <2> DEFINE x == at[1]
             y == at[2]
  <2>1. x \in b .. m /\ y \in m .. e
    OBVIOUS
  <2>2. CASE x = m /\ y = e
    BY <2>2 DEF MergeStep
  <2>3. CASE ~ (x = m /\ y = e) /\ (x = m \/ (y < e /\ a[x] > a[y]))
    <3>1. <<x, y + 1>> \in D /\ Left(<<x, y + 1>>) < Left(at)
      BY <2>1, <2>3
    <3>2. h[<<x, y + 1>>] = g[<<x, y + 1>>]
      BY <1>2, <3>1
    <3> QED
      BY <2>3, <3>2 DEF MergeStep
  <2>4. CASE ~ (x = m /\ y = e) /\ ~ (x = m \/ (y < e /\ a[x] > a[y]))
    <3>1. <<x + 1, y>> \in D /\ Left(<<x + 1, y>>) < Left(at)
      BY <2>1, <2>4
    <3>2. h[<<x + 1, y>>] = g[<<x + 1, y>>]
      BY <1>2, <3>1
    <3> QED
      BY <2>4, <3>2 DEF MergeStep
  <2> QED
    BY <2>2, <2>3, <2>4
<1>3. ASSUME NEW k \in Nat, k \in S
      PROVE  k + 1 \in S
  <2>1. PICK g : Upto(k, g)
    BY <1>3
  <2> DEFINE h == [at \in D |-> MergeStep(a, m, e, g, at)]
  <2>2. \A at \in D : Left(at) \in Int
    OBVIOUS
  <2>3. \A at \in D : Left(at) <= k => h[at] = g[at]
    BY <2>1
  <2>4. Upto(k + 1, h)
    <3> SUFFICES ASSUME NEW at \in D, Left(at) <= k + 1
                 PROVE  h[at] = MergeStep(a, m, e, h, at)
      OBVIOUS
    <3>1. \A x \in D : Left(x) < Left(at) => h[x] = g[x]
      BY <2>2, <2>3
    <3>2. h[at] = MergeStep(a, m, e, g, at)
      OBVIOUS
    <3> HIDE DEF h, Left
    <3> QED
      BY <1>2, <3>1, <3>2
  <2> HIDE DEF h, Upto
  <2> QED
    BY <2>4
<1>4. (m - b) + (e - m) \in S
  <2>1. (m - b) + (e - m) \in Nat
    OBVIOUS
  <2> HIDE DEF S
  <2> QED
    BY <1>1, <1>3, <2>1, AllNumbers
<1>5. PICK g : Upto((m - b) + (e - m), g)
  BY <1>4
<1>6. \A at \in D : g[at] = MergeStep(a, m, e, g, at)
  <2>1. \A at \in D : Left(at) <= (m - b) + (e - m)
    OBVIOUS
  <2> QED
    BY <1>5, <2>1
<1> DEFINE h == [at \in D |-> g[at]]
<1>7. h = [at \in D |-> MergeStep(a, m, e, h, at)]
  <2>1. \A at \in D : h[at] = MergeStep(a, m, e, h, at)
    <3> SUFFICES ASSUME NEW at \in D PROVE h[at] = MergeStep(a, m, e, h, at)
      OBVIOUS
    <3>1. \A x \in D : h[x] = g[x]
      OBVIOUS
    <3> HIDE DEF h, Left, D
    <3> QED
      BY <1>2, <1>6, <3>1
  <2>2. h = [at \in D |-> h[at]]
    OBVIOUS
  <2> HIDE DEF h, D
  <2> QED
    BY <2>1, <2>2
<1> DEFINE IsMerge(f) == f = [at \in D |-> MergeStep(a, m, e, f, at)]
           F == MergedFrom(a, b, m, e)
<1>8. F = CHOOSE f : IsMerge(f)
  BY DEF MergedFrom, MergeStep
<1>9. IsMerge(F)
  <2>1. IsMerge(h)
    BY <1>7
  <2> HIDE DEF IsMerge, F
  <2> QED
    BY <1>8, <2>1, Zenon
<1> HIDE DEF F
<1>10. <<l, r>> \in D
  OBVIOUS
<1>11. F = [at \in D |-> MergeStep(a, m, e, F, at)]
  BY <1>9
<1> HIDE DEF D
<1>12. F[<<l, r>>] = MergeStep(a, m, e, F, <<l, r>>)
  BY <1>10, <1>11
<1> QED
  BY <1>12 DEF F

LEMMA OneMore ==
    ASSUME NEW x \in Int, NEW s \in Seq(Int)
    PROVE  /\ <<x>> \o s \in Seq(Int) /\ Len(<<x>> \o s) = Len(s) + 1
           /\ (<<x>> \o s)[1] = x
           /\ \A k \in 2 .. Len(s) + 1 : (<<x>> \o s)[k] = s[k - 1]
           /\ Len(s) \in Nat
<1>1. <<x>> \in Seq(Int) /\ Len(<<x>>) = 1 /\ <<x>>[1] = x
  OBVIOUS
<1>2. Len(s) \in Nat
  BY LenProperties
<1> DEFINE t == <<x>>
<1>3. /\ t \o s \in Seq(Int) /\ Len(t \o s) = Len(t) + Len(s)
      /\ \A i \in 1 .. Len(t) + Len(s) :
            (t \o s)[i] = IF i <= Len(t) THEN t[i] ELSE s[i - Len(t)]
  <2> HIDE DEF t
  <2>1. t \in Seq(Int)
    BY <1>1 DEF t
  <2> QED
    BY <2>1, ConcatProperties
<1>4. Len(t) = 1 /\ t[1] = x
  BY <1>1
<1> HIDE DEF t
<1>5. /\ t \o s \in Seq(Int) /\ Len(t \o s) = Len(s) + 1 /\ (t \o s)[1] = x
      /\ \A k \in 2 .. Len(s) + 1 : (t \o s)[k] = s[k - 1]
  BY <1>2, <1>3, <1>4
<1> QED
  BY <1>2, <1>5 DEF t

\* A sequence that has the elements of a at T.
MergeOf(s, a, T) == s \in Seq(Int) /\ Rearranged(s, 1 .. Len(s), a, T)

AllIntegers(a, T) == \A j \in T : a[j] \in Int
Smallest(a, i, T) == \A j \in T : a[i] <= a[j]

\* One more element put in front, the smallest one if they are in order.
LEMMA OneInFront ==
    ASSUME NEW a, NEW T, NEW i, i \notin T, NEW s, MergeOf(s, a, T),
           AllIntegers(a, T \cup {i})
    PROVE  /\ MergeOf(<<a[i]>> \o s, a, T \cup {i})
           /\ Ordered(s, 1 .. Len(s)) /\ Smallest(a, i, T)
                => Ordered(<<a[i]>> \o s, 1 .. Len(<<a[i]>> \o s))
<1> DEFINE t == <<a[i]>> \o s
           n == Len(s)
<1>1. s \in Seq(Int) /\ a[i] \in Int /\ \A j \in T : a[j] \in Int
  BY DEF MergeOf, AllIntegers
<1>2. /\ t \in Seq(Int) /\ Len(t) = n + 1 /\ t[1] = a[i]
      /\ \A k \in 2 .. n + 1 : t[k] = s[k - 1]
      /\ n \in Nat
  BY <1>1, OneMore
<1> HIDE DEF t, n
<1>3. PICK f \in Bijection(1 .. n, T) : \A k \in 1 .. n : s[k] = a[f[k]]
  BY DEF MergeOf, Rearranged, n
<1>4. /\ f \in [1 .. n -> T]
      /\ \A j, k \in 1 .. n : f[j] = f[k] => j = k
      /\ \A x \in T : \E k \in 1 .. n : f[k] = x
  BY <1>3 DEF Bijection, Injection, IsInjective, Surjection
<1>5. Rearranged(t, 1 .. Len(t), a, T \cup {i})
  <2> DEFINE g == [k \in 1 .. n + 1 |-> IF k = 1 THEN i ELSE f[k - 1]]
  <2>1. 1 \in 1 .. n + 1 /\ \A k \in 1 .. n + 1 : k # 1 => k - 1 \in 1 .. n
    BY <1>2
  <2>2. g \in [1 .. n + 1 -> T \cup {i}]
    BY <1>4, <2>1
  <2>3. g[1] = i /\ \A k \in 1 .. n + 1 : k # 1 => g[k] = f[k - 1]
    BY <2>1
  <2> HIDE DEF g
  <2>4. ASSUME NEW j \in 1 .. n + 1, NEW k \in 1 .. n + 1, g[j] = g[k]
        PROVE  j = k
    <3>1. CASE j # 1 /\ k # 1
      <4>1. f[j - 1] = f[k - 1] /\ j - 1 \in 1 .. n /\ k - 1 \in 1 .. n
        BY <2>1, <2>3, <2>4, <3>1
      <4>2. j - 1 = k - 1
        BY <1>4, <4>1
      <4> QED
        BY <4>2
    <3>2. CASE j = 1 /\ k # 1
      BY <1>4, <2>1, <2>3, <2>4, <3>2
    <3>3. CASE j # 1 /\ k = 1
      BY <1>4, <2>1, <2>3, <2>4, <3>3
    <3> QED
      BY <3>1, <3>2, <3>3
  <2>5. ASSUME NEW x \in T \cup {i}
        PROVE  \E k \in 1 .. n + 1 : g[k] = x
    <3>1. CASE x = i
      BY <2>1, <2>3, <3>1
    <3>2. CASE x \in T
      <4>1. PICK k \in 1 .. n : f[k] = x
        BY <1>4, <3>2
      <4>2. k + 1 \in 1 .. n + 1 /\ k + 1 # 1 /\ (k + 1) - 1 = k
        BY <1>2
      <4>3. g[k + 1] = x
        BY <2>3, <4>1, <4>2
      <4> QED
        BY <4>2, <4>3
    <3> QED
      BY <3>1, <3>2
  <2>6. g \in Bijection(1 .. n + 1, T \cup {i})
    BY <2>2, <2>4, <2>5, Bijective
  <2>7. \A k \in 1 .. n + 1 : t[k] = a[g[k]]
    <3> SUFFICES ASSUME NEW k \in 1 .. n + 1 PROVE t[k] = a[g[k]]
      OBVIOUS
    <3>1. CASE k = 1
      BY <1>2, <2>3, <3>1
    <3>2. CASE k # 1
      <4>1. k \in 2 .. n + 1 /\ k - 1 \in 1 .. n
        BY <1>2, <3>2
      <4> QED
        BY <1>2, <1>3, <2>3, <3>2, <4>1
    <3> QED
      BY <3>1, <3>2
  <2> QED
    BY <1>2, <2>6, <2>7 DEF Rearranged
<1>6. ASSUME Ordered(s, 1 .. n), Smallest(a, i, T)
      PROVE  Ordered(t, 1 .. Len(t))
  <2> SUFFICES ASSUME NEW j \in 1 .. n + 1, NEW k \in 1 .. n + 1, j <= k
               PROVE  t[j] <= t[k]
    BY <1>2 DEF Ordered
  <2>1. \A x, y \in 1 .. n : x <= y => s[x] <= s[y]
    BY <1>6 DEF Ordered
  <2>2. CASE j = 1 /\ k = 1
    BY <1>2, <2>2
  <2>3. CASE j = 1 /\ k # 1
    <3>1. k \in 2 .. n + 1 /\ k - 1 \in 1 .. n
      BY <1>2, <2>3
    <3>2. t[k] = a[f[k - 1]] /\ f[k - 1] \in T
      BY <1>2, <1>3, <1>4, <3>1
    <3> QED
      BY <1>1, <1>2, <1>6, <2>3, <3>2 DEF Smallest
  <2>4. CASE j # 1
    <3>1. /\ j \in 2 .. n + 1 /\ k \in 2 .. n + 1
          /\ j - 1 \in 1 .. n /\ k - 1 \in 1 .. n /\ j - 1 <= k - 1
      BY <1>2, <2>4
    <3> QED
      BY <1>2, <2>1, <3>1
  <2> QED
    BY <2>2, <2>3, <2>4
<1>7. MergeOf(t, a, T \cup {i})
  BY <1>2, <1>5 DEF MergeOf
<1> QED
  BY <1>6, <1>7 DEF t, n

LEMMA NothingToMerge ==
    ASSUME NEW a
    PROVE  MergeOf(<<>>, a, {}) /\ Len(<<>>) = 0 /\ Ordered(<<>>, 1 .. 0)
<1>1. <<>> \in Seq(Int) /\ Len(<<>>) = 0
  BY EmptySeq
<1>2. 1 .. 0 = {}
  OBVIOUS
<1> DEFINE f == [k \in {} |-> k]
<1>3. f \in Bijection({}, {})
  BY Bijective
<1>4. Rearranged(<<>>, {}, a, {})
  BY <1>3 DEF Rearranged
<1> HIDE DEF f
<1> QED
  BY <1>1, <1>2, <1>4 DEF MergeOf, Ordered

\* merge() leaves all the elements of both halves, in order if each half is:
\* from any two positions on, the loop produces what is left of them.
LEMMA MergedIs ==
    ASSUME NEW a, NEW b \in Int, NEW m \in Int, NEW e \in Int, b <= m, m <= e,
           \A i \in b .. e - 1 : a[i] \in Int
    PROVE  /\ MergeOf(Merged(a, b, m, e), a, b .. e - 1)
           /\ Len(Merged(a, b, m, e)) = e - b
           /\ Ordered(a, b .. m - 1) /\ Ordered(a, m .. e - 1)
                => Ordered(Merged(a, b, m, e), 1 .. e - b)
<1> DEFINE F == MergedFrom(a, b, m, e)
           Halves == Ordered(a, b .. m - 1) /\ Ordered(a, m .. e - 1)
           Good(l, r) == /\ MergeOf(F[<<l, r>>], a, (l .. m - 1) \cup (r .. e - 1))
                         /\ Len(F[<<l, r>>]) = (m - l) + (e - r)
                         /\ Halves => Ordered(F[<<l, r>>], 1 .. (m - l) + (e - r))
           S == {k \in Nat : \A l \in b .. m, r \in m .. e :
                               (m - l) + (e - r) = k => Good(l, r)}
<1> HIDE DEF Halves
<1>1. \A l \in b .. m, r \in m .. e :
        F[<<l, r>>] = MergeStep(a, m, e, F, <<l, r>>)
  <2> SUFFICES ASSUME NEW l \in b .. m, NEW r \in m .. e
               PROVE  F[<<l, r>>] = MergeStep(a, m, e, F, <<l, r>>)
    OBVIOUS
  <2> QED
    BY MergeLoop
<1> HIDE DEF F
<1>2. \A l \in b .. m, r \in m .. e :
        F[<<l, r>>] = IF l = m /\ r = e THEN <<>>
                      ELSE IF l = m \/ (r < e /\ a[l] > a[r])
                      THEN <<a[r]>> \o F[<<l, r + 1>>]
                      ELSE <<a[l]>> \o F[<<l + 1, r>>]
  <2> SUFFICES ASSUME NEW l \in b .. m, NEW r \in m .. e
               PROVE  F[<<l, r>>] =
                        IF l = m /\ r = e THEN <<>>
                        ELSE IF l = m \/ (r < e /\ a[l] > a[r])
                        THEN <<a[r]>> \o F[<<l, r + 1>>]
                        ELSE <<a[l]>> \o F[<<l + 1, r>>]
    OBVIOUS
  <2>1. <<l, r>>[1] = l /\ <<l, r>>[2] = r
    OBVIOUS
  <2> QED
    BY <1>1, <2>1 DEF MergeStep
<1>3. 0 \in S
  <2> SUFFICES ASSUME NEW l \in b .. m, NEW r \in m .. e, (m - l) + (e - r) = 0
               PROVE  Good(l, r)
    OBVIOUS
  <2>1. l = m /\ r = e /\ (l .. m - 1) \cup (r .. e - 1) = {}
    OBVIOUS
  <2>2. F[<<l, r>>] = <<>>
    BY <1>2, <2>1
  <2> QED
    BY <2>1, <2>2, NothingToMerge
<1>4. ASSUME NEW k \in Nat, k \in S
      PROVE  k + 1 \in S
  <2> SUFFICES \A l \in b .. m, r \in m .. e : (m - l) + (e - r) = k + 1 => Good(l, r)
    <3> HIDE DEF Good
    <3> QED
      OBVIOUS
  <2> SUFFICES ASSUME NEW l \in b .. m, NEW r \in m .. e, (m - l) + (e - r) = k + 1
               PROVE  Good(l, r)
    <3> HIDE DEF Good
    <3> QED
      OBVIOUS
  <2>0. ~ (l = m /\ r = e)
    OBVIOUS
  <2>1. CASE l = m \/ (r < e /\ a[l] > a[r])
    <3>1. r < e /\ r + 1 \in m .. e /\ (m - l) + (e - (r + 1)) = k
      BY <2>0, <2>1
    <3> DEFINE T == (l .. m - 1) \cup (r + 1 .. e - 1)
               s == F[<<l, r + 1>>]
    <3>2. /\ MergeOf(s, a, T) /\ Len(s) = k
          /\ Halves => Ordered(s, 1 .. k)
      BY <1>4, <3>1
    <3>3. r \notin T /\ T \cup {r} = (l .. m - 1) \cup (r .. e - 1)
      BY <3>1
    <3>4. a[r] \in Int /\ AllIntegers(a, T \cup {r})
      BY <3>1 DEF AllIntegers
    <3>5. Halves => Smallest(a, r, T)
      <4> SUFFICES ASSUME Halves, NEW i \in T PROVE a[r] <= a[i]
        BY DEF Smallest
      <4> USE DEF Halves, Ordered
      <4>1. a[r] \in Int
        BY <3>4
      <4>2. ASSUME NEW j \in r + 1 .. e - 1
            PROVE  a[r] <= a[j]
        BY <3>1
      <4>3. ASSUME NEW j \in l .. m - 1
            PROVE  a[r] <= a[j]
        <5>1. l \in b .. m - 1 /\ j \in b .. m - 1 /\ l <= j
          BY <3>1
        <5>2. a[l] <= a[j] /\ a[l] \in Int /\ a[j] \in Int
          BY <5>1
        <5>3. a[r] < a[l]
          BY <2>1, <5>1, <5>2, <4>1
        <5> QED
          BY <4>1, <5>2, <5>3
      <4> QED
        BY <4>1, <4>2, <4>3
    <3>6. F[<<l, r>>] = <<a[r]>> \o s
      BY <1>2, <2>0, <2>1
    <3> HIDE DEF s, T
    <3> DEFINE t == <<a[r]>> \o s
    <3>7. MergeOf(t, a, T \cup {r}) /\ Len(t) = k + 1
      <4>1. MergeOf(t, a, T \cup {r})
        BY <3>2, <3>3, <3>4, OneInFront
      <4>2. s \in Seq(Int)
        BY <3>2 DEF MergeOf
      <4> QED
        BY <3>2, <3>4, <4>1, <4>2, OneMore
    <3>8. Halves => Ordered(t, 1 .. k + 1)
      <4>1. Ordered(s, 1 .. Len(s)) /\ Smallest(a, r, T) => Ordered(t, 1 .. Len(t))
        BY <3>2, <3>3, <3>4, OneInFront
      <4> HIDE DEF t
      <4> QED
        BY <3>2, <3>5, <3>7, <4>1
    <3> QED
      BY <3>3, <3>6, <3>7, <3>8
  <2>2. CASE ~ (l = m \/ (r < e /\ a[l] > a[r]))
    <3>1. l < m /\ l + 1 \in b .. m /\ (m - (l + 1)) + (e - r) = k
      BY <2>0, <2>2
    <3> DEFINE T == (l + 1 .. m - 1) \cup (r .. e - 1)
               s == F[<<l + 1, r>>]
    <3>2. /\ MergeOf(s, a, T) /\ Len(s) = k
          /\ Halves => Ordered(s, 1 .. k)
      BY <1>4, <3>1
    <3>3. l \notin T /\ T \cup {l} = (l .. m - 1) \cup (r .. e - 1)
      BY <3>1
    <3>4. a[l] \in Int /\ AllIntegers(a, T \cup {l})
      BY <3>1 DEF AllIntegers
    <3>5. Halves => Smallest(a, l, T)
      <4> SUFFICES ASSUME Halves, NEW i \in T PROVE a[l] <= a[i]
        BY DEF Smallest
      <4> USE DEF Halves, Ordered
      <4>1. a[l] \in Int
        BY <3>4
      <4>2. ASSUME NEW j \in l + 1 .. m - 1
            PROVE  a[l] <= a[j]
        <5>1. l \in b .. m - 1 /\ j \in b .. m - 1 /\ l <= j /\ j \in b .. e - 1
          BY <3>1
        <5> QED
          BY <5>1
      <4>3. ASSUME NEW j \in r .. e - 1
            PROVE  a[l] <= a[j]
        <5>1. r \in m .. e - 1 /\ j \in m .. e - 1 /\ r <= j /\ r < e
          OBVIOUS
        <5>2. a[r] <= a[j] /\ a[r] \in Int /\ a[j] \in Int
          BY <5>1
        <5>3. a[l] <= a[r]
          BY <2>2, <4>1, <5>1, <5>2
        <5> QED
          BY <4>1, <5>2, <5>3
      <4> QED
        BY <4>1, <4>2, <4>3
    <3>6. F[<<l, r>>] = <<a[l]>> \o s
      BY <1>2, <2>0, <2>2
    <3> HIDE DEF s, T
    <3> DEFINE t == <<a[l]>> \o s
    <3>7. MergeOf(t, a, T \cup {l}) /\ Len(t) = k + 1
      <4>1. MergeOf(t, a, T \cup {l})
        BY <3>2, <3>3, <3>4, OneInFront
      <4>2. s \in Seq(Int)
        BY <3>2 DEF MergeOf
      <4> QED
        BY <3>2, <3>4, <4>1, <4>2, OneMore
    <3>8. Halves => Ordered(t, 1 .. k + 1)
      <4>1. Ordered(s, 1 .. Len(s)) /\ Smallest(a, l, T) => Ordered(t, 1 .. Len(t))
        BY <3>2, <3>3, <3>4, OneInFront
      <4> HIDE DEF t
      <4> QED
        BY <3>2, <3>5, <3>7, <4>1
    <3> QED
      BY <3>3, <3>6, <3>7, <3>8
  <2> QED
    BY <2>1, <2>2
<1>5. \A k \in Nat : k \in S
  <2> HIDE DEF S
  <2> QED
    BY <1>3, <1>4, AllNumbers
<1>6. \A l \in b .. m, r \in m .. e : Good(l, r)
  <2> SUFFICES ASSUME NEW l \in b .. m, NEW r \in m .. e PROVE Good(l, r)
    OBVIOUS
  <2>1. (m - l) + (e - r) \in Nat
    OBVIOUS
  <2>2. (m - l) + (e - r) \in S
    BY <1>5, <2>1
  <2> HIDE DEF Good
  <2> QED
    BY <2>2
<1>7. b \in b .. m /\ m \in m .. e /\ (b .. m - 1) \cup (m .. e - 1) = b .. e - 1
  OBVIOUS
<1>8. /\ MergeOf(F[<<b, m>>], a, b .. e - 1) /\ Len(F[<<b, m>>]) = (m - b) + (e - m)
      /\ Halves => Ordered(F[<<b, m>>], 1 .. (m - b) + (e - m))
  BY <1>6, <1>7
<1>9. Merged(a, b, m, e) = F[<<b, m>>]
  BY DEF Merged, F
<1>10. (m - b) + (e - m) = e - b
  OBVIOUS
<1> QED
  BY <1>8, <1>9, <1>10 DEF Halves

-----------------------------------------------------------------------------
(* What qsort() does.                                                      *)

\* The places are different, in the range, and in the order of the elements.
LEMMA PlacesDiffer ==
    ASSUME NEW a, NEW b \in Int, NEW e \in Int, \A i \in b .. e - 1 : a[i] \in Int
    PROVE  /\ [i \in b .. e - 1 |-> Place(a, b, e, i)] \in Bijection(b .. e - 1, b .. e - 1)
           /\ \A i, j \in b .. e - 1 : Place(a, b, e, i) <= Place(a, b, e, j) => a[i] <= a[j]
<1> DEFINE R == b .. e - 1
           First(i, j) == a[i] < a[j] \/ (a[i] = a[j] /\ i < j)
           Before(i) == {j \in R : First(j, i)}
           place == [i \in R |-> Place(a, b, e, i)]
<1>1. IsFiniteSet(R) /\ \A i \in R : IsFiniteSet(Before(i)) /\ Cardinality(Before(i)) \in Nat
  <2>1. IsFiniteSet(R)
    BY FS_Interval
  <2>2. \A i \in R : Before(i) \in SUBSET R
    OBVIOUS
  <2> HIDE DEF R, Before
  <2> QED
    BY <2>1, <2>2, FS_Subset, FS_CardinalityType
<1>2. \A i \in R : place[i] = b + Cardinality(Before(i)) /\ place[i] = Place(a, b, e, i)
  BY DEF Place
<1>3. ASSUME NEW i \in R, NEW j \in R, First(i, j)
      PROVE  place[i] < place[j]
  <2>1. Before(i) \subseteq Before(j) /\ i \in Before(j) /\ i \notin Before(i)
    BY <1>3
  <2>2. /\ Cardinality(Before(i)) <= Cardinality(Before(j))
        /\ Cardinality(Before(i)) # Cardinality(Before(j))
    <3> HIDE DEF Before, R
    <3>1. IsFiniteSet(Before(j)) /\ Before(i) \in SUBSET Before(j) /\ Before(i) # Before(j)
      BY <1>1, <2>1
    <3> QED
      BY <3>1, FS_Subset
  <2> HIDE DEF place, Before
  <2> QED
    BY <1>1, <1>2, <2>2
<1>4. \A i, j \in R : i = j \/ First(i, j) \/ First(j, i)
  OBVIOUS
<1>5. ASSUME NEW i \in R
      PROVE  place[i] \in R
  <2>1. Before(i) \subseteq R \ {i}
    OBVIOUS
  <2>2. Cardinality(R) = e - b
    <3>1. b <= e - 1
      OBVIOUS
    <3>2. Cardinality(b .. e - 1) = (e - 1) - b + 1
      BY <3>1, FS_Interval
    <3> QED
      BY <3>2
  <2>3. IsFiniteSet(R \ {i}) /\ Cardinality(R \ {i}) = Cardinality(R) - 1
    <3> HIDE DEF R
    <3> QED
      BY <1>1, FS_RemoveElement
  <2>4. Cardinality(Before(i)) <= Cardinality(R \ {i})
    <3> HIDE DEF Before, R
    <3> QED
      BY <2>1, <2>3, FS_Subset
  <2>5. Cardinality(Before(i)) \in Nat /\ Cardinality(Before(i)) <= e - b - 1
    <3> HIDE DEF Before, R
    <3> QED
      BY <1>1, <2>2, <2>3, <2>4
  <2> DEFINE c == Cardinality(Before(i))
  <2>6. place[i] = b + c
    BY <1>2
  <2> HIDE DEF c, place
  <2>7. c \in Nat /\ c <= e - b - 1
    BY <2>5 DEF c
  <2> QED
    BY <2>6, <2>7
<1>6. place \in [R -> R] /\ \A i, j \in R : place[i] = place[j] => i = j
  <2>1. place \in [R -> R]
    BY <1>5
  <2>2. ASSUME NEW i \in R, NEW j \in R, place[i] = place[j]
        PROVE  i = j
    <3>1. place[i] \in Int /\ place[j] \in Int
      BY <1>5
    <3> HIDE DEF place, First
    <3> QED
      BY <1>3, <1>4, <2>2, <3>1
  <2> QED
    BY <2>1, <2>2
<1>7. place \in Bijection(R, R)
  <2> HIDE DEF place, R
  <2>1. place \in Injection(R, R)
    BY <1>6 DEF Injection, IsInjective
  <2>2. place \in Surjection(R, R)
    BY <1>1, <2>1, FS_Injection
  <2> QED
    BY <2>1, <2>2 DEF Bijection
<1>8. ASSUME NEW i \in R, NEW j \in R, place[i] <= place[j]
      PROVE  a[i] <= a[j]
  <2>1. ~ First(j, i)
    <3>1. place[i] \in Int /\ place[j] \in Int
      BY <1>5
    <3> HIDE DEF place, First
    <3> QED
      BY <1>3, <1>8, <3>1
  <2> QED
    BY <2>1
<1>9. \A i, j \in R : Place(a, b, e, i) <= Place(a, b, e, j) => a[i] <= a[j]
  <2> HIDE DEF place, R
  <2> QED
    BY <1>2, <1>8
<1> QED
  BY <1>7, <1>9

LEMMA SortedIs ==
    ASSUME NEW a, NEW b \in Int, NEW e \in Int,
           \A i \in b .. e - 1 : i \in DOMAIN a /\ a[i] \in Int
    PROVE  /\ DOMAIN Sorted(a, b, e) = DOMAIN a
           /\ Sorted(a, b, e) = [k \in DOMAIN a |-> Sorted(a, b, e)[k]]
           /\ \A k \in DOMAIN a : k \notin b .. e - 1 => Sorted(a, b, e)[k] = a[k]
           /\ Rearranged(Sorted(a, b, e), b .. e - 1, a, b .. e - 1)
           /\ Ordered(Sorted(a, b, e), b .. e - 1)
<1> DEFINE R == b .. e - 1
           P(i) == Place(a, b, e, i)
           From(k) == CHOOSE i \in R : P(i) = k
           place == [i \in R |-> P(i)]
           s == Sorted(a, b, e)
           f == [k \in R |-> From(k)]
<1>1. /\ DOMAIN s = DOMAIN a /\ s = [k \in DOMAIN a |-> s[k]]
      /\ \A k \in DOMAIN a : s[k] = IF k \in R THEN a[From(k)] ELSE a[k]
  BY DEF Sorted
<1>2. /\ place \in Bijection(R, R)
      /\ \A i, j \in R : P(i) <= P(j) => a[i] <= a[j]
  BY PlacesDiffer
<1>3. /\ place \in [R -> R]
      /\ \A i, j \in R : place[i] = place[j] => i = j
      /\ \A k \in R : \E i \in R : place[i] = k
  <2> HIDE DEF place, R
  <2> QED
    BY <1>2 DEF Bijection, Injection, IsInjective, Surjection
<1>4. /\ \A i \in R : P(i) \in R
      /\ \A i, j \in R : P(i) = P(j) => i = j
      /\ \A k \in R : \E i \in R : P(i) = k
  <2>1. \A i \in R : place[i] = P(i)
    OBVIOUS
  <2> HIDE DEF place, P, R
  <2> QED
    BY <1>3, <2>1
<1>5. R \subseteq DOMAIN a /\ R \subseteq Int
  OBVIOUS
<1> HIDE DEF place, P, R, s
<1>6. \A k \in R : From(k) \in R /\ P(From(k)) = k
  BY <1>4
<1> HIDE DEF From
<1>7. \A k \in R : s[k] = a[From(k)]
  BY <1>1, <1>5
<1>8. f \in Bijection(R, R)
  <2>1. f \in [R -> R]
    BY <1>6
  <2>2. \A x, y \in R : f[x] = f[y] => x = y
    BY <1>6
  <2>3. \A i \in R : \E k \in R : f[k] = i
    <3> SUFFICES ASSUME NEW i \in R PROVE \E k \in R : f[k] = i
      OBVIOUS
    <3>1. P(i) \in R /\ From(P(i)) = i
      BY <1>4, <1>6
    <3> QED
      BY <3>1
  <2> HIDE DEF f
  <2> QED
    BY <2>1, <2>2, <2>3, Bijective
<1>9. Rearranged(s, R, a, R)
  <2>1. \A k \in R : s[k] = a[f[k]]
    BY <1>7
  <2> HIDE DEF f
  <2> QED
    BY <1>8, <2>1 DEF Rearranged
<1>10. Ordered(s, R)
  <2> SUFFICES ASSUME NEW x \in R, NEW y \in R, x <= y PROVE s[x] <= s[y]
    BY DEF Ordered
  <2>1. From(x) \in R /\ From(y) \in R /\ P(From(x)) <= P(From(y))
    BY <1>6
  <2> QED
    BY <1>2, <1>7, <2>1
<1> QED
  BY <1>1, <1>5, <1>9, <1>10 DEF s, R

-----------------------------------------------------------------------------
(* Paths in the tree of processes: q is under p if p is a proper prefix.   *)

Paths == Seq({"L", "R"})

Under(q, p) == Len(p) < Len(q) /\ \A i \in 1 .. Len(p) : q[i] = p[i]

LEMMA PathLength == \A p \in Paths : Len(p) \in Nat
BY LenProperties DEF Paths

LEMMA ChildPath ==
    ASSUME NEW p \in Paths, NEW x \in {"L", "R"}
    PROVE  /\ Append(p, x) \in Paths
           /\ Len(Append(p, x)) = Len(p) + 1
           /\ \A i \in 1 .. Len(p) : Append(p, x)[i] = p[i]
           /\ Append(p, x)[Len(p) + 1] = x
BY AppendProperties DEF Paths

LEMMA ChildrenDiffer ==
    ASSUME NEW p \in Paths
    PROVE  /\ LeftOf(p) \in Paths /\ RightOf(p) \in Paths
           /\ LeftOf(p) # RightOf(p) /\ LeftOf(p) # p /\ RightOf(p) # p
<1>1. Len(p) \in Nat
  BY PathLength
<1> QED
  BY <1>1, ChildPath DEF LeftOf, RightOf

LEMMA UnderIsStrict == \A p \in Paths : ~ Under(p, p)
BY PathLength DEF Under

LEMMA UnderRoot == \A p \in Paths : p # Root => Under(p, Root)
BY EmptySeq DEF Paths, Under, Root

LEMMA UnderTransitive ==
    ASSUME NEW p \in Paths, NEW q \in Paths, NEW r \in Paths,
           Under(q, p), Under(r, q)
    PROVE  Under(r, p)
<1>1. Len(p) \in Nat /\ Len(q) \in Nat /\ Len(r) \in Nat
  BY PathLength
<1> QED
  BY <1>1 DEF Under

LEMMA AboveChild ==
    ASSUME NEW p \in Paths, NEW x \in {"L", "R"}, NEW s \in Paths
    PROVE  Under(Append(p, x), s) <=> (s = p \/ Under(p, s))
<1> DEFINE c == Append(p, x)
<1>0. Len(p) \in Nat /\ Len(s) \in Nat
  BY PathLength
<1>1. /\ c \in Paths /\ Len(c) = Len(p) + 1
      /\ \A i \in 1 .. Len(p) : c[i] = p[i]
  BY ChildPath
<1> HIDE DEF c
<1>2. CASE Len(s) = Len(p)
  <2>1. Under(c, s) <=> \A i \in 1 .. Len(s) : s[i] = p[i]
    BY <1>0, <1>1, <1>2 DEF Under
  <2>2. (\A i \in 1 .. Len(s) : s[i] = p[i]) <=> s = p
    BY <1>2, SeqEqual DEF Paths
  <2> QED
    BY <1>0, <1>2, <2>1, <2>2 DEF Under
<1>3. CASE Len(s) < Len(p)
  BY <1>0, <1>1, <1>3 DEF Under
<1>4. CASE Len(s) > Len(p)
  BY <1>0, <1>1, <1>4 DEF Under
<1> QED
  BY <1>0, <1>2, <1>3, <1>4 DEF c

LEMMA UnderAChild ==
    ASSUME NEW p \in Paths, NEW q \in Paths, Under(q, p)
    PROVE  \/ q \in {LeftOf(p), RightOf(p)}
           \/ Under(q, LeftOf(p)) \/ Under(q, RightOf(p))
<1>0. Len(p) \in Nat /\ Len(q) \in Nat /\ Len(p) < Len(q)
  BY PathLength DEF Under
<1> DEFINE x == q[Len(p) + 1]
           c == Append(p, x)
<1>1. x \in {"L", "R"}
  BY <1>0, ElementOfSeq DEF Paths
<1>2. /\ c \in Paths /\ Len(c) = Len(p) + 1
      /\ \A i \in 1 .. Len(p) : c[i] = p[i]
      /\ c[Len(p) + 1] = x
  BY <1>1, ChildPath
<1>3. c \in {LeftOf(p), RightOf(p)}
  BY <1>1 DEF LeftOf, RightOf
<1> HIDE DEF c
<1>4. \A i \in 1 .. Len(c) : q[i] = c[i]
  BY <1>0, <1>2 DEF Under
<1>5. Len(q) = Len(c) => q = c
  BY <1>2, <1>4, SeqEqual DEF Paths
<1>6. Len(q) # Len(c) => Under(q, c)
  BY <1>0, <1>2, <1>4 DEF Under
<1> QED
  BY <1>3, <1>5, <1>6

-----------------------------------------------------------------------------
(* What the proofs need to know of a state.                                *)

Fields == {"pc", "begin", "end", "outcome", "wstatus", "temp", "copied"}

\* A process is a record whose range is one of integers.
ProcessOK(r) ==
    /\ DOMAIN r = Fields
    /\ r = [f \in DOMAIN r |-> r[f]]
    /\ r.pc \in Places /\ r.outcome \in Outcomes
    /\ r.begin \in Int /\ r.end \in Int /\ r.begin <= r.end

\* The processes form a tree, and ranges shrink on the way down.
TreeOK ==
    /\ Root \in DOMAIN procs /\ DOMAIN procs \subseteq Paths
    /\ threshold \in Nat
    /\ \A p \in DOMAIN procs : ProcessOK(procs[p])
    /\ \A p \in Paths, q \in DOMAIN procs : Under(q, p) => p \in DOMAIN procs

RangesNested ==
    \A p, q \in DOMAIN procs :
        Under(q, p) => procs[p].begin <= procs[q].begin /\ procs[q].end <= procs[p].end

Apart(p, q) == procs[p].end <= procs[q].begin \/ procs[q].end <= procs[p].begin

RangesApart ==
    \A p, q \in DOMAIN procs : p = q \/ Under(p, q) \/ Under(q, p) \/ Apart(p, q)

\* Which children a process has, and what it knows of them, where it is.
ChildrenOK ==
    \A p \in DOMAIN procs :
        /\ procs[p].pc \in {"main", "sort"} => LeftOf(p) \notin DOMAIN procs
        /\ procs[p].pc \in {"main", "sort", "forkright"} => RightOf(p) \notin DOMAIN procs
        /\ LeftOf(p) \in DOMAIN procs =>
             procs[LeftOf(p)].end = procs[p].begin + Size(p) \div 2
        /\ procs[p].pc \in {"forkright", "waitleft", "waitright", "check"} =>
             LeftOf(p) \in DOMAIN procs
        /\ procs[p].pc \in {"waitleft", "waitright", "check"} =>
             RightOf(p) \in DOMAIN procs
        /\ procs[p].pc \in {"waitright", "check"} => Ended(LeftOf(p))
        /\ procs[p].pc = "check" =>
             Ended(RightOf(p)) /\ procs[p].wstatus = procs[RightOf(p)].outcome

\* A process that has gone on after its children, or did not need any.
WentOn(p) == procs[p].pc \in {"merge", "copy", "unmap"} \/ procs[p].outcome = "ok"

\* Everything below a process that has gone on has ended well.
BelowEnded ==
    ~ LeftFailureMissed =>
        \A p, q \in DOMAIN procs : Under(q, p) /\ WentOn(p) => procs[q].outcome = "ok"

SortInv == TreeOK /\ RangesNested /\ RangesApart /\ ChildrenOK /\ BelowEnded

LEMMA Middle ==
    ASSUME NEW b \in Int, NEW e \in Int, b <= e
    PROVE  /\ b + (e - b) \div 2 \in Int
           /\ b <= b + (e - b) \div 2 /\ b + (e - b) \div 2 <= e
OBVIOUS

-----------------------------------------------------------------------------
(* The initial state.                                                      *)

LEMMA NewProcess ==
    ASSUME NEW pc \in Places, NEW b \in Int, NEW e \in Int, b <= e
    PROVE  /\ ProcessOK(Process(pc, b, e))
           /\ Process(pc, b, e).pc = pc
           /\ Process(pc, b, e).begin = b /\ Process(pc, b, e).end = e
           /\ Process(pc, b, e).outcome = "none"
<1>1. DOMAIN Process(pc, b, e) = Fields
  BY DEF Process, Fields
<1> QED
  BY <1>1 DEF Process, ProcessOK, Outcomes

LEMMA InitSortInv == Init => SortInv
<1> SUFFICES ASSUME Init PROVE SortInv
  OBVIOUS
<1>1. N \in Nat /\ threshold \in Nat
  <2>1. PICK job \in Jobs : input = job[1] /\ threshold = job[2]
    BY DEF Init
  <2> QED
    BY <2>1, JobsAssumption, FS_CardinalityType DEF N
<1>2. DOMAIN procs = {Root} /\ procs[Root] = Process("main", 0, N)
  BY DEF Init
<1>3. Root \in Paths /\ Len(Root) = 0
  BY EmptySeq DEF Root, Paths
<1>4. /\ ProcessOK(procs[Root]) /\ procs[Root].pc = "main"
      /\ procs[Root].outcome = "none"
  BY <1>1, <1>2, NewProcess DEF Places
<1>5. \A p \in Paths : ~ Under(Root, p)
  BY <1>3, PathLength DEF Under
<1>6. LeftOf(Root) \notin DOMAIN procs /\ RightOf(Root) \notin DOMAIN procs
  BY <1>2, <1>3, ChildrenDiffer
<1>7. TreeOK
  BY <1>1, <1>2, <1>3, <1>4, <1>5 DEF TreeOK
<1>8. RangesNested /\ RangesApart /\ BelowEnded
  BY <1>2, <1>3, <1>5 DEF RangesNested, RangesApart, BelowEnded
<1>9. ChildrenOK
  BY <1>2, <1>4, <1>6 DEF ChildrenOK
<1> QED
  BY <1>7, <1>8, <1>9 DEF SortInv

-----------------------------------------------------------------------------
(* A fork.                                                                 *)

Forked(p, c, b, e, pc) ==
    /\ c \in Paths /\ c # p
    /\ DOMAIN procs' = DOMAIN procs \union {c}
    /\ procs'[c] = Process("sort", b, e) /\ ProcessOK(procs'[c])
    /\ \A q \in DOMAIN procs :
         /\ ProcessOK(procs'[q])
         /\ procs'[q].begin = procs[q].begin /\ procs'[q].end = procs[q].end
         /\ procs'[q].outcome = procs[q].outcome
         /\ q # p => procs'[q] = procs[q]
    /\ procs'[p].pc = pc
    /\ threshold' = threshold

LEMMA ForkedState ==
    ASSUME SortInv, NEW p \in DOMAIN procs, NEW x \in {"L", "R"},
           NEW b \in Int, NEW e \in Int, b <= e,
           NEW pc \in {"forkright", "waitleft"},
           NEW c, c = Append(p, x), c \notin DOMAIN procs,
           Fork(p, c, b, e, pc)
    PROVE  Forked(p, c, b, e, pc)
<1>1. c \in Paths /\ c # p
  <2>1. p \in Paths
    BY DEF SortInv, TreeOK
  <2> QED
    BY <2>1, ChildPath, PathLength
<1>2. procs' = [q \in DOMAIN procs \union {c} |->
                  IF q = c THEN Process("sort", b, e)
                           ELSE [procs EXCEPT ![p].pc = pc][q]]
  BY DEF Fork
<1>4. DOMAIN procs' = DOMAIN procs \union {c}
  BY <1>2
<1>5. procs'[c] = Process("sort", b, e)
  BY <1>2
<1>6. procs'[p] = [procs[p] EXCEPT !.pc = pc]
  BY <1>1, <1>2
<1>7. \A q \in DOMAIN procs : q # p => procs'[q] = procs[q]
  BY <1>2
<1>8. ProcessOK(procs'[c])
  <2>1. "sort" \in Places
    BY DEF Places
  <2>2. ProcessOK(Process("sort", b, e))
    BY <2>1, NewProcess
  <2> QED
    BY <1>5, <2>2
<1>9. \A q \in DOMAIN procs : ProcessOK(procs[q])
  BY DEF SortInv, TreeOK
<1>10. /\ ProcessOK(procs'[p]) /\ procs'[p].pc = pc
       /\ procs'[p].begin = procs[p].begin /\ procs'[p].end = procs[p].end
       /\ procs'[p].outcome = procs[p].outcome
  BY <1>6, <1>9 DEF ProcessOK, Fields, Places
<1>11. threshold' = threshold
  BY DEF Fork, args
<1> QED
  BY <1>1, <1>4, <1>5, <1>7, <1>8, <1>9, <1>10, <1>11 DEF Forked

\* A fork by a process that has nothing below the new child's range.
LEMMA ForkKeepsTree ==
    ASSUME SortInv, NEW p \in DOMAIN procs, NEW x \in {"L", "R"},
           NEW b \in Int, NEW e \in Int, b <= e,
           NEW pc \in {"forkright", "waitleft"},
           procs[p].pc \in {"sort", "forkright"}, procs[p].outcome = "none",
           procs[p].begin <= b, e <= procs[p].end,
           NEW c, c = Append(p, x), c \notin DOMAIN procs,
           \A q \in DOMAIN procs : Under(q, p) => procs[q].end <= b,
           Fork(p, c, b, e, pc)
    PROVE  TreeOK' /\ RangesNested' /\ RangesApart' /\ BelowEnded'
<1>0. p \in Paths /\ DOMAIN procs \subseteq Paths
  BY DEF SortInv, TreeOK
<1>1. /\ c \in Paths /\ c # p /\ c \notin DOMAIN procs
      /\ DOMAIN procs' = DOMAIN procs \union {c}
      /\ procs'[c] = Process("sort", b, e) /\ ProcessOK(procs'[c])
      /\ \A q \in DOMAIN procs :
           /\ ProcessOK(procs'[q])
           /\ procs'[q].begin = procs[q].begin /\ procs'[q].end = procs[q].end
           /\ procs'[q].outcome = procs[q].outcome
           /\ q # p => procs'[q] = procs[q]
      /\ procs'[p].pc = pc /\ threshold' = threshold
  <2>1. Forked(p, c, b, e, pc)
    BY ForkedState
  <2> QED
    BY <2>1 DEF Forked
<1>2. /\ procs'[c].begin = b /\ procs'[c].end = e
      /\ procs'[c].pc = "sort" /\ procs'[c].outcome = "none"
  <2>1. "sort" \in Places
    BY DEF Places
  <2> QED
    BY <1>1, <2>1, NewProcess
<1>3. \A s \in Paths : Under(c, s) <=> (s = p \/ Under(p, s))
  BY <1>0, AboveChild
<1>4. \A q \in DOMAIN procs : ~ Under(q, c)
  BY <1>0, <1>1 DEF SortInv, TreeOK
<1>5. ~ Under(c, c)
  BY <1>1, UnderIsStrict
<1>6. TreeOK'
  <2>1. \A s \in Paths, q \in DOMAIN procs' : Under(q, s) => s \in DOMAIN procs'
    BY <1>1, <1>3 DEF SortInv, TreeOK
  <2> QED
    BY <1>1, <2>1 DEF SortInv, TreeOK
<1>6a. \A q \in DOMAIN procs : /\ procs[q].begin \in Int /\ procs[q].end \in Int
                               /\ procs[q].begin <= procs[q].end
  BY DEF SortInv, TreeOK, ProcessOK
<1>7. RangesNested'
  <2> SUFFICES ASSUME NEW s \in DOMAIN procs', NEW q \in DOMAIN procs', Under(q, s)
               PROVE  /\ procs'[s].begin <= procs'[q].begin
                      /\ procs'[q].end <= procs'[s].end
    BY DEF RangesNested
  <2>1. s \in DOMAIN procs
    BY <1>1, <1>4, <1>5
  <2>2. CASE q \in DOMAIN procs
    BY <1>1, <2>1, <2>2 DEF SortInv, RangesNested
  <2>3. CASE q = c
    <3>1. s = p \/ Under(p, s)
      BY <1>0, <1>3, <2>1, <2>3
    <3>2. procs[s].begin <= procs[p].begin /\ procs[p].end <= procs[s].end
      BY <1>6a, <2>1, <3>1 DEF SortInv, RangesNested
    <3> QED
      BY <1>1, <1>2, <1>6a, <2>1, <2>3, <3>2
  <2> QED
    BY <1>1, <2>2, <2>3
<1>8. RangesApart'
  <2>1. \A q \in DOMAIN procs : Under(c, q) \/ Apart(c, q)'
    <3> SUFFICES ASSUME NEW q \in DOMAIN procs PROVE Under(c, q) \/ Apart(c, q)'
      OBVIOUS
    <3>1. CASE q = p \/ Under(p, q)
      BY <1>0, <1>3, <3>1
    <3>2. CASE Under(q, p)
      BY <1>1, <1>2, <3>2 DEF Apart
    <3>3. CASE Apart(p, q)
      BY <1>1, <1>2, <1>6a, <3>3 DEF Apart
    <3> QED
      BY <3>1, <3>2, <3>3 DEF SortInv, RangesApart
  <2>2. \A q, r \in DOMAIN procs : Apart(q, r)' <=> Apart(q, r)
    BY <1>1 DEF Apart
  <2>3. \A q \in DOMAIN procs : Apart(q, c)' <=> Apart(c, q)'
    BY DEF Apart
  <2> QED
    BY <1>1, <2>1, <2>2, <2>3 DEF SortInv, RangesApart
<1>9. BelowEnded'
  <2> SUFFICES ASSUME ~ LeftFailureMissed', NEW s \in DOMAIN procs',
                      NEW q \in DOMAIN procs', Under(q, s), WentOn(s)'
               PROVE  procs'[q].outcome = "ok"
    BY DEF BelowEnded
  <2>1. \A r \in DOMAIN procs : WentOn(r)' <=> WentOn(r)
    BY <1>1 DEF WentOn
  <2>2. ~ LeftFailureMissed
    <3> SUFFICES ASSUME LeftFailureMissed PROVE FALSE
      OBVIOUS
    <3>1. PICK r \in DOMAIN procs :
            /\ LeftOf(r) \in DOMAIN procs
            /\ procs[LeftOf(r)].outcome \in {"error", "signal"}
            /\ WentOn(r)
      BY DEF LeftFailureMissed, WentOn
    <3>2. WentOn(r)'
      BY <2>1, <3>1
    <3> QED
      BY <1>1, <3>1, <3>2 DEF LeftFailureMissed, WentOn
  <2>3. s \in DOMAIN procs /\ WentOn(s)
    BY <1>1, <1>2, <2>1 DEF WentOn
  <2>4. CASE q \in DOMAIN procs
    BY <1>1, <2>2, <2>3, <2>4 DEF SortInv, BelowEnded
  <2>5. CASE q = c
    <3>1. s = p \/ Under(p, s)
      BY <1>0, <1>3, <2>3, <2>5
    <3>2. ~ WentOn(p)
      BY DEF WentOn
    <3> QED
      BY <2>2, <2>3, <3>1, <3>2 DEF SortInv, BelowEnded
  <2> QED
    BY <1>1, <2>4, <2>5
<1> QED
  BY <1>6, <1>7, <1>8, <1>9

LEMMA PathsOfChildren ==
    ASSUME NEW p \in Paths, NEW q \in Paths
    PROVE  /\ LeftOf(p) # RightOf(q)
           /\ LeftOf(p) = LeftOf(q) => p = q
           /\ RightOf(p) = RightOf(q) => p = q
BY AppendInjective DEF Paths, LeftOf, RightOf

LEMMA ForkLeftKeeps ==
    ASSUME SortInv, NEW p \in DOMAIN procs, ForkLeft(p)
    PROVE  SortInv'
<1> DEFINE c == LeftOf(p)
           b == procs[p].begin
           e == Mid(p)
<1>1. /\ procs[p].pc = "sort" /\ procs[p].outcome = "none"
      /\ Fork(p, c, b, e, "forkright")
  BY DEF ForkLeft, At
<1>2. /\ p \in Paths /\ DOMAIN procs \subseteq Paths
      /\ procs[p].begin \in Int /\ procs[p].end \in Int
      /\ procs[p].begin <= procs[p].end
  BY DEF SortInv, TreeOK, ProcessOK
<1>3. b \in Int /\ e \in Int /\ b <= e /\ e <= procs[p].end
  BY <1>2, Middle DEF Mid, Size
<1>4. c \notin DOMAIN procs /\ RightOf(p) \notin DOMAIN procs
  BY <1>1 DEF SortInv, ChildrenOK
<1>5. \A q \in DOMAIN procs : ~ Under(q, p)
  <2>1. \A q \in DOMAIN procs : ~ Under(q, LeftOf(p)) /\ ~ Under(q, RightOf(p))
    BY <1>2, <1>4, ChildrenDiffer DEF SortInv, TreeOK
  <2> QED
    BY <1>2, <1>4, <2>1, UnderAChild
<1>6. e = procs[p].begin + Size(p) \div 2 /\ c = Append(p, "L")
  BY DEF Mid, LeftOf
<1> HIDE DEF c, e
<1>7. Forked(p, c, b, e, "forkright")
  BY <1>1, <1>3, <1>4, <1>6, ForkedState
<1>8. TreeOK' /\ RangesNested' /\ RangesApart' /\ BelowEnded'
  <2>1. procs[p].pc \in {"sort", "forkright"} /\ "forkright" \in {"forkright", "waitleft"}
    BY <1>1
  <2>2. /\ \A q \in DOMAIN procs : Under(q, p) => procs[q].end <= b
        /\ procs[p].begin <= b /\ e <= procs[p].end /\ "L" \in {"L", "R"}
    BY <1>2, <1>3, <1>5
  <2> HIDE DEF b, e
  <2> QED
    BY <1>1, <1>3, <1>4, <1>6, <2>1, <2>2, ForkKeepsTree
<1>9. /\ procs'[c].begin = b /\ procs'[c].end = e
      /\ procs'[c].pc = "sort" /\ procs'[c].outcome = "none"
  <2>1. "sort" \in Places
    BY DEF Places
  <2> QED
    BY <1>3, <1>7, <2>1, NewProcess DEF Forked
<1>10. ChildrenOK'
  <2> SUFFICES ASSUME NEW q \in DOMAIN procs'
               PROVE
        /\ procs'[q].pc \in {"main", "sort"} => LeftOf(q) \notin DOMAIN procs'
        /\ procs'[q].pc \in {"main", "sort", "forkright"} => RightOf(q) \notin DOMAIN procs'
        /\ LeftOf(q) \in DOMAIN procs' =>
             procs'[LeftOf(q)].end = procs'[q].begin + Size(q)' \div 2
        /\ procs'[q].pc \in {"forkright", "waitleft", "waitright", "check"} =>
             LeftOf(q) \in DOMAIN procs'
        /\ procs'[q].pc \in {"waitleft", "waitright", "check"} =>
             RightOf(q) \in DOMAIN procs'
        /\ procs'[q].pc \in {"waitright", "check"} => Ended(LeftOf(q))'
        /\ procs'[q].pc = "check" =>
             Ended(RightOf(q))' /\ procs'[q].wstatus = procs'[RightOf(q)].outcome
    BY DEF ChildrenOK
  <2>0. c \in Paths /\ DOMAIN procs' = DOMAIN procs \union {c}
    BY <1>7 DEF Forked
  <2>1. CASE q = c
    <3>1. LeftOf(c) \notin DOMAIN procs' /\ RightOf(c) \notin DOMAIN procs'
      <4>1. Under(LeftOf(c), c) /\ Under(RightOf(c), c)
        BY <2>0, AboveChild DEF LeftOf, RightOf
      <4>2. LeftOf(c) \in Paths /\ RightOf(c) \in Paths /\ LeftOf(c) # c /\ RightOf(c) # c
        BY <2>0, ChildrenDiffer
      <4> QED
        BY <1>4, <2>0, <4>1, <4>2 DEF SortInv, TreeOK
    <3> QED
      BY <1>9, <2>1, <3>1
  <2>2. CASE q = p
    <3>1. RightOf(p) \notin DOMAIN procs'
      BY <1>2, <1>4, <2>0, PathsOfChildren DEF c
    <3>2. procs'[p].begin = procs[p].begin /\ procs'[p].end = procs[p].end
      BY <1>7 DEF Forked
    <3>3. procs'[p].pc = "forkright"
      BY <1>7 DEF Forked
    <3> QED
      BY <1>6, <1>9, <2>0, <2>2, <3>1, <3>2, <3>3 DEF Size, c
  <2>3. CASE q \in DOMAIN procs /\ q # p
    <3>1. q \in Paths /\ LeftOf(q) # c /\ RightOf(q) # c
      BY <1>2, <2>3, PathsOfChildren DEF c
    <3>2. procs'[q] = procs[q]
      BY <1>7, <2>3 DEF Forked
    <3>3. \A r \in DOMAIN procs : /\ procs'[r].end = procs[r].end
                                  /\ procs'[r].outcome = procs[r].outcome
      BY <1>7 DEF Forked
    <3> QED
      BY <2>0, <2>3, <3>1, <3>2, <3>3 DEF SortInv, ChildrenOK, Ended, Size
  <2> QED
    BY <2>0, <2>1, <2>2, <2>3
<1> QED
  BY <1>8, <1>10 DEF SortInv

LEMMA ForkRightKeeps ==
    ASSUME SortInv, NEW p \in DOMAIN procs, ForkRight(p)
    PROVE  SortInv'
<1> DEFINE c == RightOf(p)
           b == Mid(p)
           e == procs[p].end
<1>1. /\ procs[p].pc = "forkright" /\ procs[p].outcome = "none"
      /\ Fork(p, c, b, e, "waitleft")
  BY DEF ForkRight, At
<1>2. /\ p \in Paths /\ DOMAIN procs \subseteq Paths
      /\ procs[p].begin \in Int /\ procs[p].end \in Int
      /\ procs[p].begin <= procs[p].end
  BY DEF SortInv, TreeOK, ProcessOK
<1>3. b \in Int /\ e \in Int /\ b <= e /\ procs[p].begin <= b
  BY <1>2, Middle DEF Mid, Size
<1>4. c \notin DOMAIN procs /\ LeftOf(p) \in DOMAIN procs
  BY <1>1 DEF SortInv, ChildrenOK
<1>5. \A q \in DOMAIN procs : Under(q, p) => procs[q].end <= b
  <2> SUFFICES ASSUME NEW q \in DOMAIN procs, Under(q, p)
               PROVE  procs[q].end <= b
    OBVIOUS
  <2>1. procs[LeftOf(p)].end = b
    BY <1>4 DEF SortInv, ChildrenOK, Mid
  <2>2. q = LeftOf(p) \/ Under(q, LeftOf(p))
    <3>1. ~ Under(q, RightOf(p))
      BY <1>2, <1>4, ChildrenDiffer DEF SortInv, TreeOK
    <3> QED
      BY <1>2, <1>4, <3>1, UnderAChild
  <2>3. procs[q].end \in Int
    BY DEF SortInv, TreeOK, ProcessOK
  <2> QED
    BY <1>3, <1>4, <2>1, <2>2, <2>3 DEF SortInv, RangesNested
<1>6. c = Append(p, "R")
  BY DEF RightOf
<1> HIDE DEF c, b
<1>7. Forked(p, c, b, e, "waitleft")
  BY <1>1, <1>3, <1>4, <1>6, ForkedState
<1>8. TreeOK' /\ RangesNested' /\ RangesApart' /\ BelowEnded'
  <2>1. procs[p].pc \in {"sort", "forkright"} /\ "waitleft" \in {"forkright", "waitleft"}
    BY <1>1
  <2>2. /\ \A q \in DOMAIN procs : Under(q, p) => procs[q].end <= b
        /\ procs[p].begin <= b /\ e <= procs[p].end /\ "R" \in {"L", "R"}
    BY <1>2, <1>3, <1>5
  <2> HIDE DEF b, e
  <2> QED
    BY <1>1, <1>3, <1>4, <1>6, <2>1, <2>2, ForkKeepsTree
<1>9. /\ procs'[c].begin = b /\ procs'[c].end = e
      /\ procs'[c].pc = "sort" /\ procs'[c].outcome = "none"
  <2>1. "sort" \in Places
    BY DEF Places
  <2> QED
    BY <1>3, <1>7, <2>1, NewProcess DEF Forked
<1>10. ChildrenOK'
  <2> SUFFICES ASSUME NEW q \in DOMAIN procs'
               PROVE
        /\ procs'[q].pc \in {"main", "sort"} => LeftOf(q) \notin DOMAIN procs'
        /\ procs'[q].pc \in {"main", "sort", "forkright"} => RightOf(q) \notin DOMAIN procs'
        /\ LeftOf(q) \in DOMAIN procs' =>
             procs'[LeftOf(q)].end = procs'[q].begin + Size(q)' \div 2
        /\ procs'[q].pc \in {"forkright", "waitleft", "waitright", "check"} =>
             LeftOf(q) \in DOMAIN procs'
        /\ procs'[q].pc \in {"waitleft", "waitright", "check"} =>
             RightOf(q) \in DOMAIN procs'
        /\ procs'[q].pc \in {"waitright", "check"} => Ended(LeftOf(q))'
        /\ procs'[q].pc = "check" =>
             Ended(RightOf(q))' /\ procs'[q].wstatus = procs'[RightOf(q)].outcome
    BY DEF ChildrenOK
  <2>0. c \in Paths /\ DOMAIN procs' = DOMAIN procs \union {c}
    BY <1>7 DEF Forked
  <2>1. CASE q = c
    <3>1. LeftOf(c) \notin DOMAIN procs' /\ RightOf(c) \notin DOMAIN procs'
      <4>1. Under(LeftOf(c), c) /\ Under(RightOf(c), c)
        BY <2>0, AboveChild DEF LeftOf, RightOf
      <4>2. LeftOf(c) \in Paths /\ RightOf(c) \in Paths /\ LeftOf(c) # c /\ RightOf(c) # c
        BY <2>0, ChildrenDiffer
      <4> QED
        BY <1>4, <2>0, <4>1, <4>2 DEF SortInv, TreeOK
    <3> QED
      BY <1>9, <2>1, <3>1
  <2>2. CASE q = p
    <3>2. /\ procs'[p].begin = procs[p].begin /\ procs'[p].end = procs[p].end
          /\ procs'[LeftOf(p)].end = procs[LeftOf(p)].end
      BY <1>4, <1>7 DEF Forked
    <3>3. procs'[p].pc = "waitleft"
      BY <1>7 DEF Forked
    <3> QED
      BY <1>4, <2>0, <2>2, <3>2, <3>3 DEF Size, c, SortInv, ChildrenOK
  <2>3. CASE q \in DOMAIN procs /\ q # p
    <3>1. q \in Paths /\ LeftOf(q) # c /\ RightOf(q) # c
      BY <1>2, <2>3, PathsOfChildren DEF c
    <3>2. procs'[q] = procs[q]
      BY <1>7, <2>3 DEF Forked
    <3>3. \A r \in DOMAIN procs : /\ procs'[r].end = procs[r].end
                                  /\ procs'[r].outcome = procs[r].outcome
      BY <1>7 DEF Forked
    <3> QED
      BY <2>0, <2>3, <3>1, <3>2, <3>3 DEF SortInv, ChildrenOK, Ended, Size
  <2> QED
    BY <2>0, <2>1, <2>2, <2>3
<1> QED
  BY <1>8, <1>10 DEF SortInv

-----------------------------------------------------------------------------
(* Every other step changes one process that is running, and no range.     *)

Changed(p) ==
    /\ DOMAIN procs' = DOMAIN procs
    /\ \A q \in DOMAIN procs : q # p => procs'[q] = procs[q]
    /\ ProcessOK(procs'[p])
    /\ procs'[p].begin = procs[p].begin /\ procs'[p].end = procs[p].end
    /\ procs[p].outcome = "none"
    /\ threshold' = threshold

\* Where it may go: onwards, and no further than its children allow.
Forward(p) ==
    /\ procs'[p].pc \in {"main", "sort"} => procs[p].pc \in {"main", "sort"}
    /\ procs'[p].pc = "forkright" => procs[p].pc = "forkright"
    /\ procs'[p].pc = "waitleft" => procs[p].pc = "waitleft"
    /\ procs'[p].pc = "waitright" =>
         \/ procs[p].pc = "waitright"
         \/ procs[p].pc = "waitleft" /\ Ended(LeftOf(p))
    /\ procs'[p].pc = "check" =>
         \/ procs[p].pc = "check" /\ procs'[p].wstatus = procs[p].wstatus
         \/ /\ procs[p].pc = "waitright" /\ Ended(RightOf(p))
            /\ procs'[p].wstatus = procs[RightOf(p)].outcome

\* When it goes on, nothing below it is left.
GoesOnLast(p) ==
    /\ WentOn(p) => WentOn(p)'
    /\ WentOn(p)' /\ ~ WentOn(p) /\ ~ LeftFailureMissed' =>
         \A q \in DOMAIN procs : Under(q, p) => procs[q].outcome = "ok"

LEMMA MissedForGood ==
    ASSUME SortInv, NEW p \in DOMAIN procs, Changed(p), GoesOnLast(p),
           ~ LeftFailureMissed'
    PROVE  ~ LeftFailureMissed
<1> SUFFICES ASSUME LeftFailureMissed PROVE FALSE
  OBVIOUS
<1>1. PICK r \in DOMAIN procs :
        /\ LeftOf(r) \in DOMAIN procs
        /\ procs[LeftOf(r)].outcome \in {"error", "signal"}
        /\ WentOn(r)
  BY DEF LeftFailureMissed, WentOn
<1>2. procs'[LeftOf(r)] = procs[LeftOf(r)]
  BY <1>1 DEF Changed
<1>3. WentOn(r)'
  BY <1>1 DEF Changed, GoesOnLast, WentOn
<1> QED
  BY <1>1, <1>2, <1>3 DEF LeftFailureMissed, WentOn, Changed

LEMMA ChangeKeeps ==
    ASSUME SortInv, NEW p \in DOMAIN procs, Changed(p), Forward(p), GoesOnLast(p)
    PROVE  SortInv'
<1>1. DOMAIN procs \subseteq Paths /\ p \in Paths
  BY DEF SortInv, TreeOK
<1>2. \A q \in DOMAIN procs : procs'[q].begin = procs[q].begin /\ procs'[q].end = procs[q].end
  BY DEF Changed
<1>3. TreeOK'
  BY DEF SortInv, TreeOK, Changed
<1>4. RangesNested' /\ RangesApart'
  BY <1>2 DEF SortInv, RangesNested, RangesApart, Apart, Changed
<1>5. ChildrenOK'
  <2> SUFFICES ASSUME NEW q \in DOMAIN procs
               PROVE
        /\ procs'[q].pc \in {"main", "sort"} => LeftOf(q) \notin DOMAIN procs
        /\ procs'[q].pc \in {"main", "sort", "forkright"} => RightOf(q) \notin DOMAIN procs
        /\ LeftOf(q) \in DOMAIN procs =>
             procs'[LeftOf(q)].end = procs'[q].begin + Size(q)' \div 2
        /\ procs'[q].pc \in {"forkright", "waitleft", "waitright", "check"} =>
             LeftOf(q) \in DOMAIN procs
        /\ procs'[q].pc \in {"waitleft", "waitright", "check"} =>
             RightOf(q) \in DOMAIN procs
        /\ procs'[q].pc \in {"waitright", "check"} => Ended(LeftOf(q))'
        /\ procs'[q].pc = "check" =>
             Ended(RightOf(q))' /\ procs'[q].wstatus = procs'[RightOf(q)].outcome
    BY DEF ChildrenOK, Changed
  <2>1. Size(q)' = Size(q)
    BY <1>2 DEF Size
  <2>2. LeftOf(q) \in DOMAIN procs =>
             procs'[LeftOf(q)].end = procs'[q].begin + Size(q)' \div 2
    BY <1>2, <2>1 DEF SortInv, ChildrenOK
  <2>3. CASE q = p
    <3>1. LeftOf(p) # p /\ RightOf(p) # p
      BY <1>1, ChildrenDiffer
    <3>2. /\ LeftOf(p) \in DOMAIN procs => procs'[LeftOf(p)] = procs[LeftOf(p)]
          /\ RightOf(p) \in DOMAIN procs => procs'[RightOf(p)] = procs[RightOf(p)]
      BY <3>1 DEF Changed
    <3> QED
      BY <2>2, <2>3, <3>2 DEF Forward, SortInv, ChildrenOK, Ended
  <2>4. CASE q # p
    <3>1. procs'[q] = procs[q]
      BY <2>4 DEF Changed
    <3>2. \A r \in DOMAIN procs : Ended(r) => procs'[r] = procs[r]
      BY DEF Changed, Ended
    <3> QED
      BY <2>2, <3>1, <3>2 DEF SortInv, ChildrenOK, Ended
  <2> QED
    BY <2>3, <2>4
<1>6. BelowEnded'
  <2> SUFFICES ASSUME ~ LeftFailureMissed', NEW s \in DOMAIN procs,
                      NEW q \in DOMAIN procs, Under(q, s), WentOn(s)'
               PROVE  procs'[q].outcome = "ok"
    BY DEF BelowEnded, Changed
  <2>1. ~ LeftFailureMissed
    BY MissedForGood
  <2>2. procs[q].outcome = "ok"
    <3>1. CASE s = p /\ ~ WentOn(p)
      BY <3>1 DEF GoesOnLast
    <3>2. CASE WentOn(s)
      BY <2>1, <3>2 DEF SortInv, BelowEnded
    <3> QED
      BY <3>1, <3>2 DEF Changed, WentOn
  <2> QED
    BY <2>2 DEF Changed
<1> QED
  BY <1>3, <1>4, <1>5, <1>6 DEF SortInv

LEMMA Replaced ==
    ASSUME SortInv, NEW p \in DOMAIN procs, procs[p].outcome = "none",
           NEW r, ProcessOK(r), r.begin = procs[p].begin, r.end = procs[p].end,
           procs' = [procs EXCEPT ![p] = r], threshold' = threshold
    PROVE  Changed(p) /\ procs'[p] = r
<1>1. /\ DOMAIN procs' = DOMAIN procs /\ procs'[p] = r
      /\ \A q \in DOMAIN procs : q # p => procs'[q] = procs[q]
  OBVIOUS
<1>2. ProcessOK(procs'[p])
  BY <1>1
<1> QED
  BY <1>1, <1>2 DEF Changed

LEMMA GotoChanges ==
    ASSUME SortInv, NEW p \in DOMAIN procs, procs[p].outcome = "none",
           NEW pc \in Places, Goto(p, pc), threshold' = threshold
    PROVE  /\ Changed(p)
           /\ procs'[p].pc = pc /\ procs'[p].outcome = procs[p].outcome
           /\ procs'[p].wstatus = procs[p].wstatus
<1> DEFINE r == [procs[p] EXCEPT !.pc = pc]
<1>1. ProcessOK(procs[p])
  BY DEF SortInv, TreeOK
<1>2. /\ ProcessOK(r) /\ r.begin = procs[p].begin /\ r.end = procs[p].end
      /\ r.pc = pc /\ r.outcome = procs[p].outcome /\ r.wstatus = procs[p].wstatus
  BY <1>1 DEF ProcessOK, Fields
<1>3. procs' = [procs EXCEPT ![p] = r]
  BY DEF Goto
<1> HIDE DEF r
<1> QED
  BY <1>2, <1>3, Replaced

LEMMA ExitChanges ==
    ASSUME SortInv, NEW p \in DOMAIN procs, procs[p].outcome = "none",
           NEW how \in Outcomes, Exit(p, how), threshold' = threshold
    PROVE  /\ Changed(p)
           /\ procs'[p].pc = procs[p].pc /\ procs'[p].outcome = how
           /\ procs'[p].wstatus = procs[p].wstatus
<1> DEFINE r == [procs[p] EXCEPT !.outcome = how]
<1>1. ProcessOK(procs[p])
  BY DEF SortInv, TreeOK
<1>2. /\ ProcessOK(r) /\ r.begin = procs[p].begin /\ r.end = procs[p].end
      /\ r.pc = procs[p].pc /\ r.outcome = how /\ r.wstatus = procs[p].wstatus
  BY <1>1 DEF ProcessOK, Fields
<1>3. procs' = [procs EXCEPT ![p] = r]
  BY DEF Exit
<1> HIDE DEF r
<1> QED
  BY <1>2, <1>3, Replaced

LEMMA ReturnedOK ==
    ASSUME NEW p, NEW r, ProcessOK(r)
    PROVE  /\ ProcessOK(Returned(p, r))
           /\ Returned(p, r).begin = r.begin /\ Returned(p, r).end = r.end
           /\ \/ Returned(p, r).pc = "unmap"
              \/ Returned(p, r).pc = r.pc /\ Returned(p, r).outcome = "ok"
BY DEF Returned, ProcessOK, Fields, Places, Outcomes

\* An exit that is a failure, from any place.
LEMMA FailureKeeps ==
    ASSUME SortInv, NEW p \in DOMAIN procs, procs[p].outcome = "none",
           NEW how \in {"error", "signal"}, Exit(p, how), threshold' = threshold
    PROVE  SortInv'
<1>1. how \in Outcomes
  BY DEF Outcomes
<1>2. /\ Changed(p) /\ procs'[p].pc = procs[p].pc /\ procs'[p].outcome = how
      /\ procs'[p].wstatus = procs[p].wstatus
  BY <1>1, ExitChanges
<1>3. Forward(p)
  BY <1>2 DEF Forward
<1>4. GoesOnLast(p)
  BY <1>2 DEF GoesOnLast, WentOn
<1> QED
  BY <1>2, <1>3, <1>4, ChangeKeeps

LEMMA Childless ==
    ASSUME SortInv, NEW p \in DOMAIN procs, procs[p].pc \in {"main", "sort"}
    PROVE  \A q \in DOMAIN procs : ~ Under(q, p)
<1>1. p \in Paths /\ DOMAIN procs \subseteq Paths
  BY DEF SortInv, TreeOK
<1>2. LeftOf(p) \notin DOMAIN procs /\ RightOf(p) \notin DOMAIN procs
  BY DEF SortInv, ChildrenOK
<1>3. \A q \in DOMAIN procs : ~ Under(q, LeftOf(p)) /\ ~ Under(q, RightOf(p))
  BY <1>1, <1>2, ChildrenDiffer DEF SortInv, TreeOK
<1> QED
  BY <1>1, <1>2, <1>3, UnderAChild

LEMMA SortSequentiallyKeeps ==
    ASSUME SortInv, NEW p \in DOMAIN procs, SortSequentially(p)
    PROVE  SortInv'
<1> DEFINE r == Returned(p, procs[p])
<1>1. /\ procs[p].outcome = "none" /\ procs[p].pc = "sort"
      /\ procs' = [procs EXCEPT ![p] = r] /\ threshold' = threshold
  BY DEF SortSequentially, At, args
<1>2. ProcessOK(procs[p])
  BY DEF SortInv, TreeOK
<1>3. /\ ProcessOK(r) /\ r.begin = procs[p].begin /\ r.end = procs[p].end
      /\ r.pc = "unmap" \/ (r.pc = "sort" /\ r.outcome = "ok")
  BY <1>1, <1>2, ReturnedOK
<1> HIDE DEF r
<1>4. Changed(p) /\ procs'[p] = r
  BY <1>1, <1>3, Replaced
<1>5. Forward(p)
  BY <1>1, <1>3, <1>4 DEF Forward
<1>6. GoesOnLast(p)
  BY <1>1, <1>3, <1>4, Childless DEF GoesOnLast, WentOn
<1> QED
  BY <1>4, <1>5, <1>6, ChangeKeeps

LEMMA WaitLeftKeeps ==
    ASSUME SortInv, NEW p \in DOMAIN procs, WaitLeft(p)
    PROVE  SortInv'
<1> DEFINE r == [procs[p] EXCEPT !.wstatus = procs[LeftOf(p)].outcome, !.pc = "waitright"]
<1>1. /\ procs[p].outcome = "none" /\ procs[p].pc = "waitleft" /\ Ended(LeftOf(p))
      /\ procs' = [procs EXCEPT ![p] = r] /\ threshold' = threshold
  BY DEF WaitLeft, Wait, At, args
<1>2. ProcessOK(procs[p])
  BY DEF SortInv, TreeOK
<1>3. /\ ProcessOK(r) /\ r.begin = procs[p].begin /\ r.end = procs[p].end
      /\ r.pc = "waitright" /\ r.outcome = procs[p].outcome
  BY <1>2 DEF ProcessOK, Fields, Places
<1> HIDE DEF r
<1>4. Changed(p) /\ procs'[p] = r
  BY <1>1, <1>3, Replaced
<1>5. Forward(p)
  BY <1>1, <1>3, <1>4 DEF Forward
<1>6. GoesOnLast(p)
  BY <1>1, <1>3, <1>4 DEF GoesOnLast, WentOn
<1> QED
  BY <1>4, <1>5, <1>6, ChangeKeeps

LEMMA WaitRightKeeps ==
    ASSUME SortInv, NEW p \in DOMAIN procs, WaitRight(p)
    PROVE  SortInv'
<1> DEFINE r == [procs[p] EXCEPT !.wstatus = procs[RightOf(p)].outcome, !.pc = "check"]
<1>1. /\ procs[p].outcome = "none" /\ procs[p].pc = "waitright" /\ Ended(RightOf(p))
      /\ procs' = [procs EXCEPT ![p] = r] /\ threshold' = threshold
  BY DEF WaitRight, Wait, At, args
<1>2. ProcessOK(procs[p])
  BY DEF SortInv, TreeOK
<1>3. /\ ProcessOK(r) /\ r.begin = procs[p].begin /\ r.end = procs[p].end
      /\ r.pc = "check" /\ r.outcome = procs[p].outcome
      /\ r.wstatus = procs[RightOf(p)].outcome
  BY <1>2 DEF ProcessOK, Fields, Places
<1> HIDE DEF r
<1>4. Changed(p) /\ procs'[p] = r
  BY <1>1, <1>3, Replaced
<1>5. Forward(p)
  BY <1>1, <1>3, <1>4 DEF Forward
<1>6. GoesOnLast(p)
  BY <1>1, <1>3, <1>4 DEF GoesOnLast, WentOn
<1> QED
  BY <1>4, <1>5, <1>6, ChangeKeeps

\* The parent goes on: the right child has succeeded, and the left one has
\* unless its failure was missed; so has everything below them.
LEMMA CheckKeeps ==
    ASSUME SortInv, NEW p \in DOMAIN procs, Check(p)
    PROVE  SortInv'
<1>1. procs[p].outcome = "none" /\ procs[p].pc = "check" /\ threshold' = threshold
  BY DEF Check, At, args
<1>2. CASE procs[p].wstatus # "ok"
  <2>1. Exit(p, "error")
    BY <1>2 DEF Check
  <2> QED
    BY <1>1, <2>1, FailureKeeps
<1>3. CASE procs[p].wstatus = "ok"
  <2>1. Goto(p, "merge") /\ "merge" \in Places
    BY <1>3 DEF Check, Places
  <2>2. /\ Changed(p) /\ procs'[p].pc = "merge"
        /\ procs'[p].outcome = "none"
    BY <1>1, <2>1, GotoChanges
  <2>3. Forward(p)
    BY <2>2 DEF Forward
  <2>4. GoesOnLast(p)
    <3>0. DOMAIN procs \subseteq Paths /\ p \in Paths
      BY DEF SortInv, TreeOK
    <3>1. /\ LeftOf(p) \in DOMAIN procs /\ Ended(LeftOf(p))
          /\ RightOf(p) \in DOMAIN procs /\ procs[RightOf(p)].outcome = "ok"
      BY <1>1, <1>3 DEF SortInv, ChildrenOK
    <3>2. ~ WentOn(p)
      BY <1>1 DEF WentOn
    <3> SUFFICES ASSUME ~ LeftFailureMissed', NEW q \in DOMAIN procs, Under(q, p)
                 PROVE  procs[q].outcome = "ok"
      BY <3>2 DEF GoesOnLast
    <3>5. ~ LeftFailureMissed
      <4> SUFFICES ASSUME LeftFailureMissed PROVE FALSE
        OBVIOUS
      <4>1. PICK s \in DOMAIN procs :
              /\ LeftOf(s) \in DOMAIN procs
              /\ procs[LeftOf(s)].outcome \in {"error", "signal"}
              /\ WentOn(s)
        BY DEF LeftFailureMissed, WentOn
      <4>2. s # p /\ LeftOf(s) # p
        BY <1>1, <3>2, <4>1
      <4>3. procs'[s] = procs[s] /\ procs'[LeftOf(s)] = procs[LeftOf(s)]
        BY <2>2, <4>1, <4>2 DEF Changed
      <4> QED
        BY <2>2, <4>1, <4>3 DEF LeftFailureMissed, WentOn, Changed
    <3>3. procs[LeftOf(p)].outcome = "ok"
      <4>1. LeftOf(p) # p /\ procs'[LeftOf(p)] = procs[LeftOf(p)]
        BY <2>2, <3>0, <3>1, ChildrenDiffer DEF Changed
      <4>2. procs[LeftOf(p)].outcome \notin {"error", "signal"}
        BY <2>2, <3>1, <4>1 DEF LeftFailureMissed, Changed
      <4> QED
        BY <3>1, <4>2 DEF Ended, Outcomes, SortInv, TreeOK, ProcessOK
    <3>4. WentOn(LeftOf(p)) /\ WentOn(RightOf(p))
      BY <3>1, <3>3 DEF WentOn
    <3> QED
      BY <3>0, <3>1, <3>3, <3>4, <3>5, UnderAChild DEF SortInv, BelowEnded
  <2> QED
    BY <2>2, <2>3, <2>4, ChangeKeeps
<1> QED
  BY <1>2, <1>3

LEMMA MergeKeeps ==
    ASSUME SortInv, NEW p \in DOMAIN procs, Merge(p)
    PROVE  SortInv'
<1> DEFINE t == Merged(arr, procs[p].begin, Mid(p), procs[p].end)
           r == [procs[p] EXCEPT !.temp = t, !.pc = "copy"]
<1>1. /\ procs[p].outcome = "none" /\ procs[p].pc = "merge"
      /\ procs' = [procs EXCEPT ![p] = r] /\ threshold' = threshold
  BY DEF Merge, At, args
<1> HIDE DEF t
<1>2. ProcessOK(procs[p])
  BY DEF SortInv, TreeOK
<1>3. /\ ProcessOK(r) /\ r.begin = procs[p].begin /\ r.end = procs[p].end
      /\ r.pc = "copy" /\ r.outcome = procs[p].outcome
  BY <1>2 DEF ProcessOK, Fields, Places
<1> HIDE DEF r
<1>4. Changed(p) /\ procs'[p] = r
  BY <1>1, <1>3, Replaced
<1>5. Forward(p)
  BY <1>1, <1>3, <1>4 DEF Forward
<1>6. GoesOnLast(p)
  BY <1>1, <1>3, <1>4 DEF GoesOnLast, WentOn
<1> QED
  BY <1>4, <1>5, <1>6, ChangeKeeps

LEMMA CopyBackKeeps ==
    ASSUME SortInv, NEW p \in DOMAIN procs, CopyBack(p)
    PROVE  SortInv'
<1> DEFINE i == procs[p].copied
           more == [procs[p] EXCEPT !.copied = i + 1]
           last == [procs[p] EXCEPT !.copied = 0, !.temp = <<>>]
           r == IF i + 1 < Size(p) THEN more ELSE Returned(p, last)
<1>1. /\ procs[p].outcome = "none" /\ procs[p].pc = "copy"
      /\ procs' = [procs EXCEPT ![p] = r] /\ threshold' = threshold
  BY DEF CopyBack, At, args
<1> HIDE DEF i
<1>2. ProcessOK(procs[p])
  BY DEF SortInv, TreeOK
<1>3. /\ ProcessOK(more) /\ more.begin = procs[p].begin /\ more.end = procs[p].end
      /\ more.pc = "copy" /\ more.outcome = procs[p].outcome
  BY <1>1, <1>2 DEF ProcessOK, Fields
<1>4. /\ ProcessOK(last) /\ last.begin = procs[p].begin /\ last.end = procs[p].end
      /\ last.pc = "copy"
  BY <1>1, <1>2 DEF ProcessOK, Fields
<1> HIDE DEF more, last
<1>5. /\ ProcessOK(r) /\ r.begin = procs[p].begin /\ r.end = procs[p].end
      /\ r.pc \in {"copy", "unmap"}
  <2>1. CASE i + 1 < Size(p)
    BY <1>3, <2>1
  <2>2. CASE ~ (i + 1 < Size(p))
    BY <1>4, <2>2, ReturnedOK
  <2> QED
    BY <2>1, <2>2
<1> HIDE DEF r
<1>6. Changed(p) /\ procs'[p] = r
  BY <1>1, <1>5, Replaced
<1>7. Forward(p)
  BY <1>1, <1>5, <1>6 DEF Forward
<1>8. GoesOnLast(p)
  BY <1>1, <1>5, <1>6 DEF GoesOnLast, WentOn
<1> QED
  BY <1>6, <1>7, <1>8, ChangeKeeps

LEMMA ForkFailsKeeps ==
    ASSUME SortInv, NEW p \in DOMAIN procs, ForkFails(p)
    PROVE  SortInv'
BY FailureKeeps DEF ForkFails, At, args

LEMMA MallocFailsKeeps ==
    ASSUME SortInv, NEW p \in DOMAIN procs, MallocFails(p)
    PROVE  SortInv'
BY FailureKeeps DEF MallocFails, At, args

LEMMA KilledKeeps ==
    ASSUME SortInv, NEW p \in DOMAIN procs, Killed(p)
    PROVE  SortInv'
BY FailureKeeps DEF Killed, Ended, args

LEMMA MainKeeps ==
    ASSUME SortInv, MapFile \/ MapFails \/ Unmap
    PROVE  SortInv'
<1>0. Root \in DOMAIN procs
  BY DEF SortInv, TreeOK
<1>1. CASE MapFile
  <2>1. /\ procs[Root].outcome = "none" /\ procs[Root].pc = "main"
        /\ Goto(Root, "sort") /\ threshold' = threshold /\ "sort" \in Places
    BY <1>1 DEF MapFile, At, args, Places
  <2>2. /\ Changed(Root) /\ procs'[Root].pc = "sort"
        /\ procs'[Root].outcome = procs[Root].outcome
    BY <1>0, <2>1, GotoChanges
  <2>3. Forward(Root) /\ GoesOnLast(Root)
    BY <2>1, <2>2 DEF Forward, GoesOnLast, WentOn
  <2> QED
    BY <1>0, <2>2, <2>3, ChangeKeeps
<1>2. CASE MapFails
  BY <1>0, <1>2, FailureKeeps DEF MapFails, At, args
<1>3. CASE Unmap /\ Exit(Root, "ok")
  <2>1. /\ procs[Root].outcome = "none" /\ procs[Root].pc = "unmap"
        /\ threshold' = threshold /\ "ok" \in Outcomes
    BY <1>3 DEF Unmap, At, args, Outcomes
  <2>2. /\ Changed(Root) /\ procs'[Root].pc = "unmap"
    BY <1>0, <1>3, <2>1, ExitChanges
  <2>3. Forward(Root) /\ GoesOnLast(Root)
    BY <2>1, <2>2 DEF Forward, GoesOnLast, WentOn
  <2> QED
    BY <1>0, <2>2, <2>3, ChangeKeeps
<1>4. CASE Unmap /\ Exit(Root, "error")
  BY <1>0, <1>4, FailureKeeps DEF Unmap, At, args
<1> QED
  BY <1>1, <1>2, <1>3, <1>4 DEF Unmap

LEMMA NextKeeps == SortInv /\ [Next]_vars => SortInv'
<1> SUFFICES ASSUME SortInv, [Next]_vars PROVE SortInv'
  OBVIOUS
<1>1. CASE MapFile \/ MapFails \/ Unmap
  BY <1>1, MainKeeps
<1>2. ASSUME NEW p \in DOMAIN procs, Step(p)
      PROVE  SortInv'
  <2>1. CASE SortSequentially(p)
    BY <2>1, SortSequentiallyKeeps
  <2>2. CASE ForkLeft(p)
    BY <2>2, ForkLeftKeeps
  <2>3. CASE ForkRight(p)
    BY <2>3, ForkRightKeeps
  <2>4. CASE ForkFails(p)
    BY <2>4, ForkFailsKeeps
  <2>5. CASE WaitLeft(p)
    BY <2>5, WaitLeftKeeps
  <2>6. CASE WaitRight(p)
    BY <2>6, WaitRightKeeps
  <2>7. CASE Check(p)
    BY <2>7, CheckKeeps
  <2>8. CASE MallocFails(p)
    BY <2>8, MallocFailsKeeps
  <2>9. CASE Merge(p)
    BY <2>9, MergeKeeps
  <2>10. CASE CopyBack(p)
    BY <2>10, CopyBackKeeps
  <2> QED
    BY <1>2, <2>1, <2>2, <2>3, <2>4, <2>5, <2>6, <2>7, <2>8, <2>9, <2>10 DEF Step
<1>3. ASSUME NEW p \in DOMAIN procs, Killed(p)
      PROVE  SortInv'
  BY <1>3, KilledKeeps
<1>4. CASE UNCHANGED vars
  <2>1. procs' = procs /\ threshold' = threshold
    BY <1>4 DEF vars
  <2>2. TreeOK' /\ RangesNested' /\ RangesApart' /\ ChildrenOK'
    BY <2>1 DEF SortInv, TreeOK, RangesNested, RangesApart, Apart, ChildrenOK,
                Ended, Size
  <2>3. BelowEnded'
    BY <2>1 DEF SortInv, BelowEnded, LeftFailureMissed, WentOn
  <2> QED
    BY <2>2, <2>3 DEF SortInv
<1> QED
  BY <1>1, <1>2, <1>3, <1>4 DEF Next

-----------------------------------------------------------------------------
(* The types of all that a state holds, with what is needed to keep them.  *)

\* A process that has been killed while it copied keeps its array.
HasArray(p) == procs[p].pc = "copy" /\ procs[p].outcome # "ok"

ArrayOK(p) ==
    /\ procs[p].wstatus \in Outcomes
    /\ procs[p].temp \in Seq(Int)
    /\ HasArray(p) => /\ Len(procs[p].temp) = Size(p)
                      /\ procs[p].copied \in 0 .. Size(p) - 1
    /\ ~ HasArray(p) => procs[p].copied = 0

\* A process that has split its range, and the halves that its children have.
HalvesOK(p) ==
    /\ procs[p].pc \in {"forkright", "waitleft", "waitright", "check", "merge", "copy"}
         => Size(p) > threshold
    /\ procs[p].pc \in {"merge", "copy"} =>
         LeftOf(p) \in DOMAIN procs /\ RightOf(p) \in DOMAIN procs
    /\ LeftOf(p) \in DOMAIN procs => procs[LeftOf(p)].begin = procs[p].begin
    /\ RightOf(p) \in DOMAIN procs =>
         procs[RightOf(p)].begin = Mid(p) /\ procs[RightOf(p)].end = procs[p].end

DataOK ==
    /\ args \in Jobs
    /\ N \in Nat /\ input \in [0 .. N - 1 -> Int] /\ arr \in [0 .. N - 1 -> Int]
    /\ faults \in 0 .. MaxFaults
    /\ procs[Root].begin = 0 /\ procs[Root].end = N
    /\ \A p \in DOMAIN procs : ArrayOK(p) /\ HalvesOK(p)

-----------------------------------------------------------------------------
(* What a step does to the process that takes it: the fields that it       *)
(* leaves alone, and what it puts into the others.                         *)

Keeps(p, fs) == \A f \in fs : procs'[p][f] = procs[p][f]

Sorts(p) ==
    /\ Changed(p) /\ Keeps(p, {"temp", "copied", "wstatus"}) /\ UNCHANGED <<args, faults>>
    /\ procs[p].pc = "sort" /\ Small(p)
    /\ arr' = Sorted(arr, procs[p].begin, procs[p].end)
    /\ \/ p = Root /\ procs'[p].pc = "unmap" /\ procs'[p].outcome = "none"
       \/ p # Root /\ procs'[p].pc = "sort" /\ procs'[p].outcome = "ok"

\* A step on the way to the merge.
Goes(p) ==
    /\ Changed(p) /\ Keeps(p, {"temp", "copied", "outcome"})
    /\ UNCHANGED <<arr, args, faults>>
    /\ procs'[p].wstatus \in {procs[p].wstatus}
         \cup {procs[q].outcome : q \in {LeftOf(p), RightOf(p)} \cap DOMAIN procs}
    /\ <<procs[p].pc, procs'[p].pc>> \in
         {<<"main", "sort">>, <<"waitleft", "waitright">>, <<"waitright", "check">>,
          <<"check", "merge">>}

Fails(p) ==
    /\ Changed(p) /\ Keeps(p, {"pc", "temp", "copied", "wstatus"})
    /\ UNCHANGED <<arr, args>> /\ faults' \in {faults, faults + 1}
    /\ faults' = faults \/ faults < MaxFaults
    /\ procs'[p].outcome \in {"error", "signal"}
    /\ procs[p].pc = "copy" => procs'[p].outcome = "signal"

Succeed(p) ==
    /\ Changed(p) /\ Keeps(p, {"pc", "temp", "copied", "wstatus"})
    /\ UNCHANGED <<arr, args, faults>>
    /\ procs[p].pc = "unmap" /\ procs'[p].outcome = "ok"

Merges(p) ==
    /\ Changed(p) /\ Keeps(p, {"outcome", "copied", "wstatus"})
    /\ UNCHANGED <<arr, args, faults>>
    /\ procs[p].pc = "merge" /\ procs'[p].pc = "copy"
    /\ procs'[p].temp = Merged(arr, procs[p].begin, Mid(p), procs[p].end)

Copies(p) ==
    /\ Changed(p) /\ Keeps(p, {"wstatus"}) /\ UNCHANGED <<args, faults>>
    /\ procs[p].pc = "copy"
    /\ arr' = [arr EXCEPT ![procs[p].begin + procs[p].copied] =
                 procs[p].temp[procs[p].copied + 1]]
    /\ IF procs[p].copied + 1 < Size(p)
       THEN /\ procs'[p].pc = "copy" /\ procs'[p].outcome = "none"
            /\ procs'[p].temp = procs[p].temp
            /\ procs'[p].copied = procs[p].copied + 1
       ELSE /\ procs'[p].copied = 0 /\ procs'[p].temp = <<>>
            /\ \/ p = Root /\ procs'[p].pc = "unmap" /\ procs'[p].outcome = "none"
               \/ p # Root /\ procs'[p].pc = "copy" /\ procs'[p].outcome = "ok"

Forks(p) ==
    \E x \in {"L", "R"}, pc \in {"forkright", "waitleft"} :
    LET c == Append(p, x)
        b == IF x = "L" THEN procs[p].begin ELSE Mid(p)
        e == IF x = "L" THEN Mid(p) ELSE procs[p].end
    IN  /\ c \in Paths /\ c \notin DOMAIN procs
        /\ pc = IF x = "L" THEN "forkright" ELSE "waitleft"
        /\ DOMAIN procs' = DOMAIN procs \cup {c}
        /\ procs'[c] = Process("sort", b, e)
        /\ \A q \in DOMAIN procs : q # p => procs'[q] = procs[q]
        /\ Keeps(p, Fields \ {"pc"}) /\ DOMAIN procs'[p] = Fields
        /\ procs[p].outcome = "none"
        /\ procs[p].pc = IF x = "L" THEN "sort" ELSE "forkright"
        /\ procs'[p].pc = pc
        /\ x = "L" => ~ Small(p)
        /\ UNCHANGED <<arr, args, faults>>

LEMMA SortEffect ==
    ASSUME SortInv, NEW p \in DOMAIN procs, SortSequentially(p)
    PROVE  Sorts(p)
<1> DEFINE r == Returned(p, procs[p])
<1>1. /\ procs[p].outcome = "none" /\ procs[p].pc = "sort" /\ Small(p)
      /\ procs' = [procs EXCEPT ![p] = r] /\ UNCHANGED <<args, faults>>
      /\ threshold' = threshold
      /\ arr' = Sorted(arr, procs[p].begin, procs[p].end)
  BY DEF SortSequentially, At, args
<1>2. ProcessOK(procs[p])
  BY DEF SortInv, TreeOK
<1>3. /\ ProcessOK(r) /\ r.begin = procs[p].begin /\ r.end = procs[p].end
      /\ \A f \in {"temp", "copied", "wstatus"} : r[f] = procs[p][f]
      /\ \/ p = Root /\ r.pc = "unmap" /\ r.outcome = "none"
         \/ p # Root /\ r.pc = "sort" /\ r.outcome = "ok"
  BY <1>1, <1>2 DEF Returned, ProcessOK, Fields, Places, Outcomes
<1> HIDE DEF r
<1>4. Changed(p) /\ procs'[p] = r
  BY <1>1, <1>3, Replaced
<1> QED
  BY <1>1, <1>3, <1>4 DEF Sorts, Keeps

LEMMA GoEffect ==
    ASSUME SortInv, NEW p \in DOMAIN procs,
           \/ p = Root /\ MapFile
           \/ WaitLeft(p) \/ WaitRight(p)
           \/ Check(p) /\ procs[p].wstatus = "ok"
    PROVE  Goes(p)
<1> SUFFICES ASSUME NEW pc \in Places, NEW w,
                    procs[p].outcome = "none", UNCHANGED <<arr, args, faults>>,
                    procs' = [procs EXCEPT ![p].wstatus = w, ![p].pc = pc],
                    w \in {procs[p].wstatus} \cup
                       {procs[q].outcome : q \in {LeftOf(p), RightOf(p)} \cap DOMAIN procs},
                    <<procs[p].pc, pc>> \in
                      {<<"main", "sort">>, <<"waitleft", "waitright">>,
                       <<"waitright", "check">>, <<"check", "merge">>}
             PROVE  Goes(p)
  <2>0. ProcessOK(procs[p])
    BY DEF SortInv, TreeOK
  <2>1. CASE p = Root /\ MapFile
    <3>1. procs' = [procs EXCEPT ![p].wstatus = procs[p].wstatus, ![p].pc = "sort"]
      BY <2>0, <2>1 DEF MapFile, Goto, ProcessOK, Fields
    <3>2. /\ procs[p].outcome = "none" /\ procs[p].pc = "main"
          /\ UNCHANGED <<arr, args, faults>> /\ "sort" \in Places
      BY <2>1 DEF MapFile, At, Places
    <3> QED
      BY <3>1, <3>2
  <2>2. CASE WaitLeft(p)
    <3>1. /\ procs[p].outcome = "none" /\ procs[p].pc = "waitleft"
          /\ UNCHANGED <<arr, args, faults>> /\ "waitright" \in Places
          /\ procs' = [procs EXCEPT ![p].wstatus = procs[LeftOf(p)].outcome,
                                    ![p].pc = "waitright"]
      BY <2>2 DEF WaitLeft, Wait, At, Places
    <3>2. LeftOf(p) \in DOMAIN procs
      BY <3>1 DEF SortInv, ChildrenOK
    <3> DEFINE v == procs[LeftOf(p)].outcome
    <3>3. v \in {procs[q].outcome : q \in {LeftOf(p), RightOf(p)} \cap DOMAIN procs}
      BY <3>2
    <3> HIDE DEF v
    <3>4. procs' = [procs EXCEPT ![p].wstatus = v, ![p].pc = "waitright"]
      BY <3>1 DEF v
    <3> QED
      BY <3>1, <3>3, <3>4
  <2>3. CASE WaitRight(p)
    <3>1. /\ procs[p].outcome = "none" /\ procs[p].pc = "waitright"
          /\ UNCHANGED <<arr, args, faults>> /\ "check" \in Places
          /\ procs' = [procs EXCEPT ![p].wstatus = procs[RightOf(p)].outcome,
                                    ![p].pc = "check"]
      BY <2>3 DEF WaitRight, Wait, At, Places
    <3>2. RightOf(p) \in DOMAIN procs
      BY <3>1 DEF SortInv, ChildrenOK
    <3> DEFINE v == procs[RightOf(p)].outcome
    <3>3. v \in {procs[q].outcome : q \in {LeftOf(p), RightOf(p)} \cap DOMAIN procs}
      BY <3>2
    <3> HIDE DEF v
    <3>4. procs' = [procs EXCEPT ![p].wstatus = v, ![p].pc = "check"]
      BY <3>1 DEF v
    <3> QED
      BY <3>1, <3>3, <3>4
  <2>4. CASE Check(p) /\ procs[p].wstatus = "ok"
    <3>1. procs' = [procs EXCEPT ![p].wstatus = procs[p].wstatus, ![p].pc = "merge"]
      BY <2>0, <2>4 DEF Check, Goto, ProcessOK, Fields
    <3>2. /\ procs[p].outcome = "none" /\ procs[p].pc = "check"
          /\ UNCHANGED <<arr, args, faults>> /\ "merge" \in Places
      BY <2>4 DEF Check, At, Places
    <3> QED
      BY <3>1, <3>2
  <2> QED
    BY <2>1, <2>2, <2>3, <2>4
<1> DEFINE r == [procs[p] EXCEPT !.wstatus = w, !.pc = pc]
<1>1. ProcessOK(procs[p])
  BY DEF SortInv, TreeOK
<1>2. /\ ProcessOK(r) /\ r.begin = procs[p].begin /\ r.end = procs[p].end
      /\ r.pc = pc /\ r.wstatus = w
      /\ \A f \in {"temp", "copied", "outcome"} : r[f] = procs[p][f]
  BY <1>1 DEF ProcessOK, Fields
<1>3. procs' = [procs EXCEPT ![p] = r] /\ threshold' = threshold
  BY DEF args
<1> HIDE DEF r
<1>4. Changed(p) /\ procs'[p] = r
  BY <1>2, <1>3, Replaced
<1> QED
  BY <1>2, <1>4 DEF Goes, Keeps

LEMMA FailEffect ==
    ASSUME SortInv, NEW p \in DOMAIN procs,
           NEW how \in {"error", "signal"}, procs[p].outcome = "none",
           Exit(p, how), UNCHANGED <<arr, args>>,
           faults' = faults \/ (faults < MaxFaults /\ faults' = faults + 1),
           procs[p].pc = "copy" => how = "signal"
    PROVE  Fails(p)
<1> DEFINE r == [procs[p] EXCEPT !.outcome = how]
<1>1. ProcessOK(procs[p])
  BY DEF SortInv, TreeOK
<1>2. /\ ProcessOK(r) /\ r.begin = procs[p].begin /\ r.end = procs[p].end
      /\ r.outcome = how
      /\ \A f \in {"pc", "temp", "copied", "wstatus"} : r[f] = procs[p][f]
  BY <1>1 DEF ProcessOK, Fields, Outcomes
<1>3. procs' = [procs EXCEPT ![p] = r] /\ threshold' = threshold
  BY DEF Exit, args
<1> HIDE DEF r
<1>4. Changed(p) /\ procs'[p] = r
  BY <1>2, <1>3, Replaced
<1>5. /\ faults' \in {faults, faults + 1} /\ (faults' = faults \/ faults < MaxFaults)
      /\ (procs[p].pc = "copy" => procs'[p].outcome = "signal")
      /\ procs'[p].outcome \in {"error", "signal"}
  BY <1>2, <1>4
<1> QED
  BY <1>2, <1>4, <1>5 DEF Fails, Keeps

LEMMA SucceedEffect ==
    ASSUME SortInv, Unmap, Exit(Root, "ok"), faults' = faults
    PROVE  Succeed(Root)
<1> DEFINE r == [procs[Root] EXCEPT !.outcome = "ok"]
<1>1. Root \in DOMAIN procs /\ ProcessOK(procs[Root])
  BY DEF SortInv, TreeOK
<1>2. /\ ProcessOK(r) /\ r.begin = procs[Root].begin /\ r.end = procs[Root].end
      /\ r.outcome = "ok"
      /\ \A f \in {"pc", "temp", "copied", "wstatus"} : r[f] = procs[Root][f]
  BY <1>1 DEF ProcessOK, Fields, Outcomes
<1>3. /\ procs' = [procs EXCEPT ![Root] = r] /\ threshold' = threshold
      /\ procs[Root].pc = "unmap" /\ procs[Root].outcome = "none"
      /\ UNCHANGED <<arr, args, faults>>
  BY DEF Exit, args, Unmap, At
<1> HIDE DEF r
<1>4. Changed(Root) /\ procs'[Root] = r
  BY <1>1, <1>2, <1>3, Replaced
<1> QED
  BY <1>2, <1>3, <1>4 DEF Succeed, Keeps

LEMMA MergeEffect ==
    ASSUME SortInv, NEW p \in DOMAIN procs, Merge(p)
    PROVE  Merges(p)
<1> DEFINE t == Merged(arr, procs[p].begin, Mid(p), procs[p].end)
           r == [procs[p] EXCEPT !.temp = t, !.pc = "copy"]
<1>1. /\ procs[p].outcome = "none" /\ procs[p].pc = "merge"
      /\ procs' = [procs EXCEPT ![p] = r] /\ threshold' = threshold
      /\ UNCHANGED <<arr, args, faults>>
  BY DEF Merge, At, args
<1> HIDE DEF t
<1>2. ProcessOK(procs[p])
  BY DEF SortInv, TreeOK
<1>3. /\ ProcessOK(r) /\ r.begin = procs[p].begin /\ r.end = procs[p].end
      /\ r.pc = "copy" /\ r.temp = t
      /\ \A f \in {"outcome", "copied", "wstatus"} : r[f] = procs[p][f]
  BY <1>2 DEF ProcessOK, Fields, Places
<1> HIDE DEF r
<1>4. Changed(p) /\ procs'[p] = r
  BY <1>1, <1>3, Replaced
<1> QED
  BY <1>1, <1>3, <1>4 DEF Merges, Keeps, t

LEMMA CopyEffect ==
    ASSUME SortInv, NEW p \in DOMAIN procs, CopyBack(p)
    PROVE  Copies(p)
<1> DEFINE i == procs[p].copied
           more == [procs[p] EXCEPT !.copied = i + 1]
           last == [procs[p] EXCEPT !.copied = 0, !.temp = <<>>]
           r == IF i + 1 < Size(p) THEN more ELSE Returned(p, last)
<1>1. /\ procs[p].outcome = "none" /\ procs[p].pc = "copy"
      /\ procs' = [procs EXCEPT ![p] = r] /\ threshold' = threshold
      /\ UNCHANGED <<args, faults>>
      /\ arr' = [arr EXCEPT ![procs[p].begin + procs[p].copied] =
                   procs[p].temp[procs[p].copied + 1]]
  BY DEF CopyBack, At, args
<1>2. ProcessOK(procs[p])
  BY DEF SortInv, TreeOK
<1> DEFINE j == i + 1
<1> HIDE DEF j
<1>3. /\ ProcessOK(more) /\ more.begin = procs[p].begin /\ more.end = procs[p].end
      /\ more.pc = "copy" /\ more.outcome = "none" /\ more.temp = procs[p].temp
      /\ more.copied = j /\ more.wstatus = procs[p].wstatus
  BY <1>1, <1>2 DEF ProcessOK, Fields, j
<1>4. /\ ProcessOK(last) /\ last.begin = procs[p].begin /\ last.end = procs[p].end
      /\ last.pc = "copy" /\ last.outcome = "none" /\ last.temp = <<>>
      /\ last.copied = 0 /\ last.wstatus = procs[p].wstatus
  BY <1>1, <1>2 DEF ProcessOK, Fields
<1> HIDE DEF more, last
<1>5. LET z == Returned(p, last)
      IN  /\ ProcessOK(z) /\ z.begin = procs[p].begin /\ z.end = procs[p].end
          /\ z.temp = <<>> /\ z.copied = 0 /\ z.wstatus = procs[p].wstatus
          /\ \/ p = Root /\ z.pc = "unmap" /\ z.outcome = "none"
             \/ p # Root /\ z.pc = "copy" /\ z.outcome = "ok"
  BY <1>4 DEF Returned, ProcessOK, Fields, Places, Outcomes
<1>6. ProcessOK(r) /\ r.begin = procs[p].begin /\ r.end = procs[p].end
  <2>1. CASE i + 1 < Size(p)
    BY <1>3, <2>1
  <2>2. CASE ~ (i + 1 < Size(p))
    BY <1>5, <2>2
  <2> QED
    BY <2>1, <2>2
<1>7. Changed(p) /\ procs'[p] = r
  <2> HIDE DEF r
  <2> QED
    BY <1>1, <1>6, Replaced
<1>8. CASE i + 1 < Size(p)
  <2>1. procs'[p] = more
    BY <1>7, <1>8
  <2>2. Keeps(p, {"wstatus"})
    BY <1>3, <2>1 DEF Keeps
  <2> QED
    BY <1>1, <1>3, <1>7, <1>8, <2>1, <2>2 DEF Copies, j
<1>9. CASE ~ (i + 1 < Size(p))
  <2>1. procs'[p] = Returned(p, last)
    BY <1>7, <1>9
  <2>2. Keeps(p, {"wstatus"})
    BY <1>5, <2>1 DEF Keeps
  <2> QED
    BY <1>1, <1>5, <1>7, <1>9, <2>1, <2>2 DEF Copies
<1> QED
  BY <1>8, <1>9

LEMMA ForkEffect ==
    ASSUME SortInv, NEW p \in DOMAIN procs, ForkLeft(p) \/ ForkRight(p)
    PROVE  Forks(p)
<1>0. p \in Paths /\ ProcessOK(procs[p])
  BY DEF SortInv, TreeOK
<1> SUFFICES ASSUME NEW x \in {"L", "R"}, NEW c, c = Append(p, x), c \notin DOMAIN procs,
                    NEW b, b = IF x = "L" THEN procs[p].begin ELSE Mid(p),
                    NEW e, e = IF x = "L" THEN Mid(p) ELSE procs[p].end,
                    NEW pc, pc = IF x = "L" THEN "forkright" ELSE "waitleft",
                    Fork(p, c, b, e, pc), procs[p].outcome = "none",
                    procs[p].pc = IF x = "L" THEN "sort" ELSE "forkright",
                    x = "L" => ~ Small(p)
             PROVE  Forks(p)
  <2>1. CASE ForkLeft(p)
    <3>1. LeftOf(p) = Append(p, "L") /\ LeftOf(p) \notin DOMAIN procs
      BY <2>1 DEF LeftOf, ForkLeft, At, SortInv, ChildrenOK
    <3> QED
      BY <2>1, <3>1 DEF ForkLeft, At
  <2>2. CASE ForkRight(p)
    <3>1. RightOf(p) = Append(p, "R") /\ RightOf(p) \notin DOMAIN procs
      BY <2>2 DEF RightOf, ForkRight, At, SortInv, ChildrenOK
    <3> QED
      BY <2>2, <3>1 DEF ForkRight, At
  <2> QED
    BY <2>1, <2>2
<1>1. c \in Paths /\ c # p
  BY <1>0, ChildPath, PathLength
<1>2. procs' = [q \in DOMAIN procs \union {c} |->
                  IF q = c THEN Process("sort", b, e)
                           ELSE [procs EXCEPT ![p].pc = pc][q]]
  BY DEF Fork
<1>3. DOMAIN procs' = DOMAIN procs \union {c} /\ procs'[c] = Process("sort", b, e)
  BY <1>2
<1>4. \A q \in DOMAIN procs : q # p => procs'[q] = procs[q]
  BY <1>2
<1>5. procs'[p] = [procs[p] EXCEPT !.pc = pc]
  BY <1>1, <1>2
<1>6. /\ \A f \in Fields \ {"pc"} : procs'[p][f] = procs[p][f]
      /\ procs'[p].pc = pc /\ DOMAIN procs'[p] = Fields
  BY <1>0, <1>5 DEF ProcessOK, Fields
<1>7. UNCHANGED <<arr, args, faults>>
  BY DEF Fork
<1>8. pc \in {"forkright", "waitleft"}
  OBVIOUS
<1> QED
  BY <1>1, <1>3, <1>4, <1>6, <1>7, <1>8 DEF Forks, Keeps

\* A step is one of these, whichever action it is.
Does(p) == \/ Sorts(p) \/ Goes(p) \/ Fails(p) \/ Succeed(p)
           \/ Merges(p) \/ Copies(p) \/ Forks(p)

LEMMA Effects ==
    ASSUME SortInv, Next
    PROVE  \E p \in DOMAIN procs : Does(p)
<1>0. Root \in DOMAIN procs
  BY DEF SortInv, TreeOK
<1>1. CASE MapFile
  BY <1>0, <1>1, GoEffect DEF Does
<1>2. CASE MapFails
  <2>1. Fails(Root)
    <3>1. /\ Exit(Root, "error") /\ UNCHANGED <<arr, args>> /\ procs[Root].pc # "copy"
          /\ procs[Root].outcome = "none" /\ "error" \in {"error", "signal"}
          /\ faults' = faults \/ (faults < MaxFaults /\ faults' = faults + 1)
      BY <1>2 DEF MapFails, At, Fault
    <3> QED
      BY <1>0, <3>1, FailEffect
  <2> QED
    BY <1>0, <2>1 DEF Does
<1>3. CASE Unmap
  <2>1. CASE Exit(Root, "ok") /\ faults' = faults
    BY <1>0, <1>3, <2>1, SucceedEffect DEF Does
  <2>2. CASE Fault /\ Exit(Root, "error")
    <3>1. /\ Exit(Root, "error") /\ UNCHANGED <<arr, args>> /\ procs[Root].pc # "copy"
          /\ procs[Root].outcome = "none" /\ "error" \in {"error", "signal"}
          /\ faults' = faults \/ (faults < MaxFaults /\ faults' = faults + 1)
      BY <1>3, <2>2 DEF Unmap, At, Fault
    <3>2. Fails(Root)
      BY <1>0, <3>1, FailEffect
    <3> QED
      BY <1>0, <3>2 DEF Does
  <2> QED
    BY <1>3, <2>1, <2>2 DEF Unmap
<1>4. ASSUME NEW p \in DOMAIN procs, Killed(p)
      PROVE  Does(p)
  <2>1. /\ Exit(p, "signal") /\ UNCHANGED <<arr, args>>
        /\ procs[p].outcome = "none" /\ "signal" \in {"error", "signal"}
        /\ faults' = faults \/ (faults < MaxFaults /\ faults' = faults + 1)
    BY <1>4 DEF Killed, Ended, Fault
  <2>2. Fails(p)
    BY <2>1, FailEffect
  <2> QED
    BY <2>2 DEF Does
<1>5. ASSUME NEW p \in DOMAIN procs, ForkFails(p) \/ MallocFails(p)
      PROVE  Does(p)
  <2>1. /\ Exit(p, "error") /\ UNCHANGED <<arr, args>> /\ procs[p].pc # "copy"
        /\ procs[p].outcome = "none" /\ "error" \in {"error", "signal"}
        /\ faults' = faults \/ (faults < MaxFaults /\ faults' = faults + 1)
    BY <1>5 DEF ForkFails, MallocFails, At, Fault
  <2>2. Fails(p)
    BY <2>1, FailEffect
  <2> QED
    BY <2>2 DEF Does
<1>6. ASSUME NEW p \in DOMAIN procs, Check(p)
      PROVE  Does(p)
  <2>1. CASE procs[p].wstatus = "ok"
    BY <1>6, <2>1, GoEffect DEF Does
  <2>2. CASE procs[p].wstatus # "ok"
    <3>1. /\ Exit(p, "error") /\ UNCHANGED <<arr, args>> /\ procs[p].pc # "copy"
          /\ procs[p].outcome = "none" /\ "error" \in {"error", "signal"}
          /\ faults' = faults \/ (faults < MaxFaults /\ faults' = faults + 1)
      BY <1>6, <2>2 DEF Check, At
    <3>2. Fails(p)
      BY <3>1, FailEffect
    <3> QED
      BY <3>2 DEF Does
  <2> QED
    BY <2>1, <2>2
<1>7. ASSUME NEW p \in DOMAIN procs, Step(p)
      PROVE  Does(p)
  <2>1. CASE WaitLeft(p) \/ WaitRight(p)
    BY <2>1, GoEffect DEF Does
  <2>2. CASE SortSequentially(p)
    BY <2>2, SortEffect DEF Does
  <2>3. CASE ForkLeft(p) \/ ForkRight(p)
    BY <2>3, ForkEffect DEF Does
  <2>4. CASE Merge(p)
    BY <2>4, MergeEffect DEF Does
  <2>5. CASE CopyBack(p)
    BY <2>5, CopyEffect DEF Does
  <2> QED
    BY <1>5, <1>6, <1>7, <2>1, <2>2, <2>3, <2>4, <2>5 DEF Step
<1> QED
  BY <1>0, <1>1, <1>2, <1>3, <1>4, <1>7 DEF Next

-----------------------------------------------------------------------------
(* Types are kept.                                                         *)

LEMMA InitDataOK == Init => DataOK
<1> SUFFICES ASSUME Init PROVE DataOK
  OBVIOUS
<1>1. PICK job \in Jobs : input = job[1] /\ threshold = job[2]
  BY DEF Init
<1> DEFINE n == Cardinality(DOMAIN job[1])
<1>2. IsFiniteSet(DOMAIN job[1]) /\ job \in [0 .. n - 1 -> Int] \X Nat
  BY JobsAssumption
<1>3. N = n /\ N \in Nat
  BY <1>1, <1>2, FS_CardinalityType DEF N
<1>4. args \in Jobs /\ input \in [0 .. N - 1 -> Int] /\ arr = input
  <2> HIDE DEF n
  <2>1. job = <<job[1], job[2]>>
    BY <1>2
  <2> QED
    BY <1>1, <1>2, <1>3, <2>1 DEF args, Init
<1>5. /\ DOMAIN procs = {Root} /\ procs[Root] = Process("main", 0, N)
      /\ faults = 0 /\ 0 \in 0 .. MaxFaults
  BY LimitsAssumption DEF Init
<1>6. /\ procs[Root].begin = 0 /\ procs[Root].end = N /\ procs[Root].pc = "main"
      /\ procs[Root].wstatus = "none" /\ procs[Root].temp = <<>>
      /\ procs[Root].copied = 0
  BY <1>5 DEF Process
<1>7. ArrayOK(Root)
  BY <1>6, EmptySeq DEF ArrayOK, HasArray, Outcomes
<1>8. LeftOf(Root) \notin DOMAIN procs /\ RightOf(Root) \notin DOMAIN procs
  <2>1. Root \in Paths
    BY EmptySeq DEF Root, Paths
  <2> QED
    BY <1>5, <2>1, ChildrenDiffer
<1>9. HalvesOK(Root)
  BY <1>6, <1>8 DEF HalvesOK
<1> QED
  BY <1>3, <1>4, <1>5, <1>6, <1>7, <1>9 DEF DataOK

\* The values of a permutation of integers are integers.
LEMMA RearrangedInts ==
    ASSUME NEW S, NEW T, NEW a, NEW b, Rearranged(b, S, a, T), \A i \in T : a[i] \in Int
    PROVE  \A k \in S : b[k] \in Int
<1>1. PICK f \in Bijection(S, T) : \A k \in S : b[k] = a[f[k]]
  BY DEF Rearranged
<1>2. f \in [S -> T]
  BY <1>1, Bijective
<1> QED
  BY <1>1, <1>2

\* Where a process is in the array.
LEMMA InArray ==
    ASSUME SortInv, DataOK, NEW p \in DOMAIN procs
    PROVE  /\ procs[p].begin \in Int /\ procs[p].end \in Int
           /\ 0 <= procs[p].begin /\ procs[p].begin <= procs[p].end /\ procs[p].end <= N
           /\ Mid(p) \in Int /\ procs[p].begin <= Mid(p) /\ Mid(p) <= procs[p].end
           /\ Size(p) \in Nat
           /\ procs[p].begin .. procs[p].end - 1 \subseteq 0 .. N - 1
<1>1. procs[p].begin \in Int /\ procs[p].end \in Int /\ procs[p].begin <= procs[p].end
  BY DEF SortInv, TreeOK, ProcessOK
<1>2. p = Root \/ Under(p, Root)
  BY UnderRoot DEF SortInv, TreeOK
<1>3. procs[Root].begin <= procs[p].begin /\ procs[p].end <= procs[Root].end
  BY <1>1, <1>2 DEF SortInv, TreeOK, RangesNested
<1>4. N \in Nat /\ procs[Root].begin = 0 /\ procs[Root].end = N
  BY DEF DataOK
<1>5. Mid(p) \in Int /\ procs[p].begin <= Mid(p) /\ Mid(p) <= procs[p].end
  BY <1>1, Middle DEF Mid, Size
<1>6. 0 <= procs[p].begin /\ procs[p].end <= N /\ Size(p) \in Nat
  BY <1>1, <1>3, <1>4 DEF Size
<1> QED
  BY <1>1, <1>4, <1>5, <1>6

Split == {"forkright", "waitleft", "waitright", "check", "merge", "copy"}

LEMMA HalvesKept ==
    ASSUME SortInv, DataOK, NEW p \in DOMAIN procs, Changed(p),
           procs'[p].pc \in Split => procs[p].pc \in Split,
           procs'[p].pc \in {"merge", "copy"} => procs[p].pc \in {"check", "merge", "copy"},
           NEW q \in DOMAIN procs
    PROVE  HalvesOK(q)' /\ Size(q)' = Size(q)
<1>1. DOMAIN procs' = DOMAIN procs /\ threshold' = threshold
  BY DEF Changed
<1>2. \A r \in DOMAIN procs : procs'[r].begin = procs[r].begin /\ procs'[r].end = procs[r].end
  BY DEF Changed
<1>3. Size(q)' = Size(q) /\ Mid(q)' = Mid(q)
  BY <1>2 DEF Size, Mid
<1>4. HalvesOK(q)
  BY DEF DataOK
<1>5. /\ procs'[q].pc \in Split => procs[q].pc \in Split
      /\ procs'[q].pc \in {"merge", "copy"} => procs[q].pc \in {"check", "merge", "copy"}
  BY DEF Changed
<1>6. procs[q].pc \in {"check", "merge", "copy"} =>
        LeftOf(q) \in DOMAIN procs /\ RightOf(q) \in DOMAIN procs
  BY <1>4 DEF HalvesOK, SortInv, ChildrenOK
<1> QED
  BY <1>1, <1>2, <1>3, <1>4, <1>5, <1>6 DEF HalvesOK, Split

LEMMA OthersArrays ==
    ASSUME DataOK, NEW p \in DOMAIN procs, Changed(p),
           NEW q \in DOMAIN procs, q # p, Size(q)' = Size(q)
    PROVE  ArrayOK(q)'
<1>1. procs'[q] = procs[q] /\ ArrayOK(q)
  BY DEF Changed, DataOK
<1> QED
  BY <1>1 DEF ArrayOK, HasArray

\* All that is left to show for a step that is not a fork.
LEMMA DataKept ==
    ASSUME SortInv, DataOK, NEW p \in DOMAIN procs, Changed(p),
           procs'[p].pc \in Split => procs[p].pc \in Split,
           procs'[p].pc \in {"merge", "copy"} => procs[p].pc \in {"check", "merge", "copy"},
           ArrayOK(p)', arr' \in [0 .. N - 1 -> Int], args' = args,
           faults' \in 0 .. MaxFaults
    PROVE  DataOK'
<1>1. input' = input /\ N' = N
  BY DEF args, N
<1>2. \A q \in DOMAIN procs : HalvesOK(q)' /\ Size(q)' = Size(q)
  BY HalvesKept
<1>3. \A q \in DOMAIN procs : ArrayOK(q)'
  BY <1>2, OthersArrays
<1>4. procs'[Root].begin = 0 /\ procs'[Root].end = N
  BY DEF Changed, DataOK, SortInv, TreeOK
<1>5. DOMAIN procs' = DOMAIN procs
  BY DEF Changed
<1> QED
  BY <1>1, <1>2, <1>3, <1>4, <1>5 DEF DataOK

LEMMA ForksData ==
    ASSUME SortInv, DataOK, NEW p \in DOMAIN procs, Forks(p)
    PROVE  DataOK'
<1>1. PICK x \in {"L", "R"} :
        LET c == Append(p, x)
            b == IF x = "L" THEN procs[p].begin ELSE Mid(p)
            e == IF x = "L" THEN Mid(p) ELSE procs[p].end
            pc == IF x = "L" THEN "forkright" ELSE "waitleft"
        IN  /\ c \in Paths /\ c \notin DOMAIN procs
            /\ DOMAIN procs' = DOMAIN procs \cup {c}
            /\ procs'[c] = Process("sort", b, e)
            /\ \A q \in DOMAIN procs : q # p => procs'[q] = procs[q]
            /\ Keeps(p, Fields \ {"pc"})
            /\ procs[p].outcome = "none"
            /\ procs[p].pc = IF x = "L" THEN "sort" ELSE "forkright"
            /\ procs'[p].pc = pc
            /\ x = "L" => ~ Small(p)
            /\ UNCHANGED <<arr, args, faults>>
  BY DEF Forks
<1> DEFINE c == Append(p, x)
           b == IF x = "L" THEN procs[p].begin ELSE Mid(p)
           e == IF x = "L" THEN Mid(p) ELSE procs[p].end
<1>2. /\ c \in Paths /\ c \notin DOMAIN procs
      /\ DOMAIN procs' = DOMAIN procs \cup {c}
      /\ procs'[c].begin = b /\ procs'[c].end = e /\ procs'[c].pc = "sort"
      /\ procs'[c].outcome = "none" /\ procs'[c].wstatus = "none"
      /\ procs'[c].temp = <<>> /\ procs'[c].copied = 0
  BY <1>1 DEF Process
<1>3. \A q \in DOMAIN procs :
        /\ procs'[q].begin = procs[q].begin /\ procs'[q].end = procs[q].end
        /\ procs'[q].outcome = procs[q].outcome /\ procs'[q].wstatus = procs[q].wstatus
        /\ procs'[q].temp = procs[q].temp /\ procs'[q].copied = procs[q].copied
        /\ q # p => procs'[q].pc = procs[q].pc
  BY <1>1 DEF Keeps, Fields
<1>4. /\ procs[p].pc = (IF x = "L" THEN "sort" ELSE "forkright")
      /\ procs'[p].pc = (IF x = "L" THEN "forkright" ELSE "waitleft")
      /\ UNCHANGED <<arr, args, faults>>
      /\ x = "L" => ~ Small(p)
  BY <1>1
<1>5. N' = N /\ threshold' = threshold /\ input' = input
  BY <1>4 DEF N, args
<1>6. p \in Paths /\ DOMAIN procs \subseteq Paths /\ Root \in DOMAIN procs
  BY DEF SortInv, TreeOK
<1>7. \A q \in DOMAIN procs : Size(q)' = Size(q) /\ Mid(q)' = Mid(q)
  BY <1>3 DEF Size, Mid
<1>8. c = IF x = "L" THEN LeftOf(p) ELSE RightOf(p)
  BY DEF LeftOf, RightOf
<1> HIDE DEF c
<1>9. \A q \in DOMAIN procs : ArrayOK(q)'
  <2> SUFFICES ASSUME NEW q \in DOMAIN procs PROVE ArrayOK(q)'
    OBVIOUS
  <2>1. ArrayOK(q)
    BY DEF DataOK
  <2>2. HasArray(q)' <=> HasArray(q)
    BY <1>3, <1>4 DEF HasArray
  <2> QED
    BY <1>3, <1>7, <2>1, <2>2 DEF ArrayOK
<1>10. ArrayOK(c)'
  BY <1>2, EmptySeq DEF ArrayOK, HasArray, Outcomes
<1>11. \A q \in DOMAIN procs : HalvesOK(q)'
  <2> SUFFICES ASSUME NEW q \in DOMAIN procs PROVE HalvesOK(q)'
    OBVIOUS
  <2>1. HalvesOK(q)
    BY DEF DataOK
  <2>2. /\ LeftOf(q) = c => q = p /\ x = "L"
        /\ RightOf(q) = c => q = p /\ x = "R"
    BY <1>6, <1>8, PathsOfChildren
  <2>3. procs'[q].pc \in Split => Size(q) > threshold
    <3>1. CASE q # p
      BY <1>3, <2>1, <3>1 DEF HalvesOK, Split
    <3>2. CASE q = p /\ x = "R"
      BY <1>4, <2>1, <3>2 DEF HalvesOK, Split
    <3>3. CASE q = p /\ x = "L"
      <4>1. Size(p) \in Nat /\ threshold \in Nat
        BY InArray DEF SortInv, TreeOK
      <4> QED
        BY <1>4, <3>3, <4>1 DEF Small
    <3> QED
      BY <3>1, <3>2, <3>3
  <2>4. procs'[q].pc \in {"merge", "copy"} =>
          LeftOf(q) \in DOMAIN procs' /\ RightOf(q) \in DOMAIN procs'
    BY <1>2, <1>3, <1>4, <2>1 DEF HalvesOK
  <2>5. LeftOf(q) \in DOMAIN procs' => procs'[LeftOf(q)].begin = procs'[q].begin
    BY <1>2, <1>3, <2>1, <2>2 DEF HalvesOK
  <2>6. RightOf(q) \in DOMAIN procs' =>
          procs'[RightOf(q)].begin = Mid(q) /\ procs'[RightOf(q)].end = procs'[q].end
    BY <1>2, <1>3, <2>1, <2>2 DEF HalvesOK
  <2> QED
    BY <1>5, <1>7, <2>3, <2>4, <2>5, <2>6 DEF HalvesOK, Split
<1>12. HalvesOK(c)'
  <2>1. LeftOf(c) \notin DOMAIN procs' /\ RightOf(c) \notin DOMAIN procs'
    <3>1. Under(LeftOf(c), c) /\ Under(RightOf(c), c)
      BY <1>2, AboveChild DEF LeftOf, RightOf
    <3>2. LeftOf(c) \in Paths /\ RightOf(c) \in Paths /\ LeftOf(c) # c /\ RightOf(c) # c
      BY <1>2, ChildrenDiffer
    <3> QED
      BY <1>2, <3>1, <3>2 DEF SortInv, TreeOK
  <2> QED
    BY <1>2, <2>1 DEF HalvesOK
<1>13. procs'[Root].begin = 0 /\ procs'[Root].end = N
  BY <1>3, <1>6 DEF DataOK
<1> QED
  BY <1>2, <1>4, <1>5, <1>9, <1>10, <1>11, <1>12, <1>13 DEF DataOK

LEMMA SortsData ==
    ASSUME SortInv, DataOK, NEW p \in DOMAIN procs, Sorts(p)
    PROVE  DataOK'
<1> DEFINE b == procs[p].begin
           e == procs[p].end
<1>1. b \in Int /\ e \in Int /\ b .. e - 1 \subseteq 0 .. N - 1
  BY InArray
<1>2. DOMAIN arr = 0 .. N - 1 /\ \A i \in 0 .. N - 1 : arr[i] \in Int
  BY DEF DataOK
<1>3. \A i \in b .. e - 1 : i \in DOMAIN arr /\ arr[i] \in Int
  BY <1>1, <1>2
<1>4. arr' \in [0 .. N - 1 -> Int]
  <2>1. arr' = Sorted(arr, b, e)
    BY DEF Sorts
  <2> HIDE DEF b, e
  <2>2. /\ DOMAIN arr' = DOMAIN arr /\ arr' = [k \in DOMAIN arr |-> arr'[k]]
        /\ \A k \in DOMAIN arr : k \notin b .. e - 1 => arr'[k] = arr[k]
        /\ Rearranged(arr', b .. e - 1, arr, b .. e - 1)
    BY <1>1, <1>3, <2>1, SortedIs
  <2>3. \A k \in b .. e - 1 : arr'[k] \in Int
    <3> DEFINE R == b .. e - 1
    <3>1. Rearranged(arr', R, arr, R) /\ \A k \in R : arr[k] \in Int
      BY <1>3, <2>2
    <3> HIDE DEF R
    <3>2. \A k \in R : arr'[k] \in Int
      BY <3>1, RearrangedInts
    <3> QED
      BY <3>2 DEF R
  <2>4. \A k \in 0 .. N - 1 : arr'[k] \in Int
    BY <1>2, <2>2, <2>3
  <2> QED
    BY <1>2, <2>2, <2>4
<1>5. ArrayOK(p)'
  <2>1. ArrayOK(p) /\ procs[p].pc = "sort"
    BY DEF DataOK, Sorts
  <2>2. /\ procs'[p].temp = procs[p].temp /\ procs'[p].copied = procs[p].copied
        /\ procs'[p].wstatus = procs[p].wstatus /\ ~ HasArray(p)' /\ ~ HasArray(p)
    BY DEF Sorts, Keeps, HasArray
  <2> QED
    BY <2>1, <2>2 DEF ArrayOK
<1>6. /\ Changed(p) /\ args' = args /\ faults' = faults
      /\ procs'[p].pc \in {"sort", "unmap"}
  BY DEF Sorts
<1> QED
  BY <1>4, <1>5, <1>6, DataKept DEF DataOK, Split

LEMMA GoesData ==
    ASSUME SortInv, DataOK, NEW p \in DOMAIN procs, Goes(p)
    PROVE  DataOK'
<1>1. ArrayOK(p)'
  <2>1. ArrayOK(p)
    BY DEF DataOK
  <2>2. /\ procs'[p].temp = procs[p].temp /\ procs'[p].copied = procs[p].copied
        /\ ~ HasArray(p)' /\ ~ HasArray(p)
    BY DEF Goes, Keeps, HasArray
  <2>3. procs'[p].wstatus \in Outcomes
    BY <2>1 DEF Goes, ArrayOK, SortInv, TreeOK, ProcessOK
  <2> QED
    BY <2>1, <2>2, <2>3 DEF ArrayOK
<1>2. /\ Changed(p) /\ args' = args /\ faults' = faults /\ arr' = arr
      /\ procs'[p].pc \in Split => procs[p].pc \in Split
      /\ procs'[p].pc \in {"merge", "copy"} => procs[p].pc \in {"check", "merge", "copy"}
  BY DEF Goes, Split
<1> QED
  BY <1>1, <1>2, DataKept DEF DataOK

LEMMA FailsData ==
    ASSUME SortInv, DataOK, NEW p \in DOMAIN procs, Fails(p)
    PROVE  DataOK'
<1>1. ArrayOK(p)' /\ procs'[p].pc = procs[p].pc
  <2>1. ArrayOK(p) /\ procs[p].outcome = "none"
    BY DEF DataOK, Fails, Changed
  <2>2. /\ procs'[p].temp = procs[p].temp /\ procs'[p].copied = procs[p].copied
        /\ procs'[p].wstatus = procs[p].wstatus /\ procs'[p].pc = procs[p].pc
    BY DEF Fails, Keeps
  <2>3. HasArray(p)' <=> HasArray(p)
    BY <2>1, <2>2 DEF Fails, HasArray
  <2>4. Size(p)' = Size(p)
    BY DEF Size, Fails, Changed
  <2> QED
    BY <2>1, <2>2, <2>3, <2>4 DEF ArrayOK
<1>2. Changed(p) /\ args' = args /\ arr' = arr
  BY DEF Fails
<1>3. faults' \in 0 .. MaxFaults
  BY LimitsAssumption DEF Fails, DataOK
<1> QED
  BY <1>1, <1>2, <1>3, DataKept DEF DataOK

LEMMA SucceedData ==
    ASSUME SortInv, DataOK, NEW p \in DOMAIN procs, Succeed(p)
    PROVE  DataOK'
<1>1. ArrayOK(p)' /\ procs'[p].pc = procs[p].pc
  <2>1. ArrayOK(p)
    BY DEF DataOK
  <2>2. /\ procs'[p].temp = procs[p].temp /\ procs'[p].copied = procs[p].copied
        /\ procs'[p].wstatus = procs[p].wstatus /\ procs'[p].pc = procs[p].pc
        /\ procs[p].pc = "unmap"
    BY DEF Succeed, Keeps
  <2> QED
    BY <2>1, <2>2 DEF ArrayOK, HasArray
<1>2. Changed(p) /\ args' = args /\ arr' = arr /\ faults' = faults
  BY DEF Succeed
<1> QED
  BY <1>1, <1>2, DataKept DEF DataOK

\* The merge that a process makes of its halves.
LEMMA MergedHere ==
    ASSUME SortInv, DataOK, NEW p \in DOMAIN procs
    PROVE  LET b == procs[p].begin
               e == procs[p].end
               t == Merged(arr, b, Mid(p), e)
           IN  /\ t \in Seq(Int) /\ Len(t) = Size(p)
               /\ Rearranged(t, 1 .. Size(p), arr, b .. e - 1)
               /\ Ordered(arr, b .. Mid(p) - 1) /\ Ordered(arr, Mid(p) .. e - 1)
                    => Ordered(t, 1 .. Size(p))
<1> DEFINE b == procs[p].begin
           e == procs[p].end
           m == Mid(p)
           t == Merged(arr, b, m, e)
<1>1. /\ b \in Int /\ e \in Int /\ m \in Int /\ b <= m /\ m <= e
      /\ b .. e - 1 \subseteq 0 .. N - 1
  BY InArray
<1>2. \A i \in b .. e - 1 : arr[i] \in Int
  BY <1>1 DEF DataOK
<1>3. Size(p) = e - b
  BY DEF Size
<1> HIDE DEF b, e, m
<1>4. MergeOf(t, arr, b .. e - 1) /\ Len(t) = e - b
  BY <1>1, <1>2, MergedIs
<1>5. Ordered(arr, b .. m - 1) /\ Ordered(arr, m .. e - 1) => Ordered(t, 1 .. e - b)
  BY <1>1, <1>2, MergedIs
<1> HIDE DEF t
<1>6. /\ t \in Seq(Int) /\ Len(t) = Size(p)
      /\ Rearranged(t, 1 .. Size(p), arr, b .. e - 1)
      /\ Ordered(arr, b .. m - 1) /\ Ordered(arr, m .. e - 1) => Ordered(t, 1 .. Size(p))
  BY <1>3, <1>4, <1>5 DEF MergeOf
<1> QED
  BY <1>6 DEF t, b, e, m

LEMMA MergesData ==
    ASSUME SortInv, DataOK, NEW p \in DOMAIN procs, Merges(p)
    PROVE  DataOK'
<1>1. ArrayOK(p)'
  <2>1. ArrayOK(p) /\ HalvesOK(p)
    BY DEF DataOK
  <2>2. /\ procs'[p].copied = procs[p].copied /\ procs'[p].wstatus = procs[p].wstatus
        /\ procs'[p].outcome = procs[p].outcome /\ procs[p].outcome = "none"
        /\ procs[p].pc = "merge" /\ procs'[p].pc = "copy"
        /\ procs'[p].temp = Merged(arr, procs[p].begin, Mid(p), procs[p].end)
    BY DEF Merges, Keeps, Changed
  <2>3. procs'[p].temp \in Seq(Int) /\ Len(procs'[p].temp) = Size(p)
    BY <2>2, MergedHere
  <2>4. Size(p) \in Nat /\ Size(p) > threshold /\ threshold \in Nat
    BY <2>1, <2>2, InArray DEF HalvesOK, SortInv, TreeOK
  <2>5. Size(p)' = Size(p)
    BY DEF Size, Merges, Changed
  <2>6. procs'[p].copied = 0
    BY <2>1, <2>2 DEF ArrayOK, HasArray
  <2> QED
    BY <2>1, <2>2, <2>3, <2>4, <2>5, <2>6 DEF ArrayOK, HasArray
<1>2. /\ Changed(p) /\ args' = args /\ faults' = faults /\ arr' = arr
      /\ procs[p].pc = "merge"
  BY DEF Merges
<1> QED
  BY <1>1, <1>2, DataKept DEF DataOK, Split

LEMMA CopiesData ==
    ASSUME SortInv, DataOK, NEW p \in DOMAIN procs, Copies(p)
    PROVE  DataOK'
<1>1. /\ ArrayOK(p) /\ procs[p].outcome = "none" /\ procs[p].pc = "copy"
      /\ Size(p) \in Nat
  BY InArray DEF DataOK, Copies, Changed
<1>2. /\ procs[p].temp \in Seq(Int) /\ Len(procs[p].temp) = Size(p)
      /\ procs[p].copied \in 0 .. Size(p) - 1
  BY <1>1 DEF ArrayOK, HasArray
<1>3. Size(p)' = Size(p)
  BY DEF Size, Copies, Changed
<1>4. arr' \in [0 .. N - 1 -> Int]
  <2>1. procs[p].temp[procs[p].copied + 1] \in Int
    BY <1>1, <1>2, ElementOfSeq
  <2> QED
    BY <2>1 DEF Copies, DataOK
<1>5. ArrayOK(p)'
  <2>1. procs'[p].wstatus = procs[p].wstatus
    BY DEF Copies, Keeps
  <2>2. CASE procs[p].copied + 1 < Size(p)
    <3>1. /\ procs'[p].pc = "copy" /\ procs'[p].outcome = "none"
          /\ procs'[p].temp = procs[p].temp
          /\ procs'[p].copied = procs[p].copied + 1
      BY <2>2 DEF Copies
    <3>2. procs'[p].copied \in 0 .. Size(p) - 1
      BY <1>1, <1>2, <2>2, <3>1
    <3> QED
      BY <1>1, <1>2, <1>3, <2>1, <3>1, <3>2 DEF ArrayOK, HasArray
  <2>3. CASE ~ (procs[p].copied + 1 < Size(p))
    <3>1. /\ procs'[p].copied = 0 /\ procs'[p].temp = <<>>
          /\ procs'[p].pc = "unmap" \/ procs'[p].outcome = "ok"
      BY <2>3 DEF Copies
    <3> QED
      BY <1>1, <2>1, <3>1, EmptySeq DEF ArrayOK, HasArray
  <2> QED
    BY <2>2, <2>3
<1>6. Changed(p) /\ args' = args /\ faults' = faults
  BY DEF Copies
<1>7. procs[p].pc \in Split /\ procs[p].pc \in {"check", "merge", "copy"}
  BY <1>1 DEF Split
<1> QED
  BY <1>4, <1>5, <1>6, <1>7, DataKept DEF DataOK

LEMMA NextData == SortInv /\ DataOK /\ [Next]_vars => DataOK'
<1> SUFFICES ASSUME SortInv, DataOK, [Next]_vars PROVE DataOK'
  OBVIOUS
<1>1. CASE Next
  BY <1>1, Effects, SortsData, GoesData, FailsData, SucceedData, MergesData,
     CopiesData, ForksData DEF Does
<1>2. CASE UNCHANGED vars
  BY <1>2 DEF vars, DataOK, args, N, ArrayOK, HasArray, HalvesOK, Size, Mid
<1> QED
  BY <1>1, <1>2

-----------------------------------------------------------------------------
(* Who writes, and what stays as it was.                                   *)

LEMMA WritersApart == SortInv => WritersDisjoint
<1> SUFFICES ASSUME SortInv, NEW p \in DOMAIN procs, NEW q \in DOMAIN procs,
                    p # q, Writing(p), Writing(q), ~ LeftFailureMissed
             PROVE  Apart(p, q)
  BY DEF WritersDisjoint, Apart
<1>1. ASSUME NEW r \in DOMAIN procs, NEW s \in DOMAIN procs,
             Writing(r), Writing(s)
      PROVE  ~ Under(s, r)
  <2> SUFFICES ASSUME Under(s, r) PROVE FALSE
    OBVIOUS
  <2>1. ~ Ended(s)
    BY <1>1 DEF Writing
  <2>2. CASE WentOn(r)
    BY <2>1, <2>2 DEF SortInv, BelowEnded, Ended
  <2>3. CASE procs[r].pc = "sort"
    BY <2>3, Childless
  <2> QED
    BY <1>1, <2>2, <2>3 DEF Writing, WentOn
<1> QED
  BY <1>1 DEF SortInv, RangesApart

RangeOf(p) == procs[p].begin .. procs[p].end - 1

\* Processes that have begun to write back, or are done.
Begun(p) == procs[p].pc \in {"copy", "unmap"} \/ procs[p].outcome = "ok"
Done(p) == procs[p].outcome = "ok" \/ procs[p].pc = "unmap"

\* Every step leaves what has ended as it is, goes on where it has gone on,
\* and changes the array only where the process that takes it may write.
LEMMA StepKeeps ==
    ASSUME SortInv, DataOK, NEW p \in DOMAIN procs, Does(p)
    PROVE  /\ \A q \in DOMAIN procs :
                /\ q \in DOMAIN procs'
                /\ q # p => procs'[q] = procs[q]
                /\ Ended(q) => procs'[q] = procs[q]
                /\ WentOn(q) => WentOn(q)'
                /\ Begun(q) => Begun(q)'
                /\ procs'[q].begin = procs[q].begin /\ procs'[q].end = procs[q].end
           /\ \A q \in DOMAIN procs' : q \notin DOMAIN procs =>
                procs'[q].pc = "sort" /\ procs'[q].outcome = "none"
           /\ procs[p].outcome = "none"
           /\ args' = args
<1>1. CASE Forks(p)
  <2>1. PICK x \in {"L", "R"}, pc \in {"forkright", "waitleft"} :
          LET c == Append(p, x)
              b == IF x = "L" THEN procs[p].begin ELSE Mid(p)
              e == IF x = "L" THEN Mid(p) ELSE procs[p].end
          IN  /\ DOMAIN procs' = DOMAIN procs \cup {c}
              /\ procs'[c] = Process("sort", b, e)
              /\ \A q \in DOMAIN procs : q # p => procs'[q] = procs[q]
              /\ Keeps(p, Fields \ {"pc"})
              /\ procs[p].outcome = "none"
              /\ procs[p].pc \in {"sort", "forkright"}
              /\ UNCHANGED <<arr, args, faults>>
    BY <1>1 DEF Forks
  <2>2. /\ procs'[p].begin = procs[p].begin /\ procs'[p].end = procs[p].end
        /\ ~ WentOn(p) /\ ~ Begun(p) /\ procs[p].outcome = "none" /\ args' = args
    BY <2>1 DEF Keeps, Fields, WentOn, Begun
  <2> DEFINE c == Append(p, x)
             b == IF x = "L" THEN procs[p].begin ELSE Mid(p)
             e == IF x = "L" THEN Mid(p) ELSE procs[p].end
  <2>3. \A q \in DOMAIN procs' : q \notin DOMAIN procs =>
           procs'[q].pc = "sort" /\ procs'[q].outcome = "none"
    <3>1. DOMAIN procs' = DOMAIN procs \cup {c} /\ procs'[c] = Process("sort", b, e)
      BY <2>1
    <3>2. procs'[c].pc = "sort" /\ procs'[c].outcome = "none"
      BY <3>1 DEF Process
    <3> HIDE DEF c
    <3> QED
      BY <3>1, <3>2
  <2> QED
    BY <2>1, <2>2, <2>3 DEF Ended, WentOn, Begun
<1>2. CASE ~ Forks(p)
  <2>1. /\ Changed(p) /\ args' = args
        /\ procs[p].pc \in {"merge", "copy", "unmap"} =>
             procs'[p].pc \in {"merge", "copy", "unmap"}
        /\ procs[p].pc \in {"copy", "unmap"} => procs'[p].pc \in {"copy", "unmap"}
    BY <1>2 DEF Does, Sorts, Goes, Fails, Succeed, Merges, Copies, Keeps
  <2> QED
    BY <2>1 DEF Changed, Ended, WentOn, Begun
<1> QED
  BY <1>1, <1>2

LEMMA StepWrites ==
    ASSUME SortInv, DataOK, NEW p \in DOMAIN procs, Does(p)
    PROVE  /\ arr' = arr \/ Sorts(p) \/ Copies(p)
           /\ \A i \in 0 .. N - 1 : i \notin RangeOf(p) => arr'[i] = arr[i]
<1>1. arr' = arr \/ Sorts(p) \/ Copies(p)
  BY DEF Does, Goes, Fails, Succeed, Merges, Forks
<1>2. DOMAIN arr = 0 .. N - 1 /\ \A i \in 0 .. N - 1 : arr[i] \in Int
  BY DEF DataOK
<1>3. /\ procs[p].begin \in Int /\ procs[p].end \in Int /\ RangeOf(p) \subseteq 0 .. N - 1
  BY InArray DEF RangeOf
<1>4. CASE Sorts(p)
  <2> DEFINE b == procs[p].begin
             e == procs[p].end
  <2>1. arr' = Sorted(arr, b, e)
    BY <1>4 DEF Sorts
  <2>2. \A i \in b .. e - 1 : i \in DOMAIN arr /\ arr[i] \in Int
    BY <1>2, <1>3 DEF RangeOf
  <2>3. \A k \in DOMAIN arr : k \notin b .. e - 1 => arr'[k] = arr[k]
    <3> HIDE DEF b, e
    <3>1. b \in Int /\ e \in Int
      BY <1>3 DEF b, e
    <3> QED
      BY <2>1, <2>2, <3>1, SortedIs
  <2> QED
    BY <1>2, <1>4, <2>3 DEF RangeOf
<1>5. CASE Copies(p)
  <2>1. ArrayOK(p) /\ HasArray(p) /\ Size(p) \in Nat
    BY <1>5, InArray DEF DataOK, Copies, Changed, HasArray
  <2>2. procs[p].begin + procs[p].copied \in RangeOf(p)
    BY <1>3, <2>1 DEF ArrayOK, RangeOf, Size
  <2> QED
    BY <1>2, <1>3, <1>5, <2>2 DEF Copies
<1> QED
  BY <1>1, <1>4, <1>5

LEMMA StillMissed ==
    ASSUME SortInv, DataOK, NEW p \in DOMAIN procs, Does(p), ~ LeftFailureMissed'
    PROVE  ~ LeftFailureMissed
<1> SUFFICES ASSUME LeftFailureMissed PROVE FALSE
  OBVIOUS
<1>1. PICK r \in DOMAIN procs :
        /\ LeftOf(r) \in DOMAIN procs
        /\ procs[LeftOf(r)].outcome \in {"error", "signal"}
        /\ WentOn(r)
  BY DEF LeftFailureMissed, WentOn
<1>2. Ended(LeftOf(r))
  BY <1>1 DEF Ended
<1>3. /\ r \in DOMAIN procs' /\ LeftOf(r) \in DOMAIN procs' /\ WentOn(r)'
      /\ procs'[LeftOf(r)] = procs[LeftOf(r)]
  BY <1>1, <1>2, StepKeeps
<1> QED
  BY <1>1, <1>3 DEF LeftFailureMissed, WentOn

\* A writer does not touch what another one is about to write.
LEMMA OtherWriters ==
    ASSUME SortInv, DataOK, ~ LeftFailureMissed, NEW p \in DOMAIN procs, Does(p),
           NEW q \in DOMAIN procs, q # p, Writing(q), NEW i \in RangeOf(q)
    PROVE  arr'[i] = arr[i]
<1>1. CASE arr' = arr
  BY <1>1
<1>2. CASE Sorts(p) \/ Copies(p)
  <2>1. Writing(p)
    BY <1>2 DEF Writing, Sorts, Copies, Changed, Ended
  <2>2. procs[p].end <= procs[q].begin \/ procs[q].end <= procs[p].begin
    BY <2>1, WritersApart DEF WritersDisjoint
  <2>3. i \notin RangeOf(p) /\ i \in 0 .. N - 1
    BY <2>2, InArray DEF RangeOf
  <2> QED
    BY <2>3, StepWrites
<1>3. arr' = arr \/ Sorts(p) \/ Copies(p)
  BY StepWrites
<1> QED
  BY <1>1, <1>2, <1>3

-----------------------------------------------------------------------------
(* What has been copied back is in the array.                              *)

CopiedOK ==
    ~ LeftFailureMissed =>
        \A p \in DOMAIN procs : At(p, "copy") =>
            \A k \in 0 .. procs[p].copied - 1 :
                arr[procs[p].begin + k] = procs[p].temp[k + 1]

\* After the last element the range holds the merge.
LEMMA CopiedAll ==
    ASSUME SortInv, DataOK, CopiedOK, ~ LeftFailureMissed,
           NEW p \in DOMAIN procs, Copies(p)
    PROVE  /\ \A k \in 0 .. procs[p].copied :
                arr'[procs[p].begin + k] = procs[p].temp[k + 1]
           /\ ~ (procs[p].copied + 1 < Size(p)) =>
                \A i \in RangeOf(p) : arr'[i] = procs[p].temp[i - procs[p].begin + 1]
<1> DEFINE b == procs[p].begin
           c == procs[p].copied
           t == procs[p].temp
<1>1. /\ ArrayOK(p) /\ HasArray(p) /\ Size(p) \in Nat /\ At(p, "copy")
      /\ b \in Int /\ procs[p].end \in Int /\ RangeOf(p) \subseteq 0 .. N - 1
  BY InArray DEF DataOK, Copies, Changed, HasArray, At, RangeOf
<1>2. c \in 0 .. Size(p) - 1
  BY <1>1 DEF ArrayOK
<1>3. arr' = [arr EXCEPT ![b + c] = t[c + 1]] /\ DOMAIN arr = 0 .. N - 1
  BY DEF Copies, DataOK
<1>4. \A k \in 0 .. c - 1 : arr[b + k] = t[k + 1]
  BY <1>1 DEF CopiedOK
<1>5. \A k \in 0 .. c : b + k \in RangeOf(p)
  BY <1>1, <1>2 DEF RangeOf, Size
<1>6. \A k \in 0 .. c : arr'[b + k] = t[k + 1]
  <2> SUFFICES ASSUME NEW k \in 0 .. c PROVE arr'[b + k] = t[k + 1]
    OBVIOUS
  <2>1. b + k \in 0 .. N - 1
    BY <1>1, <1>5
  <2>2. CASE k = c
    BY <1>3, <2>1, <2>2
  <2>3. CASE k # c
    <3>1. b + k # b + c /\ k \in 0 .. c - 1
      BY <1>1, <1>2, <2>3
    <3> QED
      BY <1>3, <1>4, <2>1, <3>1
  <2> QED
    BY <2>2, <2>3
<1>7. ASSUME ~ (c + 1 < Size(p)), NEW i \in RangeOf(p)
      PROVE  arr'[i] = t[i - b + 1]
  <2>1. i - b \in 0 .. c /\ b + (i - b) = i
    BY <1>1, <1>2, <1>7 DEF RangeOf, Size
  <2> QED
    BY <1>6, <2>1
<1> QED
  BY <1>6, <1>7

LEMMA CopiedStep ==
    ASSUME SortInv, DataOK, CopiedOK, NEW p \in DOMAIN procs, Does(p)
    PROVE  CopiedOK'
<1> SUFFICES ASSUME ~ LeftFailureMissed', NEW q \in DOMAIN procs', At(q, "copy")',
                    NEW k \in 0 .. procs'[q].copied - 1
             PROVE  arr'[procs'[q].begin + k] = procs'[q].temp[k + 1]
  BY DEF CopiedOK
<1>1. ~ LeftFailureMissed
  BY StillMissed
<1>2. q \in DOMAIN procs
  BY StepKeeps DEF At
<1>3. CASE q # p
  <2>1. procs'[q] = procs[q] /\ At(q, "copy")
    BY <1>2, <1>3, StepKeeps DEF At
  <2>2. arr[procs[q].begin + k] = procs[q].temp[k + 1]
    BY <1>1, <1>2, <2>1 DEF CopiedOK
  <2>3. procs[q].begin + k \in RangeOf(q)
    <3>1. ArrayOK(q) /\ HasArray(q) /\ Size(q) \in Nat /\ procs[q].begin \in Int
          /\ procs[q].end \in Int
      BY <1>2, <2>1, InArray DEF DataOK, HasArray, At
    <3>2. procs[q].copied \in 0 .. Size(q) - 1 /\ k \in 0 .. procs[q].copied - 1
      BY <2>1, <3>1 DEF ArrayOK
    <3> QED
      BY <3>1, <3>2 DEF RangeOf, Size
  <2>4. Writing(q)
    BY <2>1 DEF Writing, At, Ended
  <2> QED
    BY <1>1, <1>2, <1>3, <2>1, <2>2, <2>3, <2>4, OtherWriters
<1>4. CASE q = p
  <2>1. Merges(p) \/ Copies(p)
    BY <1>4 DEF Does, Sorts, Goes, Fails, Succeed, Forks, At, Keeps, Changed
  <2>2. CASE Merges(p)
    <3>1. procs'[p].copied = 0
      BY <2>2 DEF Merges, Keeps, DataOK, ArrayOK, HasArray
    <3> QED
      BY <1>4, <3>1
  <2>3. CASE Copies(p)
    <3>1. procs[p].copied + 1 < Size(p)
      BY <1>4, <2>3 DEF Copies, At
    <3>2. /\ procs'[p].temp = procs[p].temp /\ procs'[p].copied = procs[p].copied + 1
          /\ procs'[p].begin = procs[p].begin
      BY <2>3, <3>1 DEF Copies, Changed
    <3>3. ArrayOK(p) /\ HasArray(p) /\ Size(p) \in Nat
      BY <2>3, InArray DEF DataOK, Copies, Changed, HasArray
    <3>4. k \in 0 .. procs[p].copied
      BY <1>4, <3>2, <3>3 DEF ArrayOK
    <3> QED
      BY <1>1, <1>4, <2>3, <3>2, <3>4, CopiedAll
  <2> QED
    BY <2>1, <2>2, <2>3
<1> QED
  BY <1>3, <1>4

-----------------------------------------------------------------------------
(* What has been sorted stays in order until a process above writes it.    *)

Sealed(p) == Done(p) /\ \A q \in DOMAIN procs : Under(p, q) => ~ Begun(q)

SortedOK ==
    ~ LeftFailureMissed =>
        \A p \in DOMAIN procs :
            /\ At(p, "copy") => Ordered(procs[p].temp, 1 .. Size(p))
            /\ Sealed(p) => Ordered(arr, RangeOf(p))

LEMMA ChildrenSealed ==
    ASSUME SortInv, DataOK, ~ LeftFailureMissed, NEW p \in DOMAIN procs, At(p, "merge")
    PROVE  /\ LeftOf(p) \in DOMAIN procs /\ Sealed(LeftOf(p))
           /\ RightOf(p) \in DOMAIN procs /\ Sealed(RightOf(p))
<1>0. p \in Paths /\ DOMAIN procs \subseteq Paths
  BY DEF SortInv, TreeOK
<1>1. LeftOf(p) \in DOMAIN procs /\ RightOf(p) \in DOMAIN procs
  BY DEF DataOK, HalvesOK, At
<1>2. ASSUME NEW x \in {"L", "R"}, Append(p, x) \in DOMAIN procs
      PROVE  Sealed(Append(p, x))
  <2>1. \A s \in Paths : Under(Append(p, x), s) <=> (s = p \/ Under(p, s))
    BY <1>0, AboveChild
  <2>2. procs[Append(p, x)].outcome = "ok"
    BY <1>0, <1>2, <2>1 DEF SortInv, BelowEnded, WentOn, At
  <2>3. ~ Begun(p)
    BY DEF Begun, At
  <2>4. ASSUME NEW q \in DOMAIN procs, Under(p, q)
        PROVE  ~ Begun(q)
    BY <2>4 DEF SortInv, BelowEnded, WentOn, Begun, At
  <2> QED
    BY <1>0, <2>1, <2>2, <2>3, <2>4 DEF Sealed, Done
<1> QED
  BY <1>1, <1>2 DEF LeftOf, RightOf

\* What a process merges is in order.
LEMMA HalvesSorted ==
    ASSUME SortInv, DataOK, SortedOK, ~ LeftFailureMissed,
           NEW p \in DOMAIN procs, At(p, "merge")
    PROVE  /\ Ordered(arr, procs[p].begin .. Mid(p) - 1)
           /\ Ordered(arr, Mid(p) .. procs[p].end - 1)
<1>1. /\ LeftOf(p) \in DOMAIN procs /\ Sealed(LeftOf(p))
      /\ RightOf(p) \in DOMAIN procs /\ Sealed(RightOf(p))
  BY ChildrenSealed
<1>2. Ordered(arr, RangeOf(LeftOf(p))) /\ Ordered(arr, RangeOf(RightOf(p)))
  BY <1>1 DEF SortedOK
<1>3. /\ procs[LeftOf(p)].begin = procs[p].begin /\ procs[LeftOf(p)].end = Mid(p)
      /\ procs[RightOf(p)].begin = Mid(p) /\ procs[RightOf(p)].end = procs[p].end
  BY <1>1 DEF DataOK, HalvesOK, SortInv, ChildrenOK, Mid
<1> QED
  BY <1>2, <1>3 DEF RangeOf

\* Nobody writes into a range that is sealed and remains so.
LEMMA SealedKept ==
    ASSUME SortInv, DataOK, ~ LeftFailureMissed, NEW p \in DOMAIN procs, Does(p),
           NEW q \in DOMAIN procs, Done(q), Sealed(q)'
    PROVE  Sealed(q) /\ \A i \in RangeOf(q) : arr'[i] = arr[i]
<1>1. Sealed(q)
  <2>1. \A r \in DOMAIN procs : r \in DOMAIN procs' /\ (Begun(r) => Begun(r)')
    BY StepKeeps
  <2>2. \A r \in DOMAIN procs' : Under(q, r) => ~ Begun(r)'
    BY DEF Sealed
  <2> QED
    BY <2>1, <2>2 DEF Sealed
<1>2. CASE arr' = arr
  BY <1>1, <1>2
<1>3. CASE Sorts(p) \/ Copies(p)
  <2>1. procs[p].outcome = "none" /\ procs[p].pc \in {"sort", "copy"}
    BY <1>3 DEF Sorts, Copies, Changed
  <2>2. p # q
    BY <2>1 DEF Done
  <2>3. ~ Under(q, p)
    <3>1. CASE Sorts(p)
      BY <3>1, Childless DEF Sorts
    <3>2. CASE Copies(p)
      BY <1>1, <3>2 DEF Copies, Sealed, Begun
    <3> QED
      BY <1>3, <3>1, <3>2
  <2>4. ~ Under(p, q)
    BY <2>1 DEF SortInv, BelowEnded, WentOn, Done
  <2>5. procs[p].end <= procs[q].begin \/ procs[q].end <= procs[p].begin
    BY <2>2, <2>3, <2>4 DEF SortInv, RangesApart, Apart
  <2>6. \A i \in RangeOf(q) : i \notin RangeOf(p) /\ i \in 0 .. N - 1
    BY <2>5, InArray DEF RangeOf
  <2> QED
    BY <1>1, <2>6, StepWrites
<1> QED
  BY <1>2, <1>3, StepWrites

\* How a process gets done: it has sorted, or copied the last element.
LEMMA BecomesDone ==
    ASSUME NEW p \in DOMAIN procs, Does(p), ~ Done(p), Done(p)'
    PROVE  Sorts(p) \/ (Copies(p) /\ ~ (procs[p].copied + 1 < Size(p)))
<1>1. CASE Copies(p)
  BY <1>1 DEF Copies, Done
<1>2. CASE Forks(p)
  BY <1>2 DEF Forks, Keeps, Fields, Done
<1>3. CASE Fails(p) \/ Succeed(p) \/ Goes(p) \/ Merges(p)
  BY <1>3 DEF Fails, Succeed, Goes, Merges, Keeps, Done
<1> QED
  BY <1>1, <1>2, <1>3 DEF Does

LEMMA SortedStep ==
    ASSUME SortInv, DataOK, CopiedOK, SortedOK, NEW p \in DOMAIN procs, Does(p)
    PROVE  SortedOK'
<1> SUFFICES ASSUME ~ LeftFailureMissed', NEW q \in DOMAIN procs'
             PROVE  /\ At(q, "copy")' => Ordered(procs'[q].temp, 1 .. Size(q)')
                    /\ Sealed(q)' => Ordered(arr', RangeOf(q)')
  BY DEF SortedOK
<1>1. ~ LeftFailureMissed
  BY StillMissed
<1>2. CASE q \notin DOMAIN procs
  BY <1>2, StepKeeps DEF At, Sealed, Done
<1>3. CASE q \in DOMAIN procs
  <2>1. Size(q)' = Size(q) /\ RangeOf(q)' = RangeOf(q)
    BY <1>3, StepKeeps DEF Size, RangeOf
  <2>2. ASSUME At(q, "copy")' PROVE Ordered(procs'[q].temp, 1 .. Size(q)')
    <3>1. CASE q # p
      BY <1>1, <1>3, <2>1, <2>2, <3>1, StepKeeps DEF SortedOK, At
    <3>2. CASE q = p
      <4>1. Merges(p) \/ Copies(p)
        BY <2>2, <3>2 DEF Does, Sorts, Goes, Fails, Succeed, Forks, At, Keeps, Changed
      <4>2. CASE Merges(p)
        <5>1. At(p, "merge")
          BY <4>2 DEF Merges, Changed, At
        <5>2. procs'[p].temp = Merged(arr, procs[p].begin, Mid(p), procs[p].end)
          BY <4>2 DEF Merges
        <5> QED
          BY <1>1, <2>1, <3>2, <5>1, <5>2, HalvesSorted, MergedHere
      <4>3. CASE Copies(p)
        <5>1. At(p, "copy") /\ procs'[p].temp = procs[p].temp
          BY <2>2, <3>2, <4>3 DEF Copies, Changed, At
        <5> QED
          BY <1>1, <2>1, <3>2, <5>1 DEF SortedOK
      <4> QED
        BY <4>1, <4>2, <4>3
    <3> QED
      BY <3>1, <3>2
  <2>3. ASSUME Sealed(q)' PROVE Ordered(arr', RangeOf(q))
    <3>1. CASE Done(q)
      <4>1. Ordered(arr, RangeOf(q)) /\ \A i \in RangeOf(q) : arr'[i] = arr[i]
        BY <1>1, <1>3, <2>3, <3>1, SealedKept DEF SortedOK
      <4> QED
        BY <4>1 DEF Ordered
    <3>2. CASE ~ Done(q)
      <4>1. q = p
        BY <1>3, <2>3, <3>2, StepKeeps DEF Sealed, Done
      <4>2. CASE Sorts(p)
        <5> DEFINE b == procs[p].begin
                   e == procs[p].end
        <5>1. /\ b \in Int /\ e \in Int
              /\ \A i \in b .. e - 1 : i \in DOMAIN arr /\ arr[i] \in Int
          BY InArray DEF DataOK
        <5>2. arr' = Sorted(arr, b, e) /\ RangeOf(q) = b .. e - 1
          BY <4>1, <4>2 DEF Sorts, RangeOf
        <5> HIDE DEF b, e
        <5>3. Ordered(Sorted(arr, b, e), b .. e - 1)
          BY <5>1, SortedIs
        <5> QED
          BY <5>2, <5>3
      <4>3. CASE Copies(p) /\ ~ (procs[p].copied + 1 < Size(p))
        <5>1. \A i \in RangeOf(p) : arr'[i] = procs[p].temp[i - procs[p].begin + 1]
          BY <1>1, <4>3, CopiedAll
        <5>2. Ordered(procs[p].temp, 1 .. Size(p))
          BY <1>1, <4>3 DEF SortedOK, Copies, Changed, At
        <5>3. \A i \in RangeOf(p) : i \in Int /\ i - procs[p].begin + 1 \in 1 .. Size(p)
          BY InArray DEF RangeOf, Size
        <5>4. ASSUME NEW i \in RangeOf(p), NEW j \in RangeOf(p), i <= j
              PROVE  arr'[i] <= arr'[j]
          <6>1. i - procs[p].begin + 1 <= j - procs[p].begin + 1
            BY <5>3, <5>4, InArray
          <6> QED
            BY <5>1, <5>2, <5>3, <6>1 DEF Ordered
        <5> QED
          BY <4>1, <5>4 DEF Ordered
      <4> QED
        BY <2>3, <3>2, <4>1, <4>2, <4>3, BecomesDone DEF Sealed
    <3> QED
      BY <3>1, <3>2
  <2> QED
    BY <2>1, <2>2, <2>3
<1> QED
  BY <1>2, <1>3

LEMMA RearrangedTwice ==
    ASSUME NEW S, NEW T, NEW U, NEW a, NEW b, NEW c,
           Rearranged(c, S, b, T), Rearranged(b, T, a, U)
    PROVE  Rearranged(c, S, a, U)
<1>1. PICK f \in Bijection(S, T) : \A k \in S : c[k] = b[f[k]]
  BY DEF Rearranged
<1>2. PICK g \in Bijection(T, U) : \A k \in T : b[k] = a[g[k]]
  BY DEF Rearranged
<1>3. /\ f \in [S -> T] /\ \A x, y \in S : f[x] = f[y] => x = y
      /\ \A z \in T : \E x \in S : f[x] = z
  BY Bijective
<1>4. /\ g \in [T -> U] /\ \A x, y \in T : g[x] = g[y] => x = y
      /\ \A z \in U : \E x \in T : g[x] = z
  BY Bijective
<1> DEFINE h == [k \in S |-> g[f[k]]]
<1>5. h \in [S -> U]
  BY <1>3, <1>4
<1>6. \A x, y \in S : h[x] = h[y] => x = y
  BY <1>3, <1>4
<1>7. \A z \in U : \E x \in S : h[x] = z
  BY <1>3, <1>4
<1>8. \A k \in S : c[k] = a[h[k]]
  BY <1>1, <1>2, <1>3
<1> HIDE DEF h
<1>9. h \in Bijection(S, U)
  BY <1>5, <1>6, <1>7, Bijective
<1> QED
  BY <1>8, <1>9 DEF Rearranged

\* A change of places within a part of what there is.
LEMMA RearrangedWithin ==
    ASSUME NEW S, NEW R, R \subseteq S, NEW a, NEW b,
           Rearranged(b, R, a, R), \A k \in S : k \notin R => b[k] = a[k]
    PROVE  Rearranged(b, S, a, S)
<1>1. PICK f \in Bijection(R, R) : \A k \in R : b[k] = a[f[k]]
  BY DEF Rearranged
<1>2. /\ f \in [R -> R] /\ \A x, y \in R : f[x] = f[y] => x = y
      /\ \A z \in R : \E x \in R : f[x] = z
  BY Bijective
<1> DEFINE h == [k \in S |-> IF k \in R THEN f[k] ELSE k]
<1>3. h \in [S -> S]
  BY <1>2
<1>4. \A x, y \in S : h[x] = h[y] => x = y
  BY <1>2
<1>5. \A z \in S : \E x \in S : h[x] = z
  <2> SUFFICES ASSUME NEW z \in S PROVE \E x \in S : h[x] = z
    OBVIOUS
  <2>1. CASE z \in R
    <3>1. PICK x \in R : f[x] = z
      BY <1>2, <2>1
    <3> QED
      BY <3>1
  <2>2. CASE z \notin R
    BY <2>2
  <2> QED
    BY <2>1, <2>2
<1>6. \A k \in S : b[k] = a[h[k]]
  BY <1>1
<1> HIDE DEF h
<1>7. h \in Bijection(S, S)
  BY <1>3, <1>4, <1>5, Bijective
<1> QED
  BY <1>6, <1>7 DEF Rearranged

\* The same from 1 on as from b on.
LEMMA RearrangedShifted ==
    ASSUME NEW b \in Int, NEW e \in Int, NEW n, n = e - b, NEW T, NEW t, NEW a, NEW c,
           Rearranged(t, 1 .. n, a, T), \A i \in b .. e - 1 : c[i] = t[i - b + 1]
    PROVE  Rearranged(c, b .. e - 1, a, T)
<1>1. PICK f \in Bijection(1 .. n, T) : \A k \in 1 .. n : t[k] = a[f[k]]
  BY DEF Rearranged
<1>2. /\ f \in [1 .. n -> T] /\ \A x, y \in 1 .. n : f[x] = f[y] => x = y
      /\ \A z \in T : \E x \in 1 .. n : f[x] = z
  BY Bijective
<1> DEFINE h == [i \in b .. e - 1 |-> f[i - b + 1]]
<1>3. /\ \A i \in b .. e - 1 : i - b + 1 \in 1 .. n
      /\ \A k \in 1 .. n : k + b - 1 \in b .. e - 1 /\ (k + b - 1) - b + 1 = k
      /\ \A i, j \in b .. e - 1 : i - b + 1 = j - b + 1 => i = j
  OBVIOUS
<1>4. h \in [b .. e - 1 -> T]
  BY <1>2, <1>3
<1>5. \A x, y \in b .. e - 1 : h[x] = h[y] => x = y
  BY <1>2, <1>3
<1>6. \A z \in T : \E x \in b .. e - 1 : h[x] = z
  <2> SUFFICES ASSUME NEW z \in T PROVE \E x \in b .. e - 1 : h[x] = z
    OBVIOUS
  <2>1. PICK k \in 1 .. n : f[k] = z
    BY <1>2
  <2>2. k + b - 1 \in b .. e - 1 /\ (k + b - 1) - b + 1 = k
    BY <1>3
  <2>3. h[k + b - 1] = z
    BY <2>1, <2>2
  <2> QED
    BY <2>2, <2>3
<1>7. \A i \in b .. e - 1 : c[i] = a[h[i]]
  BY <1>1, <1>3
<1> HIDE DEF h
<1>8. h \in Bijection(b .. e - 1, T)
  BY <1>4, <1>5, <1>6, Bijective
<1> QED
  BY <1>7, <1>8 DEF Rearranged

LEMMA RearrangedAsIs ==
    ASSUME NEW S, NEW a, NEW b, \A k \in S : b[k] = a[k]
    PROVE  Rearranged(b, S, a, S)
<1> DEFINE h == [k \in S |-> k]
<1>1. h \in [S -> S] /\ \A k \in S : h[k] = k
  OBVIOUS
<1> HIDE DEF h
<1>2. h \in Bijection(S, S)
  BY <1>1, Bijective
<1>3. \A k \in S : b[k] = a[h[k]]
  BY <1>1
<1> QED
  BY <1>2, <1>3 DEF Rearranged

\* Elements that have changed places are as many of each kind.
LEMMA RearrangedSame ==
    ASSUME NEW D, IsFiniteSet(D), NEW a, NEW b, DOMAIN a = D, DOMAIN b = D,
           Rearranged(b, D, a, D)
    PROVE  SameElements(b, a)
<1>1. PICK f \in Bijection(D, D) : \A k \in D : b[k] = a[f[k]]
  BY DEF Rearranged
<1>2. /\ f \in [D -> D] /\ \A x, y \in D : f[x] = f[y] => x = y
      /\ \A z \in D : \E x \in D : f[x] = z
  BY Bijective
<1>3. ASSUME NEW v
      PROVE  Count(b, v) = Count(a, v)
  <2> DEFINE B == {i \in D : b[i] = v}
             A == {i \in D : a[i] = v}
             g == [i \in B |-> f[i]]
  <2>0. \A x \in B : x \in D /\ f[x] \in A /\ g[x] = f[x]
    BY <1>1, <1>2
  <2>1. g \in [B -> A] /\ \A x, y \in B : g[x] = g[y] => x = y
    <3> HIDE DEF A, B
    <3> QED
      BY <1>2, <2>0
  <2>2. ASSUME NEW z \in A PROVE \E x \in B : g[x] = z
    <3>1. PICK x \in D : f[x] = z
      BY <1>2
    <3>2. x \in B
      BY <1>1, <3>1
    <3> QED
      BY <2>0, <3>1, <3>2
  <2>3. IsFiniteSet(B) /\ IsFiniteSet(A)
    <3>1. B \subseteq D /\ A \subseteq D
      OBVIOUS
    <3> HIDE DEF A, B
    <3> QED
      BY <3>1, FS_Subset
  <2>4. Count(b, v) = Cardinality(B) /\ Count(a, v) = Cardinality(A)
    BY DEF Count
  <2> HIDE DEF g, A, B
  <2>5. g \in Bijection(B, A)
    BY <2>1, <2>2, Bijective
  <2> QED
    BY <2>3, <2>4, <2>5, FS_Bijection DEF ExistsBijection
<1> QED
  BY <1>3 DEF SameElements

-----------------------------------------------------------------------------
(* What the file holds, with what is on its way back into it.              *)

ContentsOK ==
    /\ DOMAIN Contents = 0 .. N - 1
    /\ \A i \in 0 .. N - 1 : Copying(i) = {} => Contents[i] = arr[i]
    /\ \A i \in 0 .. N - 1 : \A p \in Copying(i) :
         /\ Copying(i) = {p}
         /\ Contents[i] = procs[p].temp[i - procs[p].begin + 1]

\* At most one process copies to a position.
LEMMA ContentsAre == SortInv /\ DataOK /\ ~ LeftFailureMissed => ContentsOK
<1> SUFFICES ASSUME SortInv, DataOK, ~ LeftFailureMissed PROVE ContentsOK
  OBVIOUS
<1>1. DOMAIN arr = 0 .. N - 1 /\ DOMAIN Contents = 0 .. N - 1
  BY DEF DataOK, Contents
<1>2. \A i \in 0 .. N - 1 : Copying(i) = {} => Contents[i] = arr[i]
  BY <1>1 DEF Contents
<1>3. ASSUME NEW i \in 0 .. N - 1, NEW p \in Copying(i)
      PROVE  /\ Copying(i) = {p}
             /\ Contents[i] = procs[p].temp[i - procs[p].begin + 1]
  <2>1. ASSUME NEW q \in Copying(i), q # p PROVE FALSE
    <3>1. /\ p \in DOMAIN procs /\ q \in DOMAIN procs /\ Writing(p) /\ Writing(q)
          /\ i \in procs[p].begin .. procs[p].end - 1
          /\ i \in procs[q].begin .. procs[q].end - 1
      BY <1>3, <2>1 DEF Copying, Writing, At, Ended
    <3>2. procs[p].end <= procs[q].begin \/ procs[q].end <= procs[p].begin
      BY <2>1, <3>1, WritersApart DEF WritersDisjoint
    <3> QED
      BY <3>1, <3>2, InArray
  <2>2. Copying(i) = {p}
    BY <1>3, <2>1
  <2>3. (CHOOSE q \in Copying(i) : TRUE) = p
    BY <2>2
  <2> QED
    BY <1>1, <2>2, <2>3 DEF Contents
<1> QED
  BY <1>1, <1>2, <1>3 DEF ContentsOK

LEMMA ContentsAreNext ==
    (SortInv /\ DataOK /\ ~ LeftFailureMissed => ContentsOK)'
BY ContentsAre, PTL

\* The contents of a position change only where the process that takes the
\* step copies, before the step or after it.
LEMMA ContentsElsewhere ==
    ASSUME SortInv, DataOK, ContentsOK, ContentsOK', NEW p \in DOMAIN procs, Does(p),
           NEW i \in 0 .. N - 1, arr'[i] = arr[i],
           i \in RangeOf(p) => ~ At(p, "copy") /\ ~ At(p, "copy")'
    PROVE  Contents'[i] = Contents[i]
<1>1. N' = N
  BY StepKeeps DEF args, N
<1>2. \A q \in DOMAIN procs : q \in DOMAIN procs' /\ (q # p => procs'[q] = procs[q])
                              /\ RangeOf(q)' = RangeOf(q)
  BY StepKeeps DEF RangeOf
<1>3. \A q \in DOMAIN procs' : q \notin DOMAIN procs => ~ At(q, "copy")'
  BY StepKeeps DEF At
<1>4. /\ \A q : q \in Copying(i) <=> q \in DOMAIN procs /\ At(q, "copy") /\ i \in RangeOf(q)
      /\ \A q : q \in Copying(i)' <=>
                 q \in DOMAIN procs' /\ At(q, "copy")' /\ i \in RangeOf(q)'
  BY DEF Copying, RangeOf
<1>5. p \notin Copying(i) /\ p \notin Copying(i)'
  BY <1>2, <1>4
<1>6. ASSUME NEW q, q # p PROVE q \in Copying(i)' <=> q \in Copying(i)
  BY <1>2, <1>3, <1>4, <1>6 DEF At
<1>7. Copying(i)' = Copying(i)
  BY <1>5, <1>6
<1>8. CASE Copying(i) = {}
  BY <1>1, <1>7, <1>8 DEF ContentsOK
<1>9. CASE Copying(i) # {}
  <2>1. PICK q \in Copying(i) : TRUE
    BY <1>9
  <2>2. q # p /\ q \in DOMAIN procs /\ procs'[q] = procs[q] /\ q \in Copying(i)'
    BY <1>2, <1>4, <1>5, <1>7
  <2>3. Contents[i] = procs[q].temp[i - procs[q].begin + 1]
    BY <2>1 DEF ContentsOK
  <2>4. Contents'[i] = procs'[q].temp[i - procs'[q].begin + 1]
    BY <1>1, <2>2 DEF ContentsOK
  <2> QED
    BY <2>2, <2>3, <2>4
<1> QED
  BY <1>8, <1>9

\* Nobody copies where another process is about to write.
LEMMA CopyingWhereWriting ==
    ASSUME SortInv, DataOK, ~ LeftFailureMissed, NEW p \in DOMAIN procs, Writing(p),
           NEW i \in RangeOf(p)
    PROVE  Copying(i) \subseteq {p}
<1> SUFFICES ASSUME NEW q \in Copying(i), q # p PROVE FALSE
  OBVIOUS
<1>1. /\ q \in DOMAIN procs /\ Writing(q) /\ i \in RangeOf(q)
  BY DEF Copying, Writing, At, Ended, RangeOf
<1>2. procs[p].end <= procs[q].begin \/ procs[q].end <= procs[p].begin
  BY <1>1, WritersApart DEF WritersDisjoint
<1> QED
  BY <1>1, <1>2, InArray DEF RangeOf

LEMMA SortsContents ==
    ASSUME SortInv, DataOK, ~ LeftFailureMissed, ContentsOK, ContentsOK',
           NEW p \in DOMAIN procs, Sorts(p)
    PROVE  Rearranged(Contents', 0 .. N - 1, Contents, 0 .. N - 1)
<1>1. Does(p) /\ ~ At(p, "copy") /\ ~ At(p, "copy")' /\ Writing(p)
  BY DEF Does, Sorts, At, Changed, Writing, Ended
<1>2. N' = N /\ RangeOf(p)' = RangeOf(p)
  BY <1>1, StepKeeps DEF args, N, RangeOf
<1> DEFINE R == RangeOf(p)
<1>3. R \subseteq 0 .. N - 1
  BY InArray DEF RangeOf
<1>4. \A i \in 0 .. N - 1 : i \notin R => Contents'[i] = Contents[i]
  BY <1>1, StepWrites, ContentsElsewhere
<1>5. \A i \in R : Contents[i] = arr[i] /\ Contents'[i] = arr'[i]
  <2> SUFFICES ASSUME NEW i \in R PROVE Contents[i] = arr[i] /\ Contents'[i] = arr'[i]
    OBVIOUS
  <2>1. Copying(i) = {}
    <3>1. p \notin Copying(i)
      BY <1>1 DEF Copying
    <3> QED
      BY <1>1, <3>1, CopyingWhereWriting
  <2>2. Copying(i)' = {}
    <3> SUFFICES ASSUME NEW q \in Copying(i)' PROVE FALSE
      OBVIOUS
    <3>1. q \in DOMAIN procs' /\ At(q, "copy")' /\ i \in RangeOf(q)'
      BY DEF Copying, RangeOf
    <3>2. q # p /\ q \in DOMAIN procs /\ procs'[q] = procs[q]
      BY <1>1, <3>1, StepKeeps DEF At
    <3>3. q \in Copying(i)
      BY <3>1, <3>2 DEF Copying, At, RangeOf
    <3> QED
      BY <2>1, <3>3
  <2> QED
    BY <1>2, <1>3, <2>1, <2>2 DEF ContentsOK
<1>6. Rearranged(arr', R, arr, R)
  <2> DEFINE b == procs[p].begin
             e == procs[p].end
  <2>1. /\ b \in Int /\ e \in Int
        /\ \A i \in b .. e - 1 : i \in DOMAIN arr /\ arr[i] \in Int
    BY InArray DEF DataOK
  <2>2. arr' = Sorted(arr, b, e) /\ R = b .. e - 1
    BY DEF Sorts, RangeOf
  <2> HIDE DEF b, e, R
  <2>3. Rearranged(Sorted(arr, b, e), b .. e - 1, arr, b .. e - 1)
    BY <2>1, SortedIs
  <2> QED
    BY <2>2, <2>3
<1>7. Rearranged(Contents', R, Contents, R)
  <2> HIDE DEF R
  <2>1. Rearranged(Contents', R, arr', R) /\ Rearranged(arr, R, Contents, R)
    BY <1>5, RearrangedAsIs
  <2> QED
    BY <1>6, <2>1, RearrangedTwice
<1> HIDE DEF R
<1> QED
  BY <1>3, <1>4, <1>7, RearrangedWithin

LEMMA MergesContents ==
    ASSUME SortInv, DataOK, ~ LeftFailureMissed, ContentsOK, ContentsOK',
           NEW p \in DOMAIN procs, Merges(p)
    PROVE  Rearranged(Contents', 0 .. N - 1, Contents, 0 .. N - 1)
<1>1. /\ Does(p) /\ ~ At(p, "copy") /\ At(p, "copy")' /\ Writing(p) /\ arr' = arr
      /\ p \in DOMAIN procs'
  BY DEF Does, Merges, At, Changed, Writing, Ended, Keeps
<1>2. /\ N' = N /\ RangeOf(p)' = RangeOf(p) /\ procs'[p].begin = procs[p].begin
      /\ procs'[p].end = procs[p].end
  BY <1>1, StepKeeps DEF args, N, RangeOf
<1> DEFINE R == RangeOf(p)
           b == procs[p].begin
           e == procs[p].end
           t == Merged(arr, b, Mid(p), e)
<1>3. R \subseteq 0 .. N - 1 /\ R = b .. e - 1 /\ b \in Int /\ e \in Int /\ Size(p) = e - b
  BY InArray DEF RangeOf, Size
<1>4. \A i \in 0 .. N - 1 : i \notin R => Contents'[i] = Contents[i]
  BY <1>1, ContentsElsewhere
<1>5. \A i \in R : Contents[i] = arr[i] /\ Contents'[i] = t[i - b + 1]
  <2> SUFFICES ASSUME NEW i \in R PROVE Contents[i] = arr[i] /\ Contents'[i] = t[i - b + 1]
    OBVIOUS
  <2>1. Copying(i) = {}
    <3>1. p \notin Copying(i)
      BY <1>1 DEF Copying
    <3> QED
      BY <1>1, <3>1, CopyingWhereWriting
  <2>2. p \in Copying(i)'
    BY <1>1, <1>2, <1>3 DEF Copying
  <2>3. procs'[p].temp = t
    BY DEF Merges
  <2>4. Contents'[i] = procs'[p].temp[i - procs'[p].begin + 1]
    BY <1>2, <1>3, <2>2 DEF ContentsOK
  <2> HIDE DEF t
  <2> QED
    BY <1>2, <1>3, <2>1, <2>3, <2>4 DEF ContentsOK
<1>6. Rearranged(t, 1 .. Size(p), arr, R)
  BY <1>3, MergedHere
<1>7. Rearranged(Contents', R, Contents, R)
  <2> HIDE DEF R, b, e, t
  <2>1. Rearranged(Contents', b .. e - 1, arr, R)
    BY <1>3, <1>5, <1>6, RearrangedShifted
  <2>2. Rearranged(arr, R, Contents, R)
    BY <1>5, RearrangedAsIs
  <2> QED
    BY <1>3, <2>1, <2>2, RearrangedTwice
<1> HIDE DEF R
<1> QED
  BY <1>3, <1>4, <1>7, RearrangedWithin

LEMMA CopiesContents ==
    ASSUME SortInv, DataOK, CopiedOK, ~ LeftFailureMissed, ContentsOK, ContentsOK',
           NEW p \in DOMAIN procs, Copies(p)
    PROVE  Rearranged(Contents', 0 .. N - 1, Contents, 0 .. N - 1)
<1>1. Does(p) /\ At(p, "copy") /\ p \in DOMAIN procs' /\ Writing(p)
  BY DEF Does, Copies, At, Changed, Writing, Ended
<1>2. /\ N' = N /\ RangeOf(p)' = RangeOf(p) /\ procs'[p].begin = procs[p].begin
      /\ procs'[p].end = procs[p].end
  BY <1>1, StepKeeps DEF args, N, RangeOf
<1>3. RangeOf(p) \subseteq 0 .. N - 1
  BY InArray DEF RangeOf
<1>4. ASSUME NEW i \in 0 .. N - 1
      PROVE  Contents'[i] = Contents[i]
  <2>1. CASE i \notin RangeOf(p)
    BY <1>1, <2>1, StepWrites, ContentsElsewhere
  <2>2. CASE i \in RangeOf(p)
    <3>1. p \in Copying(i) /\ Copying(i) = {p}
      <4>1. p \in Copying(i)
        BY <1>1, <2>2 DEF Copying, RangeOf
      <4> QED
        BY <1>1, <2>2, <4>1, CopyingWhereWriting
    <3>2. Contents[i] = procs[p].temp[i - procs[p].begin + 1]
      BY <3>1 DEF ContentsOK
    <3>3. CASE procs[p].copied + 1 < Size(p)
      <4>1. At(p, "copy")' /\ procs'[p].temp = procs[p].temp
        BY <3>3 DEF Copies, At
      <4>2. p \in Copying(i)'
        BY <1>1, <1>2, <2>2, <4>1 DEF Copying, RangeOf
      <4> QED
        BY <1>2, <3>2, <4>1, <4>2 DEF ContentsOK
    <3>4. CASE ~ (procs[p].copied + 1 < Size(p))
      <4>1. ~ At(p, "copy")'
        BY <3>4 DEF Copies, At
      <4>2. Copying(i)' = {}
        <5> SUFFICES ASSUME NEW q \in Copying(i)' PROVE FALSE
          OBVIOUS
        <5>1. q \in DOMAIN procs' /\ At(q, "copy")' /\ i \in RangeOf(q)'
          BY DEF Copying, RangeOf
        <5>2. q # p /\ q \in DOMAIN procs /\ procs'[q] = procs[q]
          BY <1>1, <4>1, <5>1, StepKeeps DEF At
        <5>3. q \in Copying(i)
          BY <5>1, <5>2 DEF Copying, At, RangeOf
        <5> QED
          BY <3>1, <5>2, <5>3
      <4>3. Contents'[i] = arr'[i]
        BY <1>2, <4>2 DEF ContentsOK
      <4> QED
        BY <2>2, <3>2, <3>4, <4>3, CopiedAll
    <3> QED
      BY <3>3, <3>4
  <2> QED
    BY <2>1, <2>2
<1> QED
  BY <1>4, RearrangedAsIs

LEMMA OthersContents ==
    ASSUME SortInv, DataOK, ContentsOK, ContentsOK', NEW p \in DOMAIN procs,
           Goes(p) \/ Succeed(p) \/ Forks(p) \/ (Fails(p) /\ procs[p].pc # "copy")
    PROVE  Rearranged(Contents', 0 .. N - 1, Contents, 0 .. N - 1)
<1>1. Does(p) /\ arr' = arr
  BY DEF Does, Goes, Succeed, Forks, Fails
<1>2. ~ At(p, "copy") /\ ~ At(p, "copy")'
  <2>1. CASE Forks(p)
    BY <2>1 DEF Forks, At
  <2>2. CASE Goes(p) \/ Succeed(p) \/ (Fails(p) /\ procs[p].pc # "copy")
    BY <2>2 DEF Goes, Succeed, Fails, Keeps, At
  <2> QED
    BY <2>1, <2>2
<1>3. \A i \in 0 .. N - 1 : Contents'[i] = Contents[i]
  BY <1>1, <1>2, ContentsElsewhere
<1> QED
  BY <1>3, RearrangedAsIs

Signalled == \E p \in DOMAIN procs : procs[p].outcome = "signal"

KeptOK ==
    ~ LeftFailureMissed /\ ~ Signalled =>
        Rearranged(Contents, 0 .. N - 1, input, 0 .. N - 1)

LEMMA KeptStep ==
    ASSUME SortInv, DataOK, CopiedOK, KeptOK, SortInv', DataOK',
           NEW p \in DOMAIN procs, Does(p)
    PROVE  KeptOK'
<1> SUFFICES ASSUME ~ LeftFailureMissed', ~ Signalled'
             PROVE  Rearranged(Contents', 0 .. N' - 1, input', 0 .. N' - 1)
  BY DEF KeptOK
<1>1. ~ LeftFailureMissed
  BY StillMissed
<1>2. ~ Signalled
  <2> SUFFICES ASSUME NEW q \in DOMAIN procs, procs[q].outcome = "signal" PROVE FALSE
    BY DEF Signalled
  <2>1. q \in DOMAIN procs' /\ procs'[q] = procs[q]
    BY StepKeeps DEF Ended
  <2> QED
    BY <2>1 DEF Signalled
<1>3. ContentsOK /\ ContentsOK'
  BY <1>1, ContentsAre, ContentsAreNext
<1>4. N' = N /\ input' = input
  BY StepKeeps DEF args, N
<1>5. Rearranged(Contents', 0 .. N - 1, Contents, 0 .. N - 1)
  <2>1. Fails(p) => procs[p].pc # "copy"
    <3>1. Fails(p) => p \in DOMAIN procs'
      BY DEF Fails, Changed
    <3> QED
      BY <3>1 DEF Fails, Signalled
  <2> QED
    BY <1>1, <1>3, <2>1, SortsContents, MergesContents, CopiesContents,
       OthersContents DEF Does
<1>6. Rearranged(Contents, 0 .. N - 1, input, 0 .. N - 1)
  BY <1>1, <1>2 DEF KeptOK
<1> QED
  BY <1>4, <1>5, <1>6, RearrangedTwice

-----------------------------------------------------------------------------
FileInv == SortInv /\ DataOK /\ CopiedOK /\ SortedOK /\ KeptOK

LEMMA InitFileInv == Init => FileInv
<1> SUFFICES ASSUME Init PROVE FileInv
  OBVIOUS
<1>1. SortInv /\ DataOK
  BY InitSortInv, InitDataOK
<1>2. /\ DOMAIN procs = {Root} /\ procs[Root].pc = "main" /\ procs[Root].outcome = "none"
      /\ arr = input
  BY DEF Init, Process
<1>3. ~ LeftFailureMissed
  BY <1>2 DEF LeftFailureMissed
<1>4. CopiedOK /\ SortedOK
  BY <1>2 DEF CopiedOK, SortedOK, At, Sealed, Done
<1>5. KeptOK
  <2>1. \A i \in 0 .. N - 1 : Copying(i) = {}
    BY <1>2 DEF Copying, At
  <2>2. \A i \in 0 .. N - 1 : Contents[i] = input[i]
    BY <1>1, <1>2, <1>3, <2>1, ContentsAre DEF ContentsOK
  <2> QED
    BY <2>2, RearrangedAsIs DEF KeptOK
<1> QED
  BY <1>1, <1>4, <1>5 DEF FileInv

LEMMA NextFileInv == FileInv /\ [Next]_vars => FileInv'
<1> SUFFICES ASSUME FileInv, [Next]_vars PROVE FileInv'
  OBVIOUS
<1>1. SortInv /\ DataOK /\ CopiedOK /\ SortedOK /\ KeptOK
  BY DEF FileInv
<1>2. SortInv' /\ DataOK'
  BY <1>1, NextKeeps, NextData
<1>3. CASE Next
  <2>1. PICK p \in DOMAIN procs : Does(p)
    BY <1>1, <1>3, Effects
  <2> QED
    BY <1>1, <1>2, <2>1, CopiedStep, SortedStep, KeptStep DEF FileInv
<1>4. CASE UNCHANGED vars
  <2>1. arr' = arr /\ procs' = procs /\ input' = input
    BY <1>4 DEF vars, args
  <2>2. CopiedOK' /\ SortedOK'
    BY <1>1, <2>1 DEF CopiedOK, SortedOK, LeftFailureMissed, At, Sealed, Done, Begun,
                      RangeOf, Size
  <2>3. KeptOK'
    <3> SUFFICES ASSUME ~ LeftFailureMissed', ~ Signalled'
                 PROVE  Rearranged(Contents', 0 .. N' - 1, input', 0 .. N' - 1)
      BY DEF KeptOK
    <3>1. ~ LeftFailureMissed /\ ~ Signalled /\ N' = N
      BY <2>1 DEF LeftFailureMissed, Signalled, N
    <3>2. ContentsOK /\ ContentsOK'
      BY <1>1, <1>2, <3>1, ContentsAre, ContentsAreNext
    <3>3. \A i \in 0 .. N - 1 : Copying(i)' = Copying(i)
      BY <2>1 DEF Copying, At
    <3>4. ASSUME NEW i \in 0 .. N - 1 PROVE Contents'[i] = Contents[i]
      <4>1. CASE Copying(i) = {}
        BY <2>1, <3>1, <3>2, <3>3, <4>1 DEF ContentsOK
      <4>2. CASE Copying(i) # {}
        <5>1. PICK q \in Copying(i) : TRUE
          BY <4>2
        <5> QED
          BY <2>1, <3>1, <3>2, <3>3, <5>1 DEF ContentsOK
      <4> QED
        BY <4>1, <4>2
    <3>5. /\ Rearranged(Contents', 0 .. N - 1, Contents, 0 .. N - 1)
          /\ Rearranged(Contents, 0 .. N - 1, input, 0 .. N - 1)
      BY <1>1, <3>1, <3>4, RearrangedAsIs DEF KeptOK
    <3> QED
      BY <2>1, <3>1, <3>5, RearrangedTwice
  <2> QED
    BY <1>2, <2>2, <2>3 DEF FileInv
<1> QED
  BY <1>3, <1>4

LEMMA TypesOK == FileInv => ParTypeOK
<1> SUFFICES ASSUME FileInv PROVE ParTypeOK
  OBVIOUS
<1>1. SortInv /\ DataOK
  BY DEF FileInv
<1>2. args \in Jobs /\ arr \in [DOMAIN input -> Int] /\ faults \in 0 .. MaxFaults
  BY <1>1 DEF DataOK
<1>3. ASSUME NEW p \in DOMAIN procs
      PROVE  /\ procs[p].pc \in Places
             /\ {procs[p].outcome, procs[p].wstatus} \subseteq Outcomes
             /\ procs[p].temp \in Seq(Int)
             /\ 0 <= procs[p].begin /\ procs[p].begin <= procs[p].end
             /\ procs[p].end <= N
             /\ procs[p].copied \in 0 .. Size(p)
  <2>1. ProcessOK(procs[p]) /\ ArrayOK(p)
    BY <1>1 DEF DataOK, SortInv, TreeOK
  <2>2. Size(p) \in Nat
    BY <1>1, InArray
  <2>3. procs[p].copied \in 0 .. Size(p)
    BY <2>1, <2>2 DEF ArrayOK
  <2> QED
    BY <1>1, <2>1, <2>3, InArray DEF ArrayOK, ProcessOK
<1>4. ASSUME NEW p \in DOMAIN procs, p # Root
      PROVE  /\ Parent(p) \in DOMAIN procs
             /\ procs[p].begin >= procs[Parent(p)].begin
             /\ procs[p].end <= procs[Parent(p)].end
  <2>1. p \in Paths /\ Len(p) \in Nat /\ Len(p) # 0
    BY <1>1, <1>4, EmptySeq DEF SortInv, TreeOK, Paths, Root
  <2>2. /\ Parent(p) \in Paths /\ Len(Parent(p)) = Len(p) - 1
        /\ \A i \in 1 .. Len(p) - 1 : Parent(p)[i] = p[i]
    <3> DEFINE n == Len(p) - 1
    <3>1. 1 \in Int /\ n \in Nat /\ \A i \in 1 .. n : p[i] \in {"L", "R"}
      BY <2>1, ElementOfSeq DEF Paths
    <3>2. Parent(p) = SubSeq(p, 1, n)
      BY DEF Parent
    <3> HIDE DEF n
    <3>3. /\ SubSeq(p, 1, n) \in Seq({"L", "R"})
          /\ Len(SubSeq(p, 1, n)) = n
          /\ \A i \in 1 .. n : SubSeq(p, 1, n)[i] = p[i]
      BY <3>1, SubSeqProperties
    <3> QED
      BY <3>2, <3>3 DEF n, Paths
  <2>3. Under(p, Parent(p))
    BY <2>1, <2>2 DEF Under
  <2>4. Parent(p) \in DOMAIN procs
    BY <1>1, <2>2, <2>3 DEF SortInv, TreeOK
  <2>5. /\ procs[p].begin \in Int /\ procs[p].end \in Int
        /\ procs[Parent(p)].begin \in Int /\ procs[Parent(p)].end \in Int
    BY <1>1, <2>4, InArray
  <2> QED
    BY <1>1, <2>3, <2>4, <2>5 DEF SortInv, RangesNested
<1> QED
  BY <1>2, <1>3, <1>4 DEF ParTypeOK

LEMMA NothingLostHere == FileInv => NothingLost
<1> SUFFICES ASSUME FileInv, ~ LeftFailureMissed, ~ Signalled
             PROVE  SameElements(Contents, input)
  BY DEF NothingLost, Signalled
<1>1. Rearranged(Contents, 0 .. N - 1, input, 0 .. N - 1)
  BY DEF FileInv, KeptOK
<1>2. DOMAIN Contents = 0 .. N - 1 /\ DOMAIN input = 0 .. N - 1
  BY DEF FileInv, DataOK, Contents
<1>3. IsFiniteSet(0 .. N - 1)
  BY FS_Interval DEF FileInv, DataOK
<1> DEFINE D == 0 .. N - 1
<1> HIDE DEF D
<1>4. /\ IsFiniteSet(D) /\ DOMAIN Contents = D /\ DOMAIN input = D
      /\ Rearranged(Contents, D, input, D)
  BY <1>1, <1>2, <1>3 DEF D
<1> QED
  BY <1>4, RearrangedSame

LEMMA SortedHere == FileInv => SortedOnSuccess
<1> SUFFICES ASSUME FileInv, procs[Root].outcome = "ok", ~ LeftFailureMissed
             PROVE  IsSorted(arr) /\ SameElements(arr, input)
  BY DEF SortedOnSuccess
<1>1. SortInv /\ DataOK /\ SortedOK /\ KeptOK
  BY DEF FileInv
<1>2. Root \in DOMAIN procs /\ DOMAIN procs \subseteq Paths /\ Root \in Paths
  BY <1>1 DEF SortInv, TreeOK
<1>3. \A p \in DOMAIN procs : procs[p].outcome = "ok"
  BY <1>1, <1>2, UnderRoot DEF SortInv, BelowEnded, WentOn
<1>4. Sealed(Root)
  <2>1. \A q \in DOMAIN procs : ~ Under(Root, q)
    BY <1>2, PathLength, EmptySeq DEF Under, Root
  <2> QED
    BY <2>1 DEF Sealed, Done
<1>5. /\ RangeOf(Root) = 0 .. N - 1 /\ DOMAIN arr = 0 .. N - 1 /\ DOMAIN input = 0 .. N - 1
      /\ N \in Nat
  BY <1>1 DEF RangeOf, DataOK
<1>6. IsSorted(arr)
  <2>1. Ordered(arr, 0 .. N - 1)
    BY <1>1, <1>2, <1>4, <1>5 DEF SortedOK
  <2>2. \A i \in 0 .. N - 1 : arr[i] \in Int
    BY <1>1 DEF DataOK
  <2>3. ASSUME NEW i \in DOMAIN arr \ {0} PROVE arr[i] >= arr[i - 1]
    <3>1. i \in 0 .. N - 1 /\ i - 1 \in 0 .. N - 1 /\ i - 1 <= i
      BY <1>5, <2>3
    <3>2. arr[i - 1] <= arr[i] /\ arr[i] \in Int /\ arr[i - 1] \in Int
      BY <2>1, <2>2, <3>1 DEF Ordered
    <3> QED
      BY <3>2
  <2> QED
    BY <2>3 DEF IsSorted
<1>7. SameElements(arr, input)
  <2>1. ~ Signalled /\ \A i \in 0 .. N - 1 : Copying(i) = {}
    BY <1>3 DEF Signalled, Copying, At
  <2>2. \A i \in 0 .. N - 1 : arr[i] = Contents[i]
    BY <1>1, <2>1, ContentsAre DEF ContentsOK
  <2> DEFINE D == 0 .. N - 1
  <2>3. Rearranged(Contents, D, input, D) /\ \A i \in D : arr[i] = Contents[i]
    BY <1>1, <2>1, <2>2 DEF KeptOK
  <2>4. IsFiniteSet(D) /\ DOMAIN arr = D /\ DOMAIN input = D
    BY <1>5, FS_Interval
  <2> HIDE DEF D
  <2>5. Rearranged(arr, D, input, D)
    BY <2>3, RearrangedAsIs, RearrangedTwice
  <2> QED
    BY <2>4, <2>5, RearrangedSame
<1> QED
  BY <1>6, <1>7

-----------------------------------------------------------------------------
(* Theorems.                                                               *)

\* The tree of processes in every state: ranges of children lie within that
\* of their parent, those of processes that are not above one another are
\* apart, and below one that has gone on everybody has ended well, unless
\* the failure of a left child was missed (parsort.c, lines 79-127).
THEOREM SortInvariant == Spec => []SortInv
BY InitSortInv, NextKeeps, PTL DEF Spec

\* No two processes that are about to write share a position of the mapping.
THEOREM WritersAreDisjoint == Spec => []WritersDisjoint
BY SortInvariant, WritersApart, PTL

\* Once main has returned 0, nobody is left to change the file.
THEOREM ResultIsFinal == Spec => ResultFinal
<1>1. SortInv /\ [Next]_vars =>
        [(procs[Root].outcome = "ok" /\ ~ LeftFailureMissed) => UNCHANGED arr]_vars
  <2> SUFFICES ASSUME SortInv, Next, procs[Root].outcome = "ok", ~ LeftFailureMissed
               PROVE  UNCHANGED arr
    OBVIOUS
  <2>1. \A p \in DOMAIN procs : Ended(p)
    <3>1. \A p \in DOMAIN procs : p = Root \/ Under(p, Root)
      BY UnderRoot DEF SortInv, TreeOK
    <3>2. Root \in DOMAIN procs /\ WentOn(Root)
      BY DEF SortInv, TreeOK, WentOn
    <3> QED
      BY <3>1, <3>2 DEF SortInv, BelowEnded, Ended
  <2>2. ~ MapFile /\ ~ MapFails /\ ~ Unmap
    BY DEF MapFile, MapFails, Unmap, At
  <2>3. \A p \in DOMAIN procs : ~ Killed(p)
    BY <2>1 DEF Killed
  <2>4. ASSUME NEW p \in DOMAIN procs, Step(p)
        PROVE  FALSE
    <3>1. procs[p].outcome = "none"
      BY <2>4 DEF Step, SortSequentially, ForkLeft, ForkRight, ForkFails, WaitLeft,
                  WaitRight, Check, MallocFails, Merge, CopyBack, At
    <3> QED
      BY <2>1, <3>1 DEF Ended
  <2> QED
    BY <2>2, <2>3, <2>4 DEF Next
<1> QED
  BY <1>1, SortInvariant, PTL DEF Spec, ResultFinal

\* What is in the file and in the temporary arrays, in every state: what has
\* been sorted is in order until a process above it copies back, a temporary
\* array is in order and holds what its process has not copied back yet, and
\* both together are the input, rearranged (parsort.c, lines 14-57).
THEOREM FileInvariant == Spec => []FileInv
BY InitFileInv, NextFileInv, PTL DEF Spec

\* Every variable has its type, and the ranges of processes lie in the file
\* and in that of their parent.
THEOREM ParTypeCorrect == Spec => []ParTypeOK
BY FileInvariant, TypesOK, PTL

\* Exit status 0 means that the file is in order and holds what it held
\* before, whatever it held and wherever the threshold splits it, unless a
\* left child failed and its parent did not notice.
THEOREM FileSorted == Spec => []SortedOnSuccess
BY FileInvariant, SortedHere, PTL

\* No element is lost in any state, whichever calls fail, unless a process
\* is killed or the failure of a left child goes unnoticed.
THEOREM NothingIsLost == Spec => []NothingLost
BY FileInvariant, NothingLostHere, PTL

=============================================================================
