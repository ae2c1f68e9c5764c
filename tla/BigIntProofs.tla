---------------------------- MODULE BigIntProofs ----------------------------
(***************************************************************************)
(* Theorems about BigInt, for words and digits of any width, any radix and *)
(* any constructed values: carries, borrows, shifts, the rows of a product *)
(* and the binary search for a quotient compute what they should, and the  *)
(* digits and bits that are read off a value are its own.                  *)
(***************************************************************************)
EXTENDS BigInt, SequenceTheorems, FiniteSetTheorems, WellFoundedInduction, TLAPS

-----------------------------------------------------------------------------
(* Induction on numbers, and recursive functions.                          *)

LEMMA LeastIn ==
    ASSUME NEW n \in Nat, NEW S, S \subseteq 0 .. n, S # {}
    PROVE  \E k \in S : \A j \in S : k <= j
<1> DEFINE Below(k) == S \cap (0 .. k)
           Segments == {Below(k) : k \in S}
<1>1. IsFiniteSet(S)
  <2>1. IsFiniteSet(0 .. n)
    BY FS_Interval
  <2> QED
    BY <2>1, FS_Subset
<1>2. Segments \subseteq FiniteSubsetsOf(S) /\ Segments # {}
  <2>1. \A k \in S : Below(k) \subseteq S /\ IsFiniteSet(Below(k))
    BY <1>1, FS_Subset
  <2>2. \A k \in S : Below(k) \in FiniteSubsetsOf(S)
    BY <2>1 DEF FiniteSubsetsOf
  <2> QED
    BY <2>2
<1>3. \E z \in Segments :
         \A y \in Segments : <<y, z>> \notin StrictSubsetOrdering(S)
  BY <1>2, FS_StrictSubsetOrderingWellFounded, WFMin
<1>4. PICK k \in S :
         \A y \in Segments : <<y, Below(k)>> \notin StrictSubsetOrdering(S)
  BY <1>3
<1>5. ASSUME NEW j \in S, j < k
      PROVE  FALSE
  <2>1. k \in Int /\ j \in Int /\ k >= 0 /\ j >= 0
    OBVIOUS
  <2>2. Below(j) \subseteq Below(k) /\ k \in Below(k) /\ k \notin Below(j)
    BY <1>5, <2>1
  <2>3. <<Below(j), Below(k)>> \in StrictSubsetOrdering(S)
    BY <2>2 DEF StrictSubsetOrdering
  <2> QED
    BY <1>4, <2>3
<1> QED
  BY <1>5

\* A set that has 0, and the next number with every number, has them all.
LEMMA AllNumbers ==
    ASSUME NEW S, 0 \in S, \A k \in Nat : k \in S => k + 1 \in S
    PROVE  \A n \in Nat : n \in S
<1> SUFFICES ASSUME NEW n \in Nat, n \notin S PROVE FALSE
  OBVIOUS
<1> DEFINE Others == (0 .. n) \ S
<1>1. PICK k \in Others : \A j \in Others : k <= j
  <2>1. Others \subseteq 0 .. n /\ n \in Others
    OBVIOUS
  <2> HIDE DEF Others
  <2> QED
    BY <2>1, LeastIn
<1>2. k # 0 /\ k - 1 \in 0 .. n /\ k - 1 \notin Others
  BY <1>1
<1>3. k - 1 \in S /\ k - 1 \in Nat
  BY <1>2
<1> QED
  BY <1>1, <1>3

\* What a recursive function has to be at d: it stops there, or takes a step
\* from what it is at the next.
Unfolded(f, d, stop, next, out, step) ==
    IF d \in stop THEN out[d] ELSE step[<<d, f[next[d]]>>]

Shrinks(D, S, size, stop, next, out, step) ==
    /\ size \in [D -> Nat] /\ stop \in SUBSET D /\ next \in [D -> D]
    /\ \A d \in D \ stop : size[next[d]] < size[d]
    /\ out \in [D -> S] /\ step \in [D \X S -> S]

\* A recursive definition has a solution if something gets smaller.
LEMMA Recursion ==
    ASSUME NEW D, NEW S, NEW size, NEW stop, NEW next, NEW out, NEW step,
           Shrinks(D, S, size, stop, next, out, step)
    PROVE  \E f \in [D -> S] : \A d \in D : f[d] = Unfolded(f, d, stop, next, out, step)
<1> USE DEF Shrinks
<1> DEFINE Is(f, g, d) == f[d] = Unfolded(g, d, stop, next, out, step)
           Upto(k, f) == f \in [D -> S] /\ \A d \in D : size[d] <= k => Is(f, f, d)
           N == {k \in Nat : \E f : Upto(k, f)}
<1>1. 0 \in N
  <2>1. \A d \in D : size[d] <= 0 => d \in stop
    <3> SUFFICES ASSUME NEW d \in D, size[d] <= 0, d \notin stop PROVE FALSE
      OBVIOUS
    <3>1. size[d] \in Nat /\ size[next[d]] \in Nat /\ size[next[d]] < size[d]
      OBVIOUS
    <3> QED
      BY <3>1
  <2>2. Upto(0, out)
    BY <2>1 DEF Unfolded
  <2> QED
    BY <2>2
<1>2. ASSUME NEW k \in Nat, k \in N
      PROVE  k + 1 \in N
  <2>1. PICK f : Upto(k, f)
    BY <1>2
  <2> DEFINE h == [d \in D |-> Unfolded(f, d, stop, next, out, step)]
  <2>2. h \in [D -> S]
    <3>1. \A d \in D : Unfolded(f, d, stop, next, out, step) \in S
      BY <2>1 DEF Unfolded
    <3> QED
      BY <3>1
  <2>3. \A d \in D : size[d] <= k => h[d] = f[d]
    BY <2>1
  <2>4. ASSUME NEW d \in D, size[d] <= k + 1
        PROVE  Is(h, h, d)
    <3>1. CASE d \in stop
      BY <3>1 DEF Unfolded
    <3>2. CASE d \notin stop
      <4>1. size[next[d]] \in Nat /\ size[d] \in Nat /\ size[next[d]] < size[d] /\ next[d] \in D
        BY <3>2
      <4>2. h[next[d]] = f[next[d]]
        BY <2>3, <2>4, <4>1
      <4>3. h[d] = Unfolded(f, d, stop, next, out, step)
        OBVIOUS
      <4> HIDE DEF h
      <4> QED
        BY <3>2, <4>2, <4>3 DEF Unfolded
    <3> QED
      BY <3>1, <3>2
  <2>5. Upto(k + 1, h)
    <3> HIDE DEF h, Is
    <3> QED
      BY <2>2, <2>4
  <2> HIDE DEF Upto, h
  <2> QED
    BY <2>5
<1>3. \A k \in Nat : \E f : Upto(k, f)
  <2>1. \A k \in Nat : k \in N
    <3> HIDE DEF N
    <3> QED
      BY <1>1, <1>2, AllNumbers
  <2> HIDE DEF Upto
  <2> QED
    BY <2>1
\* Any two of them agree as far as both go.
<1>4. ASSUME NEW k \in Nat, NEW j \in Nat, NEW f, NEW g, Upto(k, f), Upto(j, g)
      PROVE  \A d \in D : size[d] <= k /\ size[d] <= j => f[d] = g[d]
  <2> DEFINE Same == {n \in Nat : \A d \in D : size[d] <= n /\ size[d] <= k /\ size[d] <= j
                                     => f[d] = g[d]}
  <2>0. ASSUME NEW d \in D, size[d] <= k, size[d] <= j,
               d \notin stop => f[next[d]] = g[next[d]]
        PROVE  f[d] = g[d]
    <3>1. Is(f, f, d) /\ Is(g, g, d)
      BY <1>4, <2>0
    <3> QED
      BY <2>0, <3>1 DEF Unfolded
  <2>1. 0 \in Same
    <3> SUFFICES ASSUME NEW d \in D, size[d] <= 0, size[d] <= k, size[d] <= j
                 PROVE  f[d] = g[d]
      OBVIOUS
    <3>1. size[d] \in Nat /\ size[next[d]] \in Nat
      OBVIOUS
    <3>2. d \in stop
      BY <3>1
    <3> HIDE DEF Is
    <3> QED
      BY <2>0, <3>2
  <2>2. ASSUME NEW n \in Nat, n \in Same
        PROVE  n + 1 \in Same
    <3> SUFFICES ASSUME NEW d \in D, size[d] <= n + 1, size[d] <= k, size[d] <= j
                 PROVE  f[d] = g[d]
      OBVIOUS
    <3>1. size[d] \in Nat /\ size[next[d]] \in Nat /\ next[d] \in D
      OBVIOUS
    <3>2. d \notin stop => f[next[d]] = g[next[d]]
      <4> SUFFICES ASSUME d \notin stop PROVE f[next[d]] = g[next[d]]
        OBVIOUS
      <4>1. size[next[d]] < size[d]
        OBVIOUS
      <4>2. size[next[d]] <= n /\ size[next[d]] <= k /\ size[next[d]] <= j
        BY <3>1, <4>1
      <4> QED
        BY <2>2, <3>1, <4>2
    <3> QED
      BY <2>0, <3>2
  <2>3. \A n \in Nat : n \in Same
    <3> HIDE DEF Same
    <3> QED
      BY <2>1, <2>2, AllNumbers
  <2> SUFFICES ASSUME NEW d \in D, size[d] <= k, size[d] <= j PROVE f[d] = g[d]
    OBVIOUS
  <2>4. size[d] \in Nat
    OBVIOUS
  <2>5. size[d] \in Same
    BY <2>3, <2>4
  <2> QED
    BY <2>4, <2>5
<1> DEFINE G(k) == CHOOSE f : Upto(k, f)
           F == [d \in D |-> G(size[d])[d]]
<1>5. \A k \in Nat : Upto(k, G(k))
  <2> HIDE DEF Upto
  <2> QED
    BY <1>3, Zenon
<1>6. F \in [D -> S]
  <2>1. \A d \in D : G(size[d])[d] \in S
    <3> SUFFICES ASSUME NEW d \in D PROVE G(size[d])[d] \in S
      OBVIOUS
    <3>1. Upto(size[d], G(size[d]))
      BY <1>5
    <3> HIDE DEF G
    <3> QED
      BY <3>1
  <2> HIDE DEF G
  <2> QED
    BY <2>1
<1>7. ASSUME NEW d \in D PROVE Is(F, F, d)
  <2> DEFINE k == size[d]
             j == size[next[d]]
  <2>1. k \in Nat /\ j \in Nat /\ next[d] \in D
    OBVIOUS
  <2>2. F[d] = G(k)[d] /\ F[next[d]] = G(j)[next[d]]
    BY <2>1
  <2>3. Upto(k, G(k)) /\ Upto(j, G(j))
    BY <1>5, <2>1
  <2> HIDE DEF F, G
  <2>4. Is(G(k), G(k), d)
    BY <2>1, <2>3
  <2>5. d \notin stop => G(k)[next[d]] = G(j)[next[d]]
    <3> SUFFICES ASSUME d \notin stop PROVE G(k)[next[d]] = G(j)[next[d]]
      OBVIOUS
    <3>1. j < k
      OBVIOUS
    <3>2. \A e \in D : size[e] <= k /\ size[e] <= j => G(k)[e] = G(j)[e]
      <4> HIDE DEF Upto, k, j
      <4> QED
        BY <1>4, <2>1, <2>3
    <3> QED
      BY <2>1, <3>1, <3>2
  <2> QED
    BY <2>2, <2>4, <2>5 DEF Unfolded
<1> QED
  <2> HIDE DEF F, Is
  <2>1. \A d \in D : Is(F, F, d)
    BY <1>7
  <2> QED
    BY <1>6, <2>1 DEF Is

\* The loops count: they start at 0 and use what they had before.
Counts(S, N, c, step) ==
    /\ N \in SUBSET Nat /\ \A i \in N : i # 0 => i - 1 \in N
    /\ c \in S /\ step \in [N \X S -> S]

LEMMA Counting ==
    ASSUME NEW S, NEW N, NEW c, NEW step, Counts(S, N, c, step)
    PROVE  \E f \in [N -> S] : \A i \in N : f[i] = IF i = 0 THEN c ELSE step[<<i, f[i - 1]>>]
<1> USE DEF Counts
<1> DEFINE size == [i \in N |-> i]
           stop == {i \in N : i = 0}
           next == [i \in N |-> IF i = 0 THEN i ELSE i - 1]
           out == [i \in N |-> c]
<1>1. \A d \in N : (d \in stop <=> d = 0) /\ out[d] = c /\ (d # 0 => next[d] = d - 1)
  OBVIOUS
<1>2. \E f \in [N -> S] : \A d \in N : f[d] = Unfolded(f, d, stop, next, out, step)
  <2>1. size \in [N -> Nat] /\ stop \in SUBSET N
    OBVIOUS
  <2>2. next \in [N -> N] /\ out \in [N -> S]
    OBVIOUS
  <2>3. \A d \in N \ stop : size[next[d]] < size[d]
    OBVIOUS
  <2>4. Shrinks(N, S, size, stop, next, out, step)
    <3> HIDE DEF size, stop, next, out
    <3> QED
      BY <2>1, <2>2, <2>3 DEF Shrinks
  <2> HIDE DEF size, stop, next, out
  <2> QED
    BY <2>4, Recursion
<1> HIDE DEF size, stop, next, out
<1>3. \A f : \A d \in N : Unfolded(f, d, stop, next, out, step) =
                             IF d = 0 THEN c ELSE step[<<d, f[d - 1]>>]
  BY <1>1 DEF Unfolded
<1> QED
  BY <1>2, <1>3

-----------------------------------------------------------------------------
(* Powers of two and places.                                               *)

LEMMA TwoToIs == TwoTo = [n \in Nat |-> IF n = 0 THEN 1 ELSE 2 * TwoTo[n - 1]]
<1> DEFINE Is(f) == f = [n \in Nat |-> IF n = 0 THEN 1 ELSE 2 * f[n - 1]]
           step == [p \in Nat \X Nat |-> 2 * p[2]]
<1>1. PICK f \in [Nat -> Nat] : \A i \in Nat : f[i] = IF i = 0 THEN 1 ELSE step[<<i, f[i - 1]>>]
  <2>1. step \in [Nat \X Nat -> Nat] /\ \A i \in Nat : i # 0 => i - 1 \in Nat
    OBVIOUS
  <2> HIDE DEF step
  <2>2. Counts(Nat, Nat, 1, step)
    BY <2>1 DEF Counts
  <2> QED
    BY <2>2, Counting
<1>2. \A i \in Nat : f[i] = IF i = 0 THEN 1 ELSE 2 * f[i - 1]
  <2> SUFFICES ASSUME NEW i \in Nat, i # 0 PROVE f[i] = 2 * f[i - 1]
    BY <1>1
  <2>1. i - 1 \in Nat /\ f[i - 1] \in Nat
    OBVIOUS
  <2>2. <<i, f[i - 1]>> \in Nat \X Nat /\ f[i] = step[<<i, f[i - 1]>>]
    BY <1>1, <2>1
  <2> QED
    BY <2>2
<1>3. Is(f)
  BY <1>2
<1>4. TwoTo = CHOOSE g : Is(g)
  BY DEF TwoTo
<1>5. Is(TwoTo)
  <2> HIDE DEF Is
  <2> QED
    BY <1>3, <1>4
<1> QED
  BY <1>5

LEMMA TwoToFacts ==
    /\ TwoTo[0] = 1
    /\ \A n \in Nat : TwoTo[n] \in Nat \ {0} /\ TwoTo[n + 1] = 2 * TwoTo[n]
<1>1. TwoTo[0] = 1
  BY TwoToIs
<1>2. \A n \in Nat : TwoTo[n + 1] = 2 * TwoTo[n]
  <2> SUFFICES ASSUME NEW n \in Nat PROVE TwoTo[n + 1] = 2 * TwoTo[n]
    OBVIOUS
  <2>1. n + 1 \in Nat /\ n + 1 # 0 /\ (n + 1) - 1 = n
    OBVIOUS
  <2> QED
    BY <2>1, TwoToIs
<1> DEFINE S == {n \in Nat : TwoTo[n] \in Nat \ {0}}
<1>3. 0 \in S
  BY <1>1
<1>4. ASSUME NEW n \in Nat, n \in S PROVE n + 1 \in S
  BY <1>2, <1>4
<1>5. \A n \in Nat : n \in S
  <2> HIDE DEF S
  <2> QED
    BY <1>3, <1>4, AllNumbers
<1> QED
  BY <1>1, <1>2, <1>5

LEMMA TwoToSum == \A m, n \in Nat : TwoTo[m + n] = TwoTo[m] * TwoTo[n]
<1> SUFFICES ASSUME NEW m \in Nat PROVE \A n \in Nat : TwoTo[m + n] = TwoTo[m] * TwoTo[n]
  OBVIOUS
<1> DEFINE S == {n \in Nat : TwoTo[m + n] = TwoTo[m] * TwoTo[n]}
<1>1. 0 \in S
  <2>1. m + 0 = m /\ TwoTo[m] \in Nat
    BY TwoToFacts
  <2> QED
    BY <2>1, TwoToFacts
<1>2. ASSUME NEW n \in Nat, n \in S PROVE n + 1 \in S
  <2>1. m + (n + 1) = (m + n) + 1 /\ m + n \in Nat
    OBVIOUS
  <2>2. TwoTo[(m + n) + 1] = 2 * TwoTo[m + n] /\ TwoTo[n + 1] = 2 * TwoTo[n]
    BY <2>1, TwoToFacts
  <2>3. TwoTo[m + n] = TwoTo[m] * TwoTo[n]
    BY <1>2
  <2>4. TwoTo[m] \in Nat /\ TwoTo[n] \in Nat
    BY TwoToFacts
  <2>5. \A a, b \in Nat : 2 * (a * b) = a * (2 * b)
    OBVIOUS
  <2> QED
    BY <2>1, <2>2, <2>3, <2>4, <2>5
<1>3. \A n \in Nat : n \in S
  <2> HIDE DEF S
  <2> QED
    BY <1>1, <1>2, AllNumbers
<1> QED
  BY <1>3

\* What a one in word n + 1 is worth.
Place(n) == TwoTo[WordBits * n]

LEMMA BaseFacts == WordBits \in Nat \ {0} /\ Base \in Nat /\ Base >= 2
<1>1. WordBits \in Nat \ {0} /\ WordBits - 1 \in Nat
  BY SizesAssumption
<1>2. TwoTo[(WordBits - 1) + 1] = 2 * TwoTo[WordBits - 1] /\ TwoTo[WordBits - 1] \in Nat \ {0}
  BY <1>1, TwoToFacts
<1>3. (WordBits - 1) + 1 = WordBits
  BY <1>1
<1> QED
  BY <1>1, <1>2, <1>3 DEF Base

LEMMA PlaceSum == \A m, n \in Nat : Place(m + n) = Place(m) * Place(n)
<1> SUFFICES ASSUME NEW m \in Nat, NEW n \in Nat PROVE Place(m + n) = Place(m) * Place(n)
  OBVIOUS
<1>1. WordBits * m \in Nat /\ WordBits * n \in Nat
  BY BaseFacts
<1>2. WordBits * (m + n) = WordBits * m + WordBits * n
  BY BaseFacts
<1> QED
  BY <1>1, <1>2, TwoToSum DEF Place

LEMMA PlaceFacts ==
    /\ Place(0) = 1 /\ Place(1) = Base
    /\ \A n \in Nat : Place(n) \in Nat /\ Place(n) > 0 /\ Place(n + 1) = Base * Place(n)
<1>1. WordBits \in Nat
  BY BaseFacts
<1>2. Place(0) = 1 /\ Place(1) = Base
  <2>1. WordBits * 0 = 0 /\ WordBits * 1 = WordBits
    BY <1>1
  <2> QED
    BY <2>1, TwoToFacts DEF Place, Base
<1>3. \A n \in Nat : Place(n) \in Nat /\ Place(n) > 0
  <2> SUFFICES ASSUME NEW n \in Nat PROVE Place(n) \in Nat /\ Place(n) > 0
    OBVIOUS
  <2>1. WordBits * n \in Nat
    BY <1>1
  <2> QED
    BY <2>1, TwoToFacts DEF Place
<1>4. \A n \in Nat : Place(n + 1) = Base * Place(n)
  <2> SUFFICES ASSUME NEW n \in Nat PROVE Place(n + 1) = Base * Place(n)
    OBVIOUS
  <2>1. Place(n + 1) = Place(n) * Place(1)
    BY PlaceSum
  <2>2. Place(n) \in Nat /\ Base \in Nat
    BY <1>3, BaseFacts
  <2> QED
    BY <1>2, <2>1, <2>2
<1> QED
  BY <1>2, <1>3, <1>4

-----------------------------------------------------------------------------
(* Products of numbers.                                                    *)

LEMMA Times == \A a, b \in Int : a * b \in Int /\ a * b = b * a
OBVIOUS
LEMMA TimesNat == \A a, b \in Nat : a * b \in Nat
OBVIOUS
LEMMA TimesAdd == \A a, b, c \in Int : (a + b) * c = a * c + b * c
OBVIOUS
LEMMA TimesMinus == \A a, b, c \in Int : (a - b) * c = a * c - b * c
OBVIOUS
LEMMA TimesTimes == \A a, b, c \in Int : (a * b) * c = a * (b * c)
OBVIOUS
LEMMA TimesOrder == \A a, b \in Int, c \in Nat : a <= b => a * c <= b * c
<1> SUFFICES ASSUME NEW a \in Int, NEW b \in Int, NEW c \in Nat, a <= b PROVE a * c <= b * c
  OBVIOUS
<1>1. (b - a) * c = b * c - a * c /\ b - a \in Nat
  BY TimesMinus
<1>2. (b - a) * c \in Nat
  BY <1>1, TimesNat
<1> QED
  BY <1>1, <1>2, Times

LEMMA Division ==
    ASSUME NEW n \in Nat \ {0}, NEW a \in Int
    PROVE  /\ a \div n \in Int /\ a % n \in 0 .. n - 1
           /\ a = (a \div n) * n + (a % n)
<1>1. a \div n \in Int /\ a % n \in 0 .. n - 1 /\ a % n = a - n * (a \div n)
  OBVIOUS
<1>2. n * (a \div n) = (a \div n) * n /\ n * (a \div n) \in Int
  BY <1>1, Times
<1> DEFINE q == a \div n
           p == q * n
           s == a % n
<1>3. q \in Int /\ s \in 0 .. n - 1 /\ s = a - p /\ p \in Int
  BY <1>1, <1>2
<1>4. a = p + s
  <2> HIDE DEF p, q, s
  <2> QED
    BY <1>3
<1> QED
  BY <1>1, <1>4, Zenon

LEMMA DivisionIs ==
    ASSUME NEW n \in Nat \ {0}, NEW t \in Int, NEW s \in 0 .. n - 1
    PROVE  (t * n + s) \div n = t /\ (t * n + s) % n = s
<1>1. t * n \in Int /\ (t + 1) * n = t * n + n
  OBVIOUS
<1> DEFINE a == t * n + s
           q == a \div n
           m == a % n
<1>2. a \in Int /\ q \in Int /\ m \in 0 .. n - 1 /\ a = q * n + m
  BY <1>1, Division
<1>3. q = t
  <2>1. CASE q < t
    <3>1. q + 1 <= t
      BY <1>2, <2>1
    <3>2. (q + 1) * n <= t * n
      BY <1>2, <3>1, TimesOrder
    <3>3. (q + 1) * n = q * n + n /\ q * n \in Int
      BY <1>2
    <3> DEFINE u == q * n
               y == t * n
               z == (q + 1) * n
               w == (t + 1) * n
    <3>4. /\ u \in Int /\ y \in Int /\ a = y + s /\ a = u + m /\ w = y + n
          /\ z = u + n
      BY <1>1, <1>2
    <3>5. z <= y
      BY <3>2
    <3> HIDE DEF q, m, a, u, y, z, w
    <3> QED
      BY <1>2, <3>4, <3>5
  <2>2. CASE q > t
    <3>1. t + 1 <= q
      BY <1>2, <2>2
    <3>2. (t + 1) * n <= q * n
      BY <1>2, <3>1, TimesOrder
    <3>3. (q + 1) * n = q * n + n /\ q * n \in Int
      BY <1>2
    <3> DEFINE u == q * n
               y == t * n
               z == (q + 1) * n
               w == (t + 1) * n
    <3>4. /\ u \in Int /\ y \in Int /\ a = y + s /\ a = u + m /\ w = y + n
          /\ z = u + n
      BY <1>1, <1>2
    <3>5. w <= u
      BY <3>2
    <3> HIDE DEF q, m, a, u, y, z, w
    <3> QED
      BY <1>2, <3>4, <3>5
  <2> QED
    BY <1>2, <2>1, <2>2
<1>4. m = s
  <2> DEFINE y == t * n
  <2>1. y \in Int /\ a = y + s /\ a = y + m
    BY <1>1, <1>2, <1>3
  <2> HIDE DEF y, m, a
  <2> QED
    BY <1>2, <2>1
<1> QED
  BY <1>3, <1>4

-----------------------------------------------------------------------------
(* What words are worth.                                                   *)

Mags == Seq(Words)

LEMMA WordType ==
    ASSUME NEW m \in Mags, NEW i \in Nat \ {0}
    PROVE  Word(m, i) \in Words /\ Word(m, i) \in Nat /\ Word(m, i) < Base
<1>1. Base \in Nat /\ Base >= 2 /\ Len(m) \in Nat /\ m \in [1 .. Len(m) -> Words]
  BY BaseFacts, LenProperties DEF Mags
<1>2. Word(m, i) \in Words
  BY <1>1 DEF Word, Words
<1> QED
  BY <1>1, <1>2 DEF Words

LEMMA LowIs ==
    ASSUME NEW m \in Mags
    PROVE  /\ Low(m) \in [Nat -> Nat]
           /\ Low(m)[0] = 0
           /\ \A n \in Nat : Low(m)[n + 1] = Low(m)[n] + Word(m, n + 1) * Place(n)
<1> DEFINE Is(f) == f = [n \in Nat |-> IF n = 0 THEN 0
                              ELSE f[n - 1] + Word(m, n) * TwoTo[WordBits * (n - 1)]]
           step == [p \in Nat \X Nat |-> IF p[1] = 0 THEN 0
                                         ELSE p[2] + Word(m, p[1]) * Place(p[1] - 1)]
<1>1. \A n \in Nat \ {0} : Word(m, n) * Place(n - 1) \in Nat
  <2> SUFFICES ASSUME NEW n \in Nat \ {0} PROVE Word(m, n) * Place(n - 1) \in Nat
    OBVIOUS
  <2>1. Word(m, n) \in Nat /\ n - 1 \in Nat
    BY WordType
  <2> QED
    BY <2>1, PlaceFacts, TimesNat
<1>2. PICK f \in [Nat -> Nat] : \A i \in Nat : f[i] = IF i = 0 THEN 0 ELSE step[<<i, f[i - 1]>>]
  <2>1. step \in [Nat \X Nat -> Nat]
    BY <1>1
  <2> HIDE DEF step
  <2>2. Counts(Nat, Nat, 0, step)
    BY <2>1 DEF Counts
  <2> QED
    BY <2>2, Counting
<1>3. \A i \in Nat : f[i] = IF i = 0 THEN 0 ELSE f[i - 1] + Word(m, i) * Place(i - 1)
  <2> SUFFICES ASSUME NEW i \in Nat, i # 0 PROVE f[i] = f[i - 1] + Word(m, i) * Place(i - 1)
    BY <1>2
  <2>1. i - 1 \in Nat /\ f[i - 1] \in Nat
    OBVIOUS
  <2>2. <<i, f[i - 1]>> \in Nat \X Nat /\ f[i] = step[<<i, f[i - 1]>>]
    BY <1>2, <2>1
  <2> QED
    BY <2>2
<1>4. Is(f)
  BY <1>3, Zenon DEF Place
<1>5. Low(m) = CHOOSE g : Is(g)
  BY DEF Low
<1>6. Is(Low(m))
  <2> HIDE DEF Is
  <2> QED
    BY <1>4, <1>5
<1> DEFINE F == Low(m)
<1>7. /\ F = [n \in Nat |-> F[n]] /\ F[0] = 0
      /\ \A n \in Nat : n # 0 => F[n] = F[n - 1] + Word(m, n) * Place(n - 1)
  <2>1. F = [n \in Nat |-> IF n = 0 THEN 0
                              ELSE F[n - 1] + Word(m, n) * Place(n - 1)]
    BY <1>6 DEF Place
  <2> HIDE DEF F
  <2> QED
    BY <2>1
<1> HIDE DEF F
<1>8. \A n \in Nat : F[n + 1] = F[n] + Word(m, n + 1) * Place(n)
  <2> SUFFICES ASSUME NEW n \in Nat PROVE F[n + 1] = F[n] + Word(m, n + 1) * Place(n)
    OBVIOUS
  <2>1. n + 1 \in Nat /\ n + 1 # 0 /\ (n + 1) - 1 = n
    OBVIOUS
  <2> QED
    BY <1>7, <2>1
<1> DEFINE S == {n \in Nat : F[n] \in Nat}
<1>9. \A n \in Nat : n \in S
  <2>1. 0 \in S
    BY <1>7
  <2>2. ASSUME NEW n \in Nat, n \in S PROVE n + 1 \in S
    <3>1. Word(m, n + 1) * Place(n) \in Nat
      <4>1. n + 1 \in Nat \ {0} /\ (n + 1) - 1 = n
        OBVIOUS
      <4> QED
        BY <1>1, <4>1
    <3> QED
      BY <1>8, <2>2, <3>1
  <2> HIDE DEF S
  <2> QED
    BY <2>1, <2>2, AllNumbers
<1>10. F \in [Nat -> Nat]
  <2>1. \A n \in Nat : F[n] \in Nat
    BY <1>9
  <2> QED
    BY <1>7, <2>1
<1> QED
  BY <1>7, <1>8, <1>10 DEF F

\* The first n words are worth less than a one in the next.
LEMMA LowBounded ==
    ASSUME NEW m \in Mags
    PROVE  \A n \in Nat : Low(m)[n] < Place(n)
<1> DEFINE S == {n \in Nat : Low(m)[n] < Place(n)}
<1>1. 0 \in S
  BY LowIs, PlaceFacts
<1>2. ASSUME NEW n \in Nat, n \in S PROVE n + 1 \in S
  <2>1. Low(m)[n + 1] = Low(m)[n] + Word(m, n + 1) * Place(n)
    BY LowIs
  <2>2. Place(n + 1) = Base * Place(n) /\ Place(n) \in Nat /\ Place(n + 1) \in Nat
    BY PlaceFacts
  <2>3. Word(m, n + 1) \in Nat /\ Word(m, n + 1) < Base /\ Base \in Nat
    BY WordType, BaseFacts
  <2>4. Word(m, n + 1) * Place(n) <= (Base - 1) * Place(n)
    BY <2>2, <2>3, TimesOrder
  <2>5. (Base - 1) * Place(n) = Base * Place(n) - Place(n)
    BY <2>2, <2>3
  <2>6. Word(m, n + 1) * Place(n) \in Int /\ Low(m)[n] \in Nat /\ Low(m)[n + 1] \in Nat
    BY <2>2, <2>3, LowIs
  <2>7. Low(m)[n] < Place(n)
    BY <1>2
  <2> DEFINE p == Word(m, n + 1) * Place(n)
             q == Base * Place(n)
  <2>8. /\ Low(m)[n + 1] = Low(m)[n] + p /\ Place(n + 1) = q /\ p <= q - Place(n)
        /\ p \in Int /\ q \in Int
    BY <2>1, <2>2, <2>4, <2>5, <2>6
  <2> HIDE DEF p, q
  <2> QED
    BY <2>2, <2>6, <2>7, <2>8
<1>3. \A n \in Nat : n \in S
  <2> HIDE DEF S
  <2> QED
    BY <1>1, <1>2, AllNumbers
<1> QED
  BY <1>3

\* Two values with the same words from k to n, and zeros.
LEMMA LowSame ==
    ASSUME NEW l \in Mags, NEW m \in Mags, NEW k \in Nat, NEW n \in Nat, k <= n,
           \A i \in k + 1 .. n : Word(l, i) = Word(m, i)
    PROVE  Low(l)[n] - Low(m)[n] = Low(l)[k] - Low(m)[k]
<1> DEFINE S == {d \in Nat : k + d <= n => Low(l)[k + d] - Low(m)[k + d] = Low(l)[k] - Low(m)[k]}
<1>1. 0 \in S
  OBVIOUS
<1>2. ASSUME NEW d \in Nat, d \in S PROVE d + 1 \in S
  <2> SUFFICES ASSUME k + (d + 1) <= n
               PROVE  Low(l)[k + (d + 1)] - Low(m)[k + (d + 1)] = Low(l)[k] - Low(m)[k]
    OBVIOUS
  <2>1. k + (d + 1) = (k + d) + 1 /\ k + d \in Nat /\ (k + d) + 1 \in k + 1 .. n /\ k + d <= n
    OBVIOUS
  <2>2. Low(l)[k + d] - Low(m)[k + d] = Low(l)[k] - Low(m)[k]
    BY <1>2, <2>1
  <2>3. Word(l, (k + d) + 1) = Word(m, (k + d) + 1)
    BY <2>1
  <2>4. /\ Low(l)[(k + d) + 1] = Low(l)[k + d] + Word(l, (k + d) + 1) * Place(k + d)
        /\ Low(m)[(k + d) + 1] = Low(m)[k + d] + Word(m, (k + d) + 1) * Place(k + d)
    BY <2>1, LowIs
  <2>5. Word(l, (k + d) + 1) * Place(k + d) \in Int
    BY <2>1, WordType, PlaceFacts
  <2>6. Low(l)[k + d] \in Nat /\ Low(m)[k + d] \in Nat /\ Low(l)[k] \in Nat /\ Low(m)[k] \in Nat
    BY <2>1, LowIs
  <2> DEFINE p == Word(l, (k + d) + 1) * Place(k + d)
  <2>7. Low(l)[(k + d) + 1] = Low(l)[k + d] + p /\ Low(m)[(k + d) + 1] = Low(m)[k + d] + p
        /\ p \in Int
    BY <2>3, <2>4, <2>5
  <2> HIDE DEF p
  <2> QED
    BY <2>1, <2>2, <2>6, <2>7
<1>3. \A d \in Nat : d \in S
  <2> HIDE DEF S
  <2> QED
    BY <1>1, <1>2, AllNumbers
<1>4. n - k \in Nat /\ k + (n - k) = n
  OBVIOUS
<1>5. n - k \in S
  BY <1>3, <1>4
<1> QED
  BY <1>4, <1>5

LEMMA EmptyMag == <<>> \in Mags /\ Len(<<>>) = 0 /\ \A i \in Nat \ {0} : Word(<<>>, i) = 0
BY EmptySeq DEF Mags, Word

LEMMA LowZero == \A n \in Nat : Low(<<>>)[n] = 0
<1> DEFINE S == {n \in Nat : Low(<<>>)[n] = 0}
<1>1. 0 \in S
  BY EmptyMag, LowIs
<1>2. ASSUME NEW n \in Nat, n \in S PROVE n + 1 \in S
  <2>1. Low(<<>>)[n + 1] = Low(<<>>)[n] + Word(<<>>, n + 1) * Place(n)
    BY EmptyMag, LowIs
  <2>2. Word(<<>>, n + 1) = 0 /\ Place(n) \in Nat
    <3>1. n + 1 \in Nat \ {0}
      OBVIOUS
    <3> QED
      BY <3>1, EmptyMag, PlaceFacts
  <2>3. Word(<<>>, n + 1) * Place(n) = 0
    BY <2>2
  <2> QED
    BY <1>2, <2>1, <2>3
<1>3. \A n \in Nat : n \in S
  <2> HIDE DEF S
  <2> QED
    BY <1>1, <1>2, AllNumbers
<1> QED
  BY <1>3

\* From the end on there are only zeros.
LEMMA LowAll ==
    ASSUME NEW m \in Mags, NEW k \in Nat, NEW n \in Nat, k <= n,
           \A i \in Nat : i > k => Word(m, i) = 0
    PROVE  Low(m)[n] = Low(m)[k]
<1>1. Low(m)[n] - Low(<<>>)[n] = Low(m)[k] - Low(<<>>)[k]
  <2>1. \A i \in k + 1 .. n : Word(m, i) = Word(<<>>, i)
    BY EmptyMag
  <2> QED
    BY <2>1, EmptyMag, LowSame
<1>2. Low(<<>>)[n] = 0 /\ Low(<<>>)[k] = 0 /\ Low(m)[n] \in Nat /\ Low(m)[k] \in Nat
  BY LowZero, LowIs
<1> QED
  BY <1>1, <1>2

LEMMA AbsoluteFacts ==
    ASSUME NEW m \in Mags
    PROVE  /\ Absolute(m) \in Nat /\ Absolute(m) < Place(Len(m))
           /\ \A n \in Nat : n >= Len(m) => Low(m)[n] = Absolute(m)
<1>1. Len(m) \in Nat
  BY LenProperties DEF Mags
<1>2. \A i \in Nat : i > Len(m) => Word(m, i) = 0
  BY <1>1 DEF Word
<1> QED
  BY <1>1, <1>2, LowIs, LowBounded, LowAll DEF Absolute

-----------------------------------------------------------------------------
(* Significant words, and comparing magnitudes.                            *)

LEMMA MinIn ==
    ASSUME NEW n \in Nat, NEW S, S \subseteq 0 .. n, S # {}
    PROVE  Min(S) \in S /\ \A j \in S : Min(S) <= j
<1>1. \E k \in S : \A j \in S : k <= j
  BY LeastIn
<1> QED
  BY <1>1 DEF Min

LEMMA MaxIn ==
    ASSUME NEW n \in Nat, NEW S, S \subseteq 0 .. n, S # {}
    PROVE  Max(S) \in S /\ \A j \in S : Max(S) >= j
<1> DEFINE T == {n - k : k \in S}
<1>1. T \subseteq 0 .. n /\ T # {}
  <2>1. \A k \in S : k \in 0 .. n /\ n - k \in 0 .. n /\ n - k \in T
    OBVIOUS
  <2>2. \E k \in S : n - k \in T
    BY <2>1
  <2> QED
    BY <2>1, <2>2
<1>2. PICK t \in T : \A j \in T : t <= j
  <2> HIDE DEF T
  <2> QED
    BY <1>1, LeastIn
<1>3. PICK k \in S : t = n - k
  BY <1>2
<1>4. \A j \in S : k >= j
  <2> SUFFICES ASSUME NEW j \in S PROVE k >= j
    OBVIOUS
  <2>1. n - j \in T /\ j \in Int /\ k \in Int
    OBVIOUS
  <2>2. t <= n - j
    BY <1>2, <2>1
  <2> QED
    BY <1>3, <2>1, <2>2
<1> QED
  BY <1>4 DEF Max

LEMMA MaxTwo == \A a, b \in Nat : Max({a, b}) = IF a < b THEN b ELSE a
<1> SUFFICES ASSUME NEW a \in Nat, NEW b \in Nat PROVE Max({a, b}) = IF a < b THEN b ELSE a
  OBVIOUS
<1> DEFINE S == {a, b}
<1>1. S \subseteq 0 .. a + b /\ S # {} /\ a + b \in Nat
  OBVIOUS
<1>2. Max(S) \in S /\ \A j \in S : Max(S) >= j
  <2> HIDE DEF S
  <2> QED
    BY <1>1, MaxIn
<1> QED
  BY <1>2

LEMMA MinTwo == \A a, b \in Nat : Min({a, b}) = IF a < b THEN a ELSE b
<1> SUFFICES ASSUME NEW a \in Nat, NEW b \in Nat PROVE Min({a, b}) = IF a < b THEN a ELSE b
  OBVIOUS
<1> DEFINE S == {a, b}
<1>1. S \subseteq 0 .. a + b /\ S # {} /\ a + b \in Nat
  OBVIOUS
<1>2. Min(S) \in S /\ \A j \in S : Min(S) <= j
  <2> HIDE DEF S
  <2> QED
    BY <1>1, MinIn
<1> QED
  BY <1>2

LEMMA PlaceOrder == \A m, n \in Nat : m <= n => Place(m) <= Place(n)
<1> SUFFICES ASSUME NEW m \in Nat, NEW n \in Nat, m <= n PROVE Place(m) <= Place(n)
  OBVIOUS
<1>1. n - m \in Nat /\ m + (n - m) = n
  OBVIOUS
<1>2. Place(n) = Place(m) * Place(n - m)
  BY <1>1, PlaceSum
<1>3. Place(m) \in Nat /\ Place(n - m) \in Nat /\ 1 <= Place(n - m)
  BY <1>1, PlaceFacts
<1>4. 1 * Place(m) <= Place(n - m) * Place(m)
  BY <1>3, TimesOrder
<1>5. 1 * Place(m) = Place(m) /\ Place(n - m) * Place(m) = Place(n)
  BY <1>2, <1>3
<1> QED
  BY <1>4, <1>5

LEMMA SignificantFacts ==
    ASSUME NEW m \in Mags
    PROVE  /\ Significant(m) \in 0 .. Len(m)
           /\ Significant(m) > 0 => Word(m, Significant(m)) > 0
           /\ \A i \in Nat : i > Significant(m) => Word(m, i) = 0
<1> DEFINE S == {0} \cup {i \in DOMAIN m : m[i] # 0}
<1>1. Len(m) \in Nat /\ DOMAIN m = 1 .. Len(m)
  BY LenProperties DEF Mags
<1>2. S \subseteq 0 .. Len(m) /\ S # {}
  BY <1>1
<1>3. Significant(m) = Max(S)
  BY DEF Significant
<1>4. Max(S) \in S /\ \A j \in S : Max(S) >= j
  <2> HIDE DEF S
  <2> QED
    BY <1>1, <1>2, MaxIn
<1>5. Significant(m) \in S /\ \A j \in S : Significant(m) >= j
  <2> HIDE DEF S
  <2> QED
    BY <1>3, <1>4
<1>6. Significant(m) \in 0 .. Len(m)
  BY <1>1, <1>5
<1>7. Significant(m) > 0 => Word(m, Significant(m)) > 0
  <2> SUFFICES ASSUME Significant(m) > 0 PROVE Word(m, Significant(m)) > 0
    OBVIOUS
  <2>1. m[Significant(m)] # 0 /\ Word(m, Significant(m)) = m[Significant(m)]
    BY <1>5, <1>6 DEF Word
  <2>2. Word(m, Significant(m)) \in Nat
    BY <1>6, WordType
  <2> QED
    BY <2>1, <2>2
<1>8. \A i \in Nat : i > Significant(m) => Word(m, i) = 0
  <2> SUFFICES ASSUME NEW i \in Nat, i > Significant(m), i <= Len(m) PROVE m[i] = 0
    BY <1>1 DEF Word
  <2> QED
    BY <1>1, <1>5, <1>6
<1> QED
  BY <1>6, <1>7, <1>8

LEMMA SignificantBounds ==
    ASSUME NEW m \in Mags
    PROVE  /\ Low(m)[Significant(m)] = Absolute(m)
           /\ Absolute(m) < Place(Significant(m))
           /\ Significant(m) > 0 => Place(Significant(m) - 1) <= Absolute(m)
<1> DEFINE s == Significant(m)
<1>1. s \in 0 .. Len(m) /\ Len(m) \in Nat /\ s \in Nat
  BY SignificantFacts, LenProperties DEF Mags
<1>2. Low(m)[s] = Absolute(m)
  <2>1. \A i \in Nat : i > s => Word(m, i) = 0
    BY SignificantFacts
  <2>2. Low(m)[Len(m)] = Low(m)[s]
    <3> HIDE DEF s
    <3> QED
      BY <1>1, <2>1, LowAll
  <2> QED
    BY <2>2 DEF Absolute
<1>3. ASSUME s > 0 PROVE Place(s - 1) <= Absolute(m)
  <2>1. s - 1 \in Nat /\ (s - 1) + 1 = s
    BY <1>1, <1>3
  <2>2. Low(m)[s] = Low(m)[s - 1] + Word(m, s) * Place(s - 1)
    <3> HIDE DEF s
    <3> QED
      BY <2>1, LowIs
  <2>3. Word(m, s) \in Nat /\ 1 <= Word(m, s)
    BY <1>1, <1>3, SignificantFacts, WordType
  <2>4. Place(s - 1) \in Nat /\ Low(m)[s - 1] \in Nat
    BY <2>1, PlaceFacts, LowIs
  <2>5. 1 * Place(s - 1) <= Word(m, s) * Place(s - 1)
    <3> HIDE DEF s
    <3> QED
      BY <2>3, <2>4, TimesOrder
  <2> DEFINE p == Word(m, s) * Place(s - 1)
  <2>6. p \in Int /\ Place(s - 1) <= p /\ Absolute(m) = Low(m)[s - 1] + p
    BY <1>2, <2>2, <2>3, <2>4, <2>5
  <2> HIDE DEF p, s
  <2> QED
    BY <2>4, <2>6
<1> QED
  BY <1>1, <1>2, <1>3, LowBounded

LEMMA ZeroIs ==
    ASSUME NEW m \in Mags
    PROVE  /\ (\A i \in DOMAIN m : m[i] = 0) <=> Absolute(m) = 0
           /\ Significant(m) = 0 <=> Absolute(m) = 0
<1>1. Len(m) \in Nat /\ DOMAIN m = 1 .. Len(m) /\ Significant(m) \in 0 .. Len(m)
  BY LenProperties, SignificantFacts DEF Mags
<1>2. Absolute(m) \in Nat
  BY AbsoluteFacts
<1>3. Significant(m) = 0 <=> Absolute(m) = 0
  <2>1. Significant(m) = 0 => Absolute(m) < 1
    BY SignificantBounds, PlaceFacts
  <2>2. Significant(m) # 0 => Absolute(m) > 0
    <3> SUFFICES ASSUME Significant(m) # 0 PROVE Absolute(m) > 0
      OBVIOUS
    <3>1. Significant(m) > 0 /\ Significant(m) - 1 \in Nat
      BY <1>1
    <3>2. Place(Significant(m) - 1) > 0 /\ Place(Significant(m) - 1) \in Nat
      BY <3>1, PlaceFacts
    <3> QED
      BY <1>2, <3>1, <3>2, SignificantBounds
  <2> QED
    BY <1>2, <2>1, <2>2
<1>4. (\A i \in DOMAIN m : m[i] = 0) <=> Significant(m) = 0
  <2>1. ASSUME \A i \in DOMAIN m : m[i] = 0 PROVE Significant(m) = 0
    <3> SUFFICES ASSUME Significant(m) # 0 PROVE FALSE
      OBVIOUS
    <3>1. Significant(m) \in 1 .. Len(m) /\ Significant(m) > 0
      BY <1>1
    <3>2. Word(m, Significant(m)) = m[Significant(m)] /\ Word(m, Significant(m)) > 0
      BY <1>1, <3>1, SignificantFacts DEF Word
    <3> QED
      BY <1>1, <2>1, <3>1, <3>2
  <2>2. ASSUME Significant(m) = 0, NEW i \in DOMAIN m PROVE m[i] = 0
    <3>1. i \in Nat /\ i > 0 /\ Word(m, i) = m[i]
      BY <1>1 DEF Word
    <3> QED
      BY <2>2, <3>1, SignificantFacts
  <2> QED
    BY <2>1, <2>2
<1> QED
  BY <1>3, <1>4

LEMMA LowOrder ==
    ASSUME NEW l \in Mags, NEW m \in Mags, NEW n \in Nat, Word(l, n + 1) < Word(m, n + 1)
    PROVE  Low(l)[n + 1] < Low(m)[n + 1]
<1> DEFINE a == Word(l, n + 1)
           b == Word(m, n + 1)
           P == Place(n)
<1>1. a \in Nat /\ b \in Nat /\ a + 1 <= b /\ P \in Nat
  BY WordType, PlaceFacts
<1>2. /\ Low(l)[n + 1] = Low(l)[n] + a * P /\ Low(m)[n + 1] = Low(m)[n] + b * P
      /\ Low(l)[n] \in Nat /\ Low(m)[n] \in Nat /\ Low(l)[n] < P
  BY LowIs, LowBounded
<1> HIDE DEF a, b, P
<1>3. (a + 1) * P <= b * P /\ (a + 1) * P = a * P + P
  BY <1>1, TimesOrder
<1> DEFINE p == a * P
           q == b * P
<1>4. p \in Int /\ q \in Int /\ p + P <= q /\ Low(l)[n + 1] = Low(l)[n] + p
      /\ Low(m)[n + 1] = Low(m)[n] + q
  BY <1>1, <1>2, <1>3
<1> HIDE DEF p, q
<1> QED
  BY <1>1, <1>2, <1>4

LEMMA CompareIs ==
    ASSUME NEW l \in Mags, NEW r \in Mags
    PROVE  CompareMagnitudes(l, r) = IF Absolute(l) > Absolute(r) THEN 1
                                     ELSE IF Absolute(l) < Absolute(r) THEN -1 ELSE 0
<1> DEFINE size == Significant(l)
           differ == {i \in 1 .. size : l[i] # Word(r, i)}
<1>1. /\ size \in Nat /\ Significant(r) \in Nat /\ size <= Len(l) /\ Len(l) \in Nat
      /\ Absolute(l) \in Nat /\ Absolute(r) \in Nat
  BY SignificantFacts, AbsoluteFacts, LenProperties DEF Mags
<1>2. ASSUME NEW a \in Mags, NEW b \in Mags, Significant(a) > Significant(b)
      PROVE  Absolute(a) > Absolute(b)
  <2>1. Significant(a) \in Nat /\ Significant(b) \in Nat /\ Significant(a) - 1 \in Nat
    BY <1>2, SignificantFacts
  <2>2. Place(Significant(b)) <= Place(Significant(a) - 1)
    BY <1>2, <2>1, PlaceOrder
  <2>3. Absolute(b) < Place(Significant(b)) /\ Place(Significant(a) - 1) <= Absolute(a)
    BY <1>2, <2>1, SignificantBounds
  <2>4. Place(Significant(b)) \in Nat /\ Place(Significant(a) - 1) \in Nat
    BY <2>1, PlaceFacts
  <2> QED
    BY <2>2, <2>3, <2>4, AbsoluteFacts
<1>3. ASSUME size = Significant(r), differ = {}
      PROVE  Absolute(l) = Absolute(r)
  <2>1. \A i \in 0 + 1 .. size : Word(l, i) = Word(r, i)
    BY <1>1, <1>3 DEF Word
  <2>2. Low(l)[size] - Low(r)[size] = Low(l)[0] - Low(r)[0]
    <3>1. 0 \in Nat /\ 0 <= size
      BY <1>1
    <3> HIDE DEF size, differ
    <3> QED
      BY <1>1, <2>1, <3>1, LowSame
  <2>3. Low(l)[size] = Absolute(l) /\ Low(r)[size] = Absolute(r)
    BY <1>3, SignificantBounds
  <2>4. Low(l)[0] = 0 /\ Low(r)[0] = 0
    BY LowIs
  <2> QED
    BY <1>1, <2>2, <2>3, <2>4
<1>4. ASSUME size = Significant(r), differ # {}
      PROVE  /\ Max(differ) \in differ /\ Word(l, Max(differ)) = l[Max(differ)]
             /\ l[Max(differ)] < Word(r, Max(differ)) => Absolute(l) < Absolute(r)
             /\ ~ (l[Max(differ)] < Word(r, Max(differ))) => Absolute(l) > Absolute(r)
  <2> DEFINE k == Max(differ)
             n == k - 1
  <2>1. k \in differ /\ \A i \in differ : k >= i
    <3>1. differ \subseteq 0 .. size
      BY <1>1
    <3> HIDE DEF differ, size
    <3> QED
      BY <1>1, <1>4, <3>1, MaxIn
  <2>2. k \in 1 .. size /\ l[k] # Word(r, k) /\ n \in Nat /\ n + 1 = k
    BY <1>1, <2>1
  <2>3. Word(l, k) = l[k]
    BY <1>1, <2>2 DEF Word
  <2>4. \A i \in k + 1 .. size : Word(l, i) = Word(r, i)
    BY <1>1, <2>1, <2>2 DEF Word
  <2>5. Low(l)[size] - Low(r)[size] = Low(l)[k] - Low(r)[k]
    <3> HIDE DEF size, differ, k
    <3> QED
      BY <1>1, <2>2, <2>4, LowSame
  <2>6. Low(l)[size] = Absolute(l) /\ Low(r)[size] = Absolute(r)
    BY <1>4, SignificantBounds
  <2>7. Word(l, k) \in Nat /\ Word(r, k) \in Nat /\ Low(l)[k] \in Nat /\ Low(r)[k] \in Nat
    <3>1. k \in Nat \ {0} /\ k \in Nat
      BY <1>1, <2>2
    <3> HIDE DEF k
    <3> QED
      BY <3>1, WordType, LowIs
  <2>8. Word(l, k) < Word(r, k) => Low(l)[k] < Low(r)[k]
    <3> HIDE DEF k
    <3> QED
      BY <2>2, LowOrder
  <2>9. Word(r, k) < Word(l, k) => Low(r)[k] < Low(l)[k]
    <3> HIDE DEF k
    <3> QED
      BY <2>2, LowOrder
  <2> HIDE DEF size, n, k
  <2> QED
    BY <1>1, <2>1, <2>2, <2>3, <2>5, <2>6, <2>7, <2>8, <2>9 DEF k
<1>5. CompareMagnitudes(l, r) =
        IF size > Significant(r) THEN 1
        ELSE IF size < Significant(r) THEN -1
        ELSE IF differ = {} THEN 0
        ELSE IF l[Max(differ)] < Word(r, Max(differ)) THEN -1
        ELSE 1
  <2>1. differ # {} /\ size = Significant(r) => r[Max(differ)] = Word(r, Max(differ))
    <3> SUFFICES ASSUME differ # {}, size = Significant(r)
                 PROVE  r[Max(differ)] = Word(r, Max(differ))
      OBVIOUS
    <3>1. Max(differ) \in differ
      BY <1>4
    <3>2. Significant(r) <= Len(r) /\ Len(r) \in Nat
      BY SignificantFacts, LenProperties DEF Mags
    <3>3. Max(differ) \in 1 .. Significant(r)
      BY <3>1
    <3> HIDE DEF differ
    <3> QED
      BY <1>1, <3>2, <3>3 DEF Word
  <2>2. CompareMagnitudes(l, r) =
          IF size > Significant(r) THEN 1
          ELSE IF size < Significant(r) THEN -1
          ELSE IF differ = {} THEN 0
          ELSE IF l[Max(differ)] < r[Max(differ)] THEN -1
          ELSE 1
    BY Zenon DEF CompareMagnitudes
  <2> HIDE DEF differ
  <2> QED
    BY <1>1, <2>1, <2>2
<1>6. /\ size > Significant(r) => Absolute(l) > Absolute(r)
      /\ size < Significant(r) => Absolute(r) > Absolute(l)
  BY <1>2
<1> HIDE DEF size, differ
<1> QED
  BY <1>1, <1>3, <1>4, <1>5, <1>6

-----------------------------------------------------------------------------
(* Magnitudes as sequences.                                                *)

LEMMA AsMag ==
    ASSUME NEW n \in Nat, NEW f \in [1 .. n -> Words]
    PROVE  /\ f \in Mags /\ Len(f) = n
           /\ \A i \in Nat : Word(f, i) = IF i <= n THEN f[i] ELSE 0
<1>1. f \in Mags
  BY SeqDef DEF Mags
<1>2. Len(f) = n
  <2>1. DOMAIN f = 1 .. n /\ DOMAIN f = 1 .. Len(f) /\ Len(f) \in Nat
    BY <1>1, LenProperties DEF Mags
  <2> QED
    BY <2>1
<1> QED
  BY <1>1, <1>2 DEF Word

LEMMA MagIs ==
    ASSUME NEW m \in Mags
    PROVE  /\ Len(m) \in Nat /\ DOMAIN m = 1 .. Len(m) /\ m \in [1 .. Len(m) -> Words]
           /\ \A i \in 1 .. Len(m) : m[i] \in Words /\ Word(m, i) = m[i]
BY LenProperties DEF Mags, Word

LEMMA SameWords ==
    ASSUME NEW l \in Mags, NEW m \in Mags, \A i \in Nat \ {0} : Word(l, i) = Word(m, i)
    PROVE  Absolute(l) = Absolute(m) /\ \A n \in Nat : Low(l)[n] = Low(m)[n]
<1>1. \A n \in Nat : Low(l)[n] = Low(m)[n]
  <2> SUFFICES ASSUME NEW n \in Nat PROVE Low(l)[n] = Low(m)[n]
    OBVIOUS
  <2>1. Low(l)[n] - Low(m)[n] = Low(l)[0] - Low(m)[0]
    <3>1. \A i \in 0 + 1 .. n : Word(l, i) = Word(m, i)
      OBVIOUS
    <3>2. 0 \in Nat /\ 0 <= n
      OBVIOUS
    <3> QED
      BY <3>1, <3>2, LowSame
  <2>2. Low(l)[0] = 0 /\ Low(m)[0] = 0 /\ Low(l)[n] \in Nat /\ Low(m)[n] \in Nat
    BY LowIs
  <2> QED
    BY <2>1, <2>2
<1> DEFINE n == Len(l) + Len(m)
<1>2. n \in Nat /\ n >= Len(l) /\ n >= Len(m)
  BY MagIs
<1>3. Low(l)[n] = Absolute(l) /\ Low(m)[n] = Absolute(m)
  <2> HIDE DEF n
  <2> QED
    BY <1>2, AbsoluteFacts
<1> QED
  BY <1>1, <1>2, <1>3

LEMMA SignificantIs ==
    ASSUME NEW m \in Mags, NEW s \in Nat, s > 0 => Word(m, s) # 0,
           \A i \in Nat : i > s => Word(m, i) = 0
    PROVE  Significant(m) = s
<1>1. Significant(m) \in Nat
  BY SignificantFacts, MagIs
<1>2. ~ (Significant(m) > s)
  <2> SUFFICES ASSUME Significant(m) > s PROVE FALSE
    OBVIOUS
  <2>1. Word(m, Significant(m)) > 0 /\ Word(m, Significant(m)) = 0
    BY <1>1, SignificantFacts
  <2> QED
    BY <2>1
<1>3. ~ (s > Significant(m))
  BY SignificantFacts
<1> QED
  BY <1>1, <1>2, <1>3

\* What is worth more has at least as many significant words.
LEMMA SignificantOrder ==
    ASSUME NEW l \in Mags, NEW m \in Mags, Absolute(l) <= Absolute(m)
    PROVE  Significant(l) <= Significant(m)
<1> SUFFICES ASSUME Significant(l) > Significant(m) PROVE FALSE
  BY SignificantFacts, MagIs
<1>1. Significant(l) \in Nat /\ Significant(m) \in Nat /\ Significant(l) - 1 \in Nat
  BY SignificantFacts, MagIs
<1>2. Place(Significant(m)) <= Place(Significant(l) - 1)
  BY <1>1, PlaceOrder
<1>3. Absolute(m) < Place(Significant(m)) /\ Place(Significant(l) - 1) <= Absolute(l)
  BY <1>1, SignificantBounds
<1>4. Place(Significant(m)) \in Nat /\ Place(Significant(l) - 1) \in Nat
  BY <1>1, PlaceFacts
<1> QED
  BY <1>2, <1>3, <1>4, AbsoluteFacts

LEMMA TrimmedIs ==
    ASSUME NEW m \in Mags
    PROVE  /\ Trimmed(m) \in Mags
           /\ Len(Trimmed(m)) <= Len(m)
           /\ Len(m) > 0 => Len(Trimmed(m)) > 0
           /\ Len(Trimmed(m)) > 1 => Len(Trimmed(m)) = Significant(m)
           /\ \A i \in Nat \ {0} : Word(Trimmed(m), i) = Word(m, i)
<1> DEFINE t == Max({1, Significant(m)})
           k == Min({Len(m), t})
           T == SubSeq(m, 1, k)
<1>1. Len(m) \in Nat /\ Significant(m) \in 0 .. Len(m) /\ Significant(m) \in Nat
  BY MagIs, SignificantFacts
<1>2. t = IF 1 < Significant(m) THEN Significant(m) ELSE 1
  BY <1>1, MaxTwo
<1>3. k = IF Len(m) < t THEN Len(m) ELSE t
  <2>1. t \in Nat
    BY <1>1, <1>2
  <2> HIDE DEF t
  <2> QED
    BY <1>1, <2>1, MinTwo
<1> HIDE DEF t, k
<1>4. k \in Nat /\ k <= Len(m) /\ (Len(m) > 0 => k > 0) /\ (k > 1 => k = Significant(m))
      /\ (k < Len(m) => Significant(m) <= k)
  BY <1>1, <1>2, <1>3
<1>5. \A i \in 1 .. k : m[i] \in Words /\ m[i] = Word(m, i)
  BY <1>4, MagIs
<1>6. T \in Mags /\ Len(T) = k /\ \A i \in 1 .. k : T[i] = m[i]
  BY <1>4, <1>5, SubSeqProperties DEF Mags
<1>7. Trimmed(m) = T
  BY Zenon DEF Trimmed, t, k
<1> HIDE DEF T
<1>8. \A i \in Nat \ {0} : Word(T, i) = Word(m, i)
  <2> SUFFICES ASSUME NEW i \in Nat \ {0} PROVE Word(T, i) = Word(m, i)
    OBVIOUS
  <2>1. CASE i <= k
    BY <1>5, <1>6, <2>1 DEF Word
  <2>2. CASE i > k
    <3>1. Word(T, i) = 0
      BY <1>4, <1>6, <2>2 DEF Word
    <3>2. Word(m, i) = 0
      <4>1. CASE k = Len(m)
        BY <1>1, <2>2, <4>1 DEF Word
      <4>2. CASE k < Len(m)
        <5>1. i > Significant(m) /\ i \in Nat
          BY <1>1, <1>4, <2>2, <4>2
        <5> QED
          BY <5>1, SignificantFacts
      <4> QED
        BY <1>1, <1>4, <4>1, <4>2
    <3> QED
      BY <3>1, <3>2
  <2> QED
    BY <1>4, <2>1, <2>2
<1> QED
  BY <1>4, <1>6, <1>7, <1>8

\* Trimming leaves a value as it is, and without leading zeros.
LEMMA TrimmedSame ==
    ASSUME NEW m \in Mags
    PROVE  /\ Absolute(Trimmed(m)) = Absolute(m)
           /\ Significant(Trimmed(m)) = Significant(m)
           /\ Len(Trimmed(m)) <= 1 \/ Len(Trimmed(m)) = Significant(Trimmed(m))
<1>1. Trimmed(m) \in Mags /\ \A i \in Nat \ {0} : Word(Trimmed(m), i) = Word(m, i)
  BY TrimmedIs
<1>2. Absolute(Trimmed(m)) = Absolute(m)
  BY <1>1, SameWords
<1>3. Significant(Trimmed(m)) = Significant(m)
  <2>1. Significant(m) \in Nat
    BY SignificantFacts, MagIs
  <2>2. Significant(m) > 0 => Word(Trimmed(m), Significant(m)) # 0
    BY <1>1, <2>1, SignificantFacts
  <2>3. \A i \in Nat : i > Significant(m) => Word(Trimmed(m), i) = 0
    BY <1>1, <2>1, SignificantFacts
  <2> QED
    BY <1>1, <2>1, <2>2, <2>3, SignificantIs
<1>4. Len(Trimmed(m)) \in Nat
  BY <1>1, MagIs
<1> QED
  BY <1>2, <1>3, <1>4, TrimmedIs

-----------------------------------------------------------------------------
(* Adding magnitudes.                                                      *)

LEMMA ModOnce ==
    ASSUME NEW s \in Int, s >= 0, s < 2 * Base
    PROVE  s % Base = IF s < Base THEN s ELSE s - Base
<1>1. Base \in Nat \ {0}
  BY BaseFacts
<1>2. CASE s < Base
  <2>1. s \in 0 .. Base - 1 /\ 0 * Base + s = s
    BY <1>1, <1>2
  <2> QED
    BY <1>1, <1>2, <2>1, DivisionIs
<1>3. CASE s >= Base
  <2>1. s - Base \in 0 .. Base - 1 /\ 1 * Base + (s - Base) = s
    BY <1>1, <1>3
  <2>2. (1 * Base + (s - Base)) % Base = s - Base
    BY <1>1, <2>1, DivisionIs
  <2> QED
    BY <1>1, <1>3, <2>1, <2>2
<1> QED
  BY <1>1, <1>2, <1>3

Carry == {0, 1}

LEMMA CarryIs ==
    ASSUME NEW a \in Words, NEW b \in Words, NEW c \in Carry
    PROVE  /\ WordSum(a, b, c) \in Words /\ CarryOut(a, b, c) \in Carry
           /\ a + b + c = WordSum(a, b, c) + CarryOut(a, b, c) * Base
<1>1. Base \in Nat /\ Base >= 2 /\ a \in 0 .. Base - 1 /\ b \in 0 .. Base - 1
  BY BaseFacts DEF Words
<1> DEFINE u == (a + b) % Base
           v == (a + b + c) % Base
           w == (u + c) % Base
<1>2. u = IF a + b < Base THEN a + b ELSE a + b - Base
  BY <1>1, ModOnce
<1>3. v = IF a + b + c < Base THEN a + b + c ELSE a + b + c - Base
  BY <1>1, ModOnce DEF Carry
<1>4. w = IF u + c < Base THEN u + c ELSE u + c - Base
  <2>1. u \in 0 .. Base - 1
    BY <1>1, <1>2
  <2> HIDE DEF u
  <2> QED
    BY <1>1, <2>1, ModOnce DEF Carry
<1>5. WordSum(a, b, c) = v
  BY DEF WordSum
<1>6. CarryOut(a, b, c) = IF u < a \/ u < b \/ w < u THEN 1 ELSE 0
  BY DEF CarryOut
<1> HIDE DEF u, v, w
<1>7. CarryOut(a, b, c) = IF a + b + c < Base THEN 0 ELSE 1
  BY <1>1, <1>2, <1>4, <1>6 DEF Carry
<1> QED
  BY <1>1, <1>3, <1>5, <1>7 DEF Carry, Words

LEMMA CarriesIs ==
    ASSUME NEW a \in Mags, NEW b \in Mags
    PROVE  /\ Carries(a, b) \in [0 .. MaxSize(a, b) -> Carry]
           /\ Carries(a, b)[0] = 0
           /\ \A i \in 1 .. MaxSize(a, b) :
                 Carries(a, b)[i] = CarryOut(Word(a, i), Word(b, i), Carries(a, b)[i - 1])
<1> DEFINE N == 0 .. MaxSize(a, b)
           F == Carries(a, b)
           Is(f) == f = [i \in N |-> IF i = 0 THEN 0
                                     ELSE CarryOut(Word(a, i), Word(b, i), f[i - 1])]
           step == [p \in N \X Carry |-> IF p[1] = 0 THEN 0
                                         ELSE CarryOut(Word(a, p[1]), Word(b, p[1]), p[2])]
<1>0. MaxSize(a, b) \in Nat
  BY MagIs DEF MaxSize
<1>1. \A i \in N \ {0}, c \in Carry : CarryOut(Word(a, i), Word(b, i), c) \in Carry
  <2> SUFFICES ASSUME NEW i \in N \ {0}, NEW c \in Carry
               PROVE  CarryOut(Word(a, i), Word(b, i), c) \in Carry
    OBVIOUS
  <2>1. i \in Nat \ {0}
    BY <1>0
  <2> QED
    BY <2>1, WordType, CarryIs
<1>2. PICK f \in [N -> Carry] : \A i \in N : f[i] = IF i = 0 THEN 0 ELSE step[<<i, f[i - 1]>>]
  <2>1. step \in [N \X Carry -> Carry]
    BY <1>1 DEF Carry
  <2> HIDE DEF step
  <2>2. Counts(Carry, N, 0, step)
    BY <1>0, <2>1 DEF Counts, Carry
  <2> HIDE DEF N
  <2> QED
    BY <2>2, Counting
<1>3. \A i \in N : f[i] = IF i = 0 THEN 0 ELSE CarryOut(Word(a, i), Word(b, i), f[i - 1])
  <2> SUFFICES ASSUME NEW i \in N, i # 0
               PROVE  f[i] = CarryOut(Word(a, i), Word(b, i), f[i - 1])
    BY <1>2
  <2>1. i - 1 \in N /\ f[i - 1] \in Carry
    BY <1>0
  <2>2. <<i, f[i - 1]>> \in N \X Carry /\ f[i] = step[<<i, f[i - 1]>>]
    BY <1>2, <2>1
  <2> QED
    BY <2>2
<1>4. Is(f)
  <2>1. f = [i \in N |-> f[i]]
    OBVIOUS
  <2> QED
    BY <1>3, <2>1
<1>5. F = CHOOSE g : Is(g)
  BY DEF Carries
<1>6. Is(F)
  <2> HIDE DEF Is, F
  <2> QED
    BY <1>4, <1>5
<1> HIDE DEF F
<1>7. F = [i \in N |-> F[i]] /\ F[0] = 0
      /\ \A i \in N \ {0} : F[i] = CarryOut(Word(a, i), Word(b, i), F[i - 1])
  <2>1. 0 \in N
    BY <1>0
  <2> HIDE DEF N
  <2> QED
    BY <1>6, <2>1
<1> DEFINE S == {n \in Nat : n \in N => F[n] \in Carry}
<1>8. \A n \in Nat : n \in S
  <2>1. 0 \in S
    BY <1>7 DEF Carry
  <2>2. ASSUME NEW n \in Nat, n \in S PROVE n + 1 \in S
    <3> SUFFICES ASSUME n + 1 \in N PROVE F[n + 1] \in Carry
      OBVIOUS
    <3>1. n \in N /\ n + 1 \in N \ {0} /\ (n + 1) - 1 = n
      BY <1>0
    <3>2. F[n] \in Carry
      BY <2>2, <3>1
    <3>3. F[n + 1] = CarryOut(Word(a, n + 1), Word(b, n + 1), F[n])
      <4> HIDE DEF N
      <4> QED
        BY <1>7, <3>1
    <3> HIDE DEF N
    <3> QED
      BY <1>1, <3>1, <3>2, <3>3
  <2> HIDE DEF S
  <2> QED
    BY <2>1, <2>2, AllNumbers
<1>9. F \in [N -> Carry]
  <2>1. \A i \in N : F[i] \in Carry
    BY <1>0, <1>8
  <2> HIDE DEF N
  <2> QED
    BY <1>7, <2>1
<1>10. 1 .. MaxSize(a, b) = N \ {0}
  BY <1>0
<1> HIDE DEF N
<1>11. \A i \in 1 .. MaxSize(a, b) : F[i] = CarryOut(Word(a, i), Word(b, i), F[i - 1])
  BY <1>7, <1>10
<1> QED
  BY <1>7, <1>9, <1>11 DEF N, F

LEMMA AddedWords ==
    ASSUME NEW a \in Mags, NEW b \in Mags
    PROVE  LET size == MaxSize(a, b)
               c == Carries(a, b)
           IN  /\ AddedMagnitudes(a, b) \in Mags
               /\ Len(AddedMagnitudes(a, b)) = size + c[size]
               /\ \A i \in 1 .. size :
                     Word(AddedMagnitudes(a, b), i) = WordSum(Word(a, i), Word(b, i), c[i - 1])
               /\ Word(AddedMagnitudes(a, b), size + 1) = c[size]
<1> DEFINE size == MaxSize(a, b)
           c == Carries(a, b)
           S == AddedMagnitudes(a, b)
           f == [i \in 1 .. size |-> WordSum(Word(a, i), Word(b, i), c[i - 1])]
           t == IF c[size] > 0 THEN <<1>> ELSE <<>>
<1>1. size \in Nat
  BY MagIs DEF MaxSize
<1>2. c \in [0 .. size -> Carry]
  BY CarriesIs
<1>3. f \in [1 .. size -> Words]
  <2> SUFFICES ASSUME NEW i \in 1 .. size PROVE WordSum(Word(a, i), Word(b, i), c[i - 1]) \in Words
    OBVIOUS
  <2>1. i \in Nat \ {0} /\ i - 1 \in 0 .. size
    BY <1>1
  <2>2. c[i - 1] \in Carry /\ Word(a, i) \in Words /\ Word(b, i) \in Words
    <3> HIDE DEF c, size
    <3> QED
      BY <1>2, <2>1, WordType
  <2> HIDE DEF c
  <2> QED
    BY <2>2, CarryIs
<1>4. S = f \o t
  BY Zenon DEF AddedMagnitudes
<1>5. c[size] \in Carry
  <2> HIDE DEF c, size
  <2> QED
    BY <1>1, <1>2
<1>6. t \in Mags /\ Len(t) = c[size] /\ (c[size] = 1 => t[1] = 1)
  <2>1. <<1>> \in Mags /\ Len(<<1>>) = 1 /\ <<1>>[1] = 1
    <3>1. 1 \in Words
      BY BaseFacts DEF Words
    <3> QED
      BY <3>1 DEF Mags
  <2> HIDE DEF c, size
  <2> QED
    BY <1>5, <2>1, EmptyMag DEF Carry
<1> HIDE DEF size, c, f, t, S
<1>7. f \in Mags /\ Len(f) = size
  BY <1>1, <1>3, AsMag
<1>8. /\ S \in Mags /\ Len(S) = size + c[size]
      /\ \A i \in 1 .. size + c[size] : S[i] = IF i <= size THEN f[i] ELSE t[i - size]
  <2>1. f \in Seq(Words) /\ t \in Seq(Words)
    BY <1>6, <1>7 DEF Mags
  <2>2. /\ f \o t \in Seq(Words) /\ Len(f \o t) = Len(f) + Len(t)
        /\ \A i \in 1 .. Len(f) + Len(t) : (f \o t)[i] = IF i <= Len(f) THEN f[i] ELSE t[i - Len(f)]
    BY <2>1, ConcatProperties
  <2> QED
    BY <1>4, <1>6, <1>7, <2>2 DEF Mags
<1>9. \A i \in 1 .. size : Word(S, i) = f[i]
  BY <1>1, <1>5, <1>8 DEF Word, Carry
<1>10. Word(S, size + 1) = c[size]
  <2>1. CASE c[size] = 0
    BY <1>1, <1>8, <2>1 DEF Word
  <2>2. CASE c[size] = 1
    <3>1. S[size + 1] = t[(size + 1) - size] /\ (size + 1) - size = 1
      BY <1>1, <1>8, <2>2
    <3> QED
      BY <1>1, <1>6, <1>8, <2>2, <3>1 DEF Word
  <2> QED
    BY <1>5, <2>1, <2>2 DEF Carry
<1>11. \A i \in 1 .. size : f[i] = WordSum(Word(a, i), Word(b, i), c[i - 1])
  BY DEF f
<1> QED
  BY <1>8, <1>9, <1>10, <1>11 DEF size, c, S

\* After every word of the loop: what has been added is in the words of the
\* result and in the carry.
LEMMA AddedLow ==
    ASSUME NEW a \in Mags, NEW b \in Mags
    PROVE  \A i \in 0 .. MaxSize(a, b) :
              Low(a)[i] + Low(b)[i] =
                Low(AddedMagnitudes(a, b))[i] + Carries(a, b)[i] * Place(i)
<1> DEFINE size == MaxSize(a, b)
           c == Carries(a, b)
           S == AddedMagnitudes(a, b)
           Ok(i) == Low(a)[i] + Low(b)[i] = Low(S)[i] + c[i] * Place(i)
           N == {i \in Nat : i <= size => Ok(i)}
<1>1. size \in Nat /\ S \in Mags /\ c \in [0 .. size -> Carry] /\ c[0] = 0
  BY MagIs, AddedWords, CarriesIs DEF MaxSize
<1>2. \A i \in 1 .. size : /\ c[i] = CarryOut(Word(a, i), Word(b, i), c[i - 1])
                           /\ Word(S, i) = WordSum(Word(a, i), Word(b, i), c[i - 1])
  BY AddedWords, CarriesIs
<1>3. 0 \in N
  <2>1. Low(a)[0] = 0 /\ Low(b)[0] = 0 /\ Low(S)[0] = 0
    <3> HIDE DEF S
    <3> QED
      BY <1>1, LowIs
  <2>2. 0 * Place(0) = 0
    BY PlaceFacts
  <2> HIDE DEF c, S
  <2> QED
    BY <1>1, <2>1, <2>2
<1> HIDE DEF c, S, size
<1>4. ASSUME NEW n \in Nat, n \in N PROVE n + 1 \in N
  <2> SUFFICES ASSUME n + 1 <= size PROVE Ok(n + 1)
    OBVIOUS
  <2> DEFINE u == Word(a, n + 1)
             v == Word(b, n + 1)
             w == Word(S, n + 1)
             d == c[n]
             e == c[n + 1]
             P == Place(n)
  <2>1. Low(a)[n] + Low(b)[n] = Low(S)[n] + d * P
    BY <1>1, <1>4
  <2>2. n + 1 \in 1 .. size /\ (n + 1) - 1 = n /\ n \in 0 .. size /\ n + 1 \in Nat \ {0}
    BY <1>1
  <2>3. u \in Words /\ v \in Words /\ d \in Carry /\ w \in Nat /\ u \in Nat /\ v \in Nat
    BY <1>1, <2>2, WordType
  <2>4. e = CarryOut(u, v, d) /\ w = WordSum(u, v, d)
    BY <1>2, <2>2
  <2>5. u + v + d = w + e * Base /\ e \in Carry
    <3> HIDE DEF u, v, d, w, e
    <3> QED
      BY <2>3, <2>4, CarryIs
  <2>6. /\ Low(a)[n + 1] = Low(a)[n] + u * P
        /\ Low(b)[n + 1] = Low(b)[n] + v * P
        /\ Low(S)[n + 1] = Low(S)[n] + w * P
        /\ Low(a)[n] \in Nat /\ Low(b)[n] \in Nat /\ Low(S)[n] \in Nat
    BY <1>1, LowIs
  <2>7. P \in Nat /\ Place(n + 1) = Base * P /\ Base \in Nat
    BY PlaceFacts, BaseFacts
  <2> HIDE DEF u, v, w, d, e, P
  <2>8. u * P + v * P + d * P = w * P + e * (Base * P)
    <3>1. d \in Int /\ e \in Int /\ u \in Int /\ v \in Int /\ w \in Int /\ P \in Int /\ Base \in Int
          /\ e * Base \in Int
      BY <2>3, <2>5, <2>7 DEF Carry
    <3>2. (u + v + d) * P = u * P + v * P + d * P
      BY <3>1
    <3>3. (w + e * Base) * P = w * P + (e * Base) * P
      BY <3>1, TimesAdd
    <3>4. (e * Base) * P = e * (Base * P)
      BY <3>1, TimesTimes
    <3> QED
      BY <2>5, <3>2, <3>3, <3>4
  <2> DEFINE up == u * P
             vp == v * P
             wp == w * P
             dp == d * P
             ep == e * Place(n + 1)
  <2>9. up \in Int /\ vp \in Int /\ wp \in Int /\ dp \in Int /\ ep \in Int
    <3>1. d \in Nat /\ e \in Nat /\ Place(n + 1) \in Nat
      BY <2>3, <2>5, <2>7, PlaceFacts DEF Carry
    <3> QED
      BY <2>3, <2>7, <3>1
  <2>10. up + vp + dp = wp + ep
    BY <2>7, <2>8
  <2>11. /\ Low(a)[n + 1] = Low(a)[n] + up /\ Low(b)[n + 1] = Low(b)[n] + vp
         /\ Low(S)[n + 1] = Low(S)[n] + wp /\ Low(a)[n] + Low(b)[n] = Low(S)[n] + dp
    BY <2>1, <2>6
  <2>12. Low(a)[n + 1] + Low(b)[n + 1] = Low(S)[n + 1] + ep
    <3> HIDE DEF up, vp, wp, dp, ep
    <3> QED
      BY <2>6, <2>9, <2>10, <2>11
  <2> QED
    BY <2>12 DEF e
<1>5. \A n \in Nat : n \in N
  <2> HIDE DEF N
  <2> QED
    BY <1>3, <1>4, AllNumbers
<1>6. \A i \in 0 .. size : Ok(i)
  BY <1>1, <1>5
<1> QED
  BY <1>6 DEF size, c, S

\* Sums of magnitudes are exact, and get no leading zeros.
LEMMA AddedIs ==
    ASSUME NEW a \in Mags, NEW b \in Mags
    PROVE  /\ AddedMagnitudes(a, b) \in Mags
           /\ Absolute(AddedMagnitudes(a, b)) = Absolute(a) + Absolute(b)
           /\ LET m == AddedMagnitudes(a, b)
              IN  \/ Significant(m) = Len(m)
                  \/ Len(m) = Len(a) /\ Significant(m) >= Significant(a)
                  \/ Len(m) = Len(b) /\ Significant(m) >= Significant(b)
<1> DEFINE size == MaxSize(a, b)
           k == Carries(a, b)[size]
           S == AddedMagnitudes(a, b)
<1>1. /\ size \in Nat /\ S \in Mags /\ k \in Carry /\ Len(S) = size + k
      /\ Word(S, size + 1) = k
      /\ size >= Len(a) /\ size >= Len(b) /\ (size = Len(a) \/ size = Len(b))
  <2>1. size \in Nat /\ size >= Len(a) /\ size >= Len(b) /\ (size = Len(a) \/ size = Len(b))
    BY MagIs DEF MaxSize
  <2>2. k \in Carry
    BY <2>1, CarriesIs
  <2> QED
    BY <2>1, <2>2, AddedWords
<1>2. Low(a)[size] + Low(b)[size] = Low(S)[size] + k * Place(size)
  BY <1>1, AddedLow
<1> HIDE DEF size, k, S
<1>3. Low(a)[size] = Absolute(a) /\ Low(b)[size] = Absolute(b)
  BY <1>1, AbsoluteFacts
<1>4. Low(S)[size + 1] = Low(S)[size] + k * Place(size)
  BY <1>1, LowIs
<1>5. Low(S)[size + 1] = Absolute(S)
  <2>1. size + 1 >= Len(S) /\ size + 1 \in Nat
    BY <1>1 DEF Carry
  <2> QED
    BY <1>1, <2>1, AbsoluteFacts
<1>6. Absolute(S) = Absolute(a) + Absolute(b)
  BY <1>2, <1>3, <1>4, <1>5
<1>7. \/ Significant(S) = Len(S)
      \/ Len(S) = Len(a) /\ Significant(S) >= Significant(a)
      \/ Len(S) = Len(b) /\ Significant(S) >= Significant(b)
  <2>1. CASE k = 1
    <3>1. Significant(S) \in 0 .. Len(S) /\ Len(S) = size + 1
      BY <1>1, <2>1, SignificantFacts
    <3>2. ~ (size + 1 > Significant(S))
      <4>1. size + 1 \in Nat /\ Word(S, size + 1) # 0
        BY <1>1, <2>1
      <4> QED
        BY <1>1, <4>1, SignificantFacts
    <3> QED
      BY <1>1, <3>1, <3>2
  <2>2. CASE k = 0
    <3>1. Len(S) = size
      BY <1>1, <2>2
    <3>2. Absolute(a) <= Absolute(S) /\ Absolute(b) <= Absolute(S)
      BY <1>6, AbsoluteFacts
    <3>3. Significant(a) <= Significant(S) /\ Significant(b) <= Significant(S)
      BY <1>1, <3>2, SignificantOrder
    <3>4. Significant(a) \in Int /\ Significant(b) \in Int /\ Significant(S) \in Int
      BY <1>1, SignificantFacts
    <3> QED
      BY <1>1, <3>1, <3>3, <3>4
  <2> QED
    BY <1>1, <2>1, <2>2 DEF Carry
<1> QED
  BY <1>1, <1>6, <1>7 DEF S

-----------------------------------------------------------------------------
(* Subtracting magnitudes.                                                 *)

LEMMA BorrowIs ==
    ASSUME NEW a \in Words, NEW b \in Words, NEW c \in Carry, ~ (c = 1 /\ b = Base - 1)
    PROVE  /\ (a - b - c) % Base \in Words
           /\ Enough(a, b, c) => a - b - c = (a - b - c) % Base
           /\ ~ Enough(a, b, c) => a - b - c = ((a - b - c) % Base) - Base
<1>1. Base \in Nat \ {0} /\ Base >= 2 /\ a \in 0 .. Base - 1 /\ b \in 0 .. Base - 1
  BY BaseFacts DEF Words
<1>2. (b + c) % Base = b + c
  BY <1>1, ModOnce DEF Carry
<1>3. Enough(a, b, c) <=> a >= b + c
  BY <1>2 DEF Enough
<1> DEFINE d == a - b - c
<1>4. d \in Int /\ -Base <= d /\ d < Base
  BY <1>1 DEF Carry
<1>5. CASE a >= b + c
  <2>1. d >= 0
    BY <1>1, <1>5 DEF Carry
  <2>2. d % Base = d
    <3> HIDE DEF d
    <3> QED
      BY <1>1, <1>4, <2>1, ModOnce
  <2> HIDE DEF d
  <2>3. Enough(a, b, c) /\ d \in Words
    BY <1>1, <1>3, <1>4, <1>5, <2>1 DEF Words
  <2> QED
    BY <2>2, <2>3 DEF d
<1>6. CASE ~ (a >= b + c)
  <2>1. d < 0
    BY <1>1, <1>6 DEF Carry
  <2> DEFINE r == d + Base
  <2>2. r \in 0 .. Base - 1 /\ (-1) * Base + r = d /\ -1 \in Int
    BY <1>1, <1>4, <2>1
  <2>3. ((-1) * Base + r) % Base = r
    <3> HIDE DEF r, d
    <3> QED
      BY <1>1, <2>2, DivisionIs
  <2>4. d % Base = r /\ r = d + Base
    BY <2>2, <2>3
  <2>5. ~ Enough(a, b, c) /\ r \in Words /\ r - Base = d
    BY <1>1, <1>3, <1>4, <1>6, <2>2 DEF Words
  <2> HIDE DEF r
  <2> QED
    BY <2>4, <2>5 DEF d
<1> QED
  BY <1>5, <1>6

LEMMA BorrowsIs ==
    ASSUME NEW l \in Mags, NEW s \in Mags
    PROVE  /\ Borrows(l, s) \in [0 .. Len(l) -> Carry]
           /\ Borrows(l, s)[0] = 0
           /\ \A i \in 1 .. Len(l) :
                 Borrows(l, s)[i] = IF Enough(l[i], Word(s, i), Borrows(l, s)[i - 1]) THEN 0 ELSE 1
<1> DEFINE N == 0 .. Len(l)
           F == Borrows(l, s)
           Is(f) == f = [i \in N |-> IF i = 0 THEN 0
                                     ELSE IF Enough(l[i], Word(s, i), f[i - 1]) THEN 0 ELSE 1]
           step == [p \in N \X Carry |-> IF Enough(l[p[1]], Word(s, p[1]), p[2]) THEN 0 ELSE 1]
<1>0. Len(l) \in Nat
  BY MagIs
<1>2. PICK f \in [N -> Carry] : \A i \in N : f[i] = IF i = 0 THEN 0 ELSE step[<<i, f[i - 1]>>]
  <2>1. step \in [N \X Carry -> Carry]
    BY DEF Carry
  <2> HIDE DEF step
  <2>2. Counts(Carry, N, 0, step)
    BY <1>0, <2>1 DEF Counts, Carry
  <2> HIDE DEF N
  <2> QED
    BY <2>2, Counting
<1>3. \A i \in N : f[i] = IF i = 0 THEN 0 ELSE IF Enough(l[i], Word(s, i), f[i - 1]) THEN 0 ELSE 1
  <2> SUFFICES ASSUME NEW i \in N, i # 0
               PROVE  f[i] = IF Enough(l[i], Word(s, i), f[i - 1]) THEN 0 ELSE 1
    BY <1>2
  <2>1. i - 1 \in N /\ f[i - 1] \in Carry
    BY <1>0
  <2>2. <<i, f[i - 1]>> \in N \X Carry /\ f[i] = step[<<i, f[i - 1]>>]
    BY <1>2, <2>1
  <2> QED
    BY <2>2
<1>4. Is(f)
  <2>1. f = [i \in N |-> f[i]]
    OBVIOUS
  <2> QED
    BY <1>3, <2>1
<1>5. F = CHOOSE g : Is(g)
  BY DEF Borrows
<1>6. Is(F)
  <2> HIDE DEF Is, F
  <2> QED
    BY <1>4, <1>5
<1> HIDE DEF F
<1>7. F = [i \in N |-> F[i]] /\ F[0] = 0
      /\ \A i \in N \ {0} : F[i] = IF Enough(l[i], Word(s, i), F[i - 1]) THEN 0 ELSE 1
  <2>1. 0 \in N
    BY <1>0
  <2> HIDE DEF N
  <2> QED
    BY <1>6, <2>1
<1>8. F \in [N -> Carry]
  <2>1. \A i \in N : F[i] \in Carry
    BY <1>7 DEF Carry
  <2> HIDE DEF N
  <2> QED
    BY <1>7, <2>1
<1>9. 1 .. Len(l) = N \ {0}
  BY <1>0
<1> HIDE DEF N
<1>10. \A i \in 1 .. Len(l) : F[i] = IF Enough(l[i], Word(s, i), F[i - 1]) THEN 0 ELSE 1
  BY <1>7, <1>9
<1> QED
  BY <1>7, <1>8, <1>10 DEF N, F

\* The words that the loop of operator- makes.
SubtractedWords(l, s) ==
    [i \in DOMAIN l |-> (l[i] - Word(s, i) - Borrows(l, s)[i - 1]) % Base]

LEMMA SubtractedWordsAre ==
    ASSUME NEW l \in Mags, NEW s \in Mags
    PROVE  /\ SubtractedWords(l, s) \in Mags /\ Len(SubtractedWords(l, s)) = Len(l)
           /\ \A i \in 1 .. Len(l) :
                 Word(SubtractedWords(l, s), i) = (l[i] - Word(s, i) - Borrows(l, s)[i - 1]) % Base
<1> DEFINE D == SubtractedWords(l, s)
<1>1. Len(l) \in Nat /\ DOMAIN l = 1 .. Len(l)
  BY MagIs
<1>2. \A i \in 1 .. Len(l) : (l[i] - Word(s, i) - Borrows(l, s)[i - 1]) % Base \in Words
  <2> SUFFICES ASSUME NEW i \in 1 .. Len(l)
               PROVE  (l[i] - Word(s, i) - Borrows(l, s)[i - 1]) % Base \in Words
    OBVIOUS
  <2>1. i \in Nat \ {0} /\ i - 1 \in 0 .. Len(l)
    BY <1>1
  <2>2. l[i] \in Words /\ Word(s, i) \in Words /\ Borrows(l, s)[i - 1] \in Carry
    <3>1. l[i] \in Words
      BY MagIs
    <3>2. Word(s, i) \in Words
      BY <2>1, WordType
    <3>3. Borrows(l, s)[i - 1] \in Carry
      <4>1. Borrows(l, s) \in [0 .. Len(l) -> Carry]
        BY BorrowsIs
      <4> DEFINE B == Borrows(l, s)
      <4> HIDE DEF B
      <4>2. \A j \in 0 .. Len(l) : B[j] \in Carry
        BY <4>1 DEF B
      <4> QED
        BY <2>1, <4>2 DEF B
    <3> QED
      BY <3>1, <3>2, <3>3
  <2>3. Base \in Nat \ {0}
    BY BaseFacts
  <2> DEFINE d == l[i] - Word(s, i) - Borrows(l, s)[i - 1]
  <2>4. d \in Int
    BY <2>2, <2>3 DEF Words, Carry
  <2> HIDE DEF d
  <2>5. d % Base \in 0 .. Base - 1
    BY <2>3, <2>4, Division
  <2> QED
    BY <2>5 DEF d, Words
<1>3. D \in [1 .. Len(l) -> Words]
  BY <1>1, <1>2 DEF SubtractedWords
<1>4. \A i \in 1 .. Len(l) : D[i] = (l[i] - Word(s, i) - Borrows(l, s)[i - 1]) % Base
  BY <1>1 DEF SubtractedWords
<1> HIDE DEF D
<1>5. D \in Mags /\ Len(D) = Len(l) /\ \A i \in 1 .. Len(l) : Word(D, i) = D[i]
  BY <1>1, <1>3, AsMag
<1> QED
  BY <1>4, <1>5 DEF D

LEMMA SubtractedLow ==
    ASSUME NEW l \in Mags, NEW s \in Mags, ~ LosesBorrow(l, s)
    PROVE  \A i \in 0 .. Len(l) :
              Low(l)[i] - Low(s)[i] =
                Low(SubtractedWords(l, s))[i] - Borrows(l, s)[i] * Place(i)
<1> DEFINE size == Len(l)
           c == Borrows(l, s)
           S == SubtractedWords(l, s)
           Ok(i) == Low(l)[i] - Low(s)[i] = Low(S)[i] - c[i] * Place(i)
           N == {i \in Nat : i <= size => Ok(i)}
<1>1. size \in Nat /\ S \in Mags /\ c \in [0 .. size -> Carry] /\ c[0] = 0
  BY MagIs, SubtractedWordsAre, BorrowsIs
<1>2. \A i \in 1 .. size : /\ c[i] = IF Enough(l[i], Word(s, i), c[i - 1]) THEN 0 ELSE 1
                           /\ Word(S, i) = (l[i] - Word(s, i) - c[i - 1]) % Base
                           /\ ~ (c[i - 1] = 1 /\ Word(s, i) = Base - 1)
                           /\ Word(l, i) = l[i]
  <2>1. \A i \in 1 .. size : ~ (c[i - 1] = 1 /\ Word(s, i) = Base - 1)
    BY MagIs DEF LosesBorrow
  <2>2. \A i \in 1 .. size : Word(l, i) = l[i]
    BY MagIs
  <2>3. \A i \in 1 .. size : c[i] = IF Enough(l[i], Word(s, i), c[i - 1]) THEN 0 ELSE 1
    BY BorrowsIs
  <2>4. \A i \in 1 .. size : Word(S, i) = (l[i] - Word(s, i) - c[i - 1]) % Base
    BY SubtractedWordsAre
  <2> HIDE DEF size, c, S
  <2> QED
    BY <2>1, <2>2, <2>3, <2>4
<1>3. 0 \in N
  <2>1. Low(l)[0] = 0 /\ Low(s)[0] = 0 /\ Low(S)[0] = 0
    <3> HIDE DEF S
    <3> QED
      BY <1>1, LowIs
  <2>2. 0 * Place(0) = 0
    BY PlaceFacts
  <2> HIDE DEF c, S
  <2> QED
    BY <1>1, <2>1, <2>2
<1> HIDE DEF c, S, size
<1>4. ASSUME NEW n \in Nat, n \in N PROVE n + 1 \in N
  <2> SUFFICES ASSUME n + 1 <= size PROVE Ok(n + 1)
    OBVIOUS
  <2> DEFINE u == Word(l, n + 1)
             v == Word(s, n + 1)
             w == Word(S, n + 1)
             d == c[n]
             e == c[n + 1]
             P == Place(n)
  <2>1. Low(l)[n] - Low(s)[n] = Low(S)[n] - d * P
    BY <1>1, <1>4
  <2>2. n + 1 \in 1 .. size /\ (n + 1) - 1 = n /\ n \in 0 .. size /\ n + 1 \in Nat \ {0}
    BY <1>1
  <2>3. u \in Words /\ v \in Words /\ d \in Carry /\ w \in Nat /\ u \in Nat /\ v \in Nat
    BY <1>1, <2>2, WordType
  <2>4. /\ e = IF Enough(u, v, d) THEN 0 ELSE 1
        /\ w = (u - v - d) % Base
        /\ ~ (d = 1 /\ v = Base - 1)
    BY <1>2, <2>2
  <2>7. P \in Nat /\ Place(n + 1) = Base * P /\ Base \in Nat
    BY PlaceFacts, BaseFacts
  <2>5. u - v - d = w - e * Base /\ e \in Carry
    <3> HIDE DEF u, v, d, w, e
    <3>1. e \in Carry
      BY <2>4 DEF Carry
    <3>2. CASE Enough(u, v, d)
      <4>1. e = 0 /\ u - v - d = w
        BY <2>3, <2>4, <3>2, BorrowIs
      <4> QED
        BY <2>3, <2>7, <3>1, <4>1
    <3>3. CASE ~ Enough(u, v, d)
      <4>1. e = 1 /\ u - v - d = w - Base
        BY <2>3, <2>4, <3>3, BorrowIs
      <4> QED
        BY <2>3, <2>7, <3>1, <4>1
    <3> QED
      BY <3>2, <3>3
  <2>6. /\ Low(l)[n + 1] = Low(l)[n] + u * P
        /\ Low(s)[n + 1] = Low(s)[n] + v * P
        /\ Low(S)[n + 1] = Low(S)[n] + w * P
        /\ Low(l)[n] \in Nat /\ Low(s)[n] \in Nat /\ Low(S)[n] \in Nat
    BY <1>1, LowIs
  <2> HIDE DEF u, v, w, d, e, P
  <2>8. u * P - v * P - d * P = w * P - e * (Base * P)
    <3>1. d \in Int /\ e \in Int /\ u \in Int /\ v \in Int /\ w \in Int /\ P \in Int /\ Base \in Int
          /\ e * Base \in Int
      BY <2>3, <2>5, <2>7 DEF Carry
    <3>2. (u - v - d) * P = u * P - v * P - d * P
      BY <3>1
    <3>3. (w - e * Base) * P = w * P - (e * Base) * P
      BY <3>1, TimesMinus
    <3>4. (e * Base) * P = e * (Base * P)
      BY <3>1, TimesTimes
    <3> QED
      BY <2>5, <3>2, <3>3, <3>4
  <2> DEFINE up == u * P
             vp == v * P
             wp == w * P
             dp == d * P
             ep == e * Place(n + 1)
  <2>9. up \in Int /\ vp \in Int /\ wp \in Int /\ dp \in Int /\ ep \in Int
    <3>1. d \in Nat /\ e \in Nat /\ Place(n + 1) \in Nat
      BY <2>3, <2>5, <2>7, PlaceFacts DEF Carry
    <3> QED
      BY <2>3, <2>7, <3>1
  <2>10. up - vp - dp = wp - ep
    BY <2>7, <2>8
  <2>11. /\ Low(l)[n + 1] = Low(l)[n] + up /\ Low(s)[n + 1] = Low(s)[n] + vp
         /\ Low(S)[n + 1] = Low(S)[n] + wp /\ Low(l)[n] - Low(s)[n] = Low(S)[n] - dp
    BY <2>1, <2>6
  <2>12. Low(l)[n + 1] - Low(s)[n + 1] = Low(S)[n + 1] - ep
    <3> HIDE DEF up, vp, wp, dp, ep
    <3> QED
      BY <2>6, <2>9, <2>10, <2>11
  <2> QED
    BY <2>12 DEF e
<1>5. \A n \in Nat : n \in N
  <2> HIDE DEF N
  <2> QED
    BY <1>3, <1>4, AllNumbers
<1>6. \A i \in 0 .. size : Ok(i)
  BY <1>1, <1>5
<1> QED
  BY <1>6 DEF size, c, S

\* The difference of magnitudes is exact, unless a borrow is lost.
LEMMA SubtractedIs ==
    ASSUME NEW l \in Mags, NEW s \in Mags, Absolute(s) <= Absolute(l), ~ LosesBorrow(l, s)
    PROVE  Absolute(SubtractedMagnitudes(l, s)) = Absolute(l) - Absolute(s)
<1> DEFINE size == Len(l)
           D == SubtractedWords(l, s)
           k == Borrows(l, s)[size]
<1>1. size \in Nat /\ D \in Mags /\ Len(D) = size /\ k \in Carry
  <2>1. size \in Nat /\ size \in 0 .. Len(l)
    BY MagIs
  <2> QED
    BY <2>1, SubtractedWordsAre, BorrowsIs
<1>2. Low(l)[size] - Low(s)[size] = Low(D)[size] - k * Place(size)
  <2>1. size \in 0 .. Len(l)
    BY <1>1
  <2> QED
    BY <2>1, SubtractedLow
<1>3. SubtractedMagnitudes(l, s) = Trimmed(D)
  BY DEF SubtractedMagnitudes, SubtractedWords
<1>4. Low(s)[size] = Absolute(s)
  <2>1. Significant(s) \in Nat /\ Significant(s) <= size
    <3>1. Significant(s) <= Significant(l)
      BY SignificantOrder
    <3>2. Significant(l) \in 0 .. Len(l) /\ Significant(s) \in 0 .. Len(s) /\ Len(s) \in Nat
      BY SignificantFacts, MagIs
    <3> QED
      BY <1>1, <3>1, <3>2
  <2>2. \A i \in Nat : i > Significant(s) => Word(s, i) = 0
    BY SignificantFacts
  <2> HIDE DEF size
  <2>3. Low(s)[size] = Low(s)[Significant(s)]
    BY <1>1, <2>1, <2>2, LowAll
  <2> QED
    BY <2>3, SignificantBounds
<1> HIDE DEF D, k, size
<1>5. Low(l)[size] = Absolute(l) /\ Low(D)[size] = Absolute(D)
  BY <1>1, AbsoluteFacts DEF size
<1>6. Absolute(D) < Place(size) /\ Absolute(D) \in Nat /\ Place(size) \in Nat
  BY <1>1, AbsoluteFacts, PlaceFacts
<1>7. Absolute(l) \in Nat /\ Absolute(s) \in Nat
  BY AbsoluteFacts
<1>8. k = 0
  <2> SUFFICES ASSUME k = 1 PROVE FALSE
    BY <1>1 DEF Carry
  <2>1. Absolute(l) - Absolute(s) = Absolute(D) - 1 * Place(size)
    BY <1>2, <1>4, <1>5
  <2> QED
    BY <1>6, <1>7, <2>1
<1>9. Absolute(l) - Absolute(s) = Absolute(D)
  BY <1>2, <1>4, <1>5, <1>6, <1>8
<1>10. Absolute(Trimmed(D)) = Absolute(D)
  BY <1>1, TrimmedSame
<1> QED
  BY <1>3, <1>9, <1>10

\* Differences are trimmed, with a borrow lost or not, and their lowest word
\* is right.
LEMMA SubtractedType ==
    ASSUME NEW l \in Mags, NEW s \in Mags
    PROVE  /\ SubtractedMagnitudes(l, s) \in Mags
           /\ Len(SubtractedMagnitudes(l, s)) <= Len(l)
           /\ \/ Len(SubtractedMagnitudes(l, s)) <= 1
              \/ Significant(SubtractedMagnitudes(l, s)) = Len(SubtractedMagnitudes(l, s))
           /\ Len(l) > 0 => /\ Len(SubtractedMagnitudes(l, s)) > 0
                            /\ Word(SubtractedMagnitudes(l, s), 1) = (l[1] - Word(s, 1)) % Base
<1> DEFINE D == SubtractedWords(l, s)
<1>1. D \in Mags /\ Len(D) = Len(l) /\ Len(l) \in Nat
  BY SubtractedWordsAre, MagIs
<1>2. SubtractedMagnitudes(l, s) = Trimmed(D)
  BY DEF SubtractedMagnitudes, SubtractedWords
<1>3. Len(l) > 0 => Word(D, 1) = (l[1] - Word(s, 1)) % Base
  <2> SUFFICES ASSUME Len(l) > 0 PROVE Word(D, 1) = (l[1] - Word(s, 1)) % Base
    OBVIOUS
  <2>1. 1 \in 1 .. Len(l) /\ 1 - 1 = 0 /\ 1 \in Nat \ {0}
    BY <1>1
  <2>2. Word(D, 1) = (l[1] - Word(s, 1) - Borrows(l, s)[0]) % Base
    BY <2>1, SubtractedWordsAre
  <2>3. l[1] \in Int /\ Word(s, 1) \in Int
    BY <2>1, MagIs, WordType, BaseFacts DEF Words
  <2>4. l[1] - Word(s, 1) - 0 = l[1] - Word(s, 1)
    BY <2>3
  <2> QED
    BY <2>2, <2>4, BorrowsIs
<1> DEFINE T == SubtractedMagnitudes(l, s)
<1> HIDE DEF D
<1>4. /\ T \in Mags /\ Len(T) <= Len(D) /\ (Len(D) > 0 => Len(T) > 0)
      /\ \A i \in Nat \ {0} : Word(T, i) = Word(D, i)
  BY <1>1, <1>2, TrimmedIs
<1>5. Len(T) <= 1 \/ Len(T) = Significant(T)
  BY <1>1, <1>2, TrimmedSame
<1>6. Word(T, 1) = Word(D, 1)
  BY <1>4
<1> HIDE DEF T
<1>7. Len(T) <= 1 \/ Significant(T) = Len(T)
  BY <1>5
<1> QED
  BY <1>1, <1>3, <1>4, <1>6, <1>7 DEF T

-----------------------------------------------------------------------------
(* Signs.                                                                  *)

LEMMA BigIs ==
    ASSUME NEW v \in BigInts
    PROVE  /\ v.magnitude \in Mags /\ v.sign \in BOOLEAN
           /\ Absolute(v.magnitude) \in Nat
           /\ Value(v) = IF v.sign THEN -Absolute(v.magnitude) ELSE Absolute(v.magnitude)
           /\ IsZero(v) <=> Absolute(v.magnitude) = 0
<1>1. v.magnitude \in Mags /\ v.sign \in BOOLEAN
  BY DEF BigInts, Mags
<1>2. Absolute(v.magnitude) \in Nat
  BY <1>1, AbsoluteFacts
<1>3. IsZero(v) <=> Absolute(v.magnitude) = 0
  BY <1>1, ZeroIs DEF IsZero
<1> QED
  BY <1>1, <1>2, <1>3 DEF Value

LEMMA MakeBig ==
    ASSUME NEW m \in Mags, NEW s \in BOOLEAN
    PROVE  /\ [magnitude |-> m, sign |-> s] \in BigInts
           /\ [magnitude |-> m, sign |-> s].magnitude = m
           /\ [magnitude |-> m, sign |-> s].sign = s
BY DEF BigInts, Mags

LEMMA UnsignedIs ==
    /\ \A v : v \in Unsigned <=> v \in BigInts /\ v.sign = FALSE
    /\ \A v \in Unsigned : Value(v) = Absolute(v.magnitude)
BY DEF Unsigned, BigInts, Value

\* What a rotation makes of a magnitude.
Rotated(m) == <<0>> \o Front(m)

LEMMA RotatedIs ==
    ASSUME NEW m \in Mags, Len(m) > 0, Last(m) = 0
    PROVE  /\ Rotated(m) \in Mags /\ Len(Rotated(m)) = Len(m)
           /\ Significant(m) > 0 => Significant(Rotated(m)) = Significant(m) + 1
<1> DEFINE n == Len(m)
           R == Rotated(m)
<1>1. n \in Nat \ {0} /\ DOMAIN m = 1 .. n /\ m[n] = 0 /\ \A i \in 1 .. n : m[i] \in Words
      /\ Word(m, i) = m[i]
  BY MagIs DEF Last
<1>2. \A i \in 1 .. n - 1 : m[i] \in Words
  BY <1>1
<1>3. /\ Front(m) \in Seq(Words) /\ Len(Front(m)) = n - 1
      /\ \A i \in 1 .. n - 1 : Front(m)[i] = m[i]
  <2>1. Front(m) = SubSeq(m, 1, n - 1)
    BY DEF Front
  <2> HIDE DEF n
  <2>2. /\ SubSeq(m, 1, n - 1) \in Seq(Words) /\ Len(SubSeq(m, 1, n - 1)) = n - 1
        /\ \A i \in 1 .. n - 1 : SubSeq(m, 1, n - 1)[i] = m[i]
    BY <1>1, <1>2, SubSeqProperties
  <2> QED
    BY <2>1, <2>2
<1>4. <<0>> \in Seq(Words) /\ Len(<<0>>) = 1 /\ <<0>>[1] = 0
  <2>1. 0 \in Words
    BY BaseFacts DEF Words
  <2> QED
    BY <2>1
<1>5. /\ R \in Mags /\ Len(R) = n
      /\ \A i \in 1 .. n : R[i] = IF i = 1 THEN 0 ELSE m[i - 1]
  <2> DEFINE z == <<0>>
             f == Front(m)
  <2>1. z \in Seq(Words) /\ f \in Seq(Words) /\ R = z \o f
    BY <1>3, <1>4 DEF Rotated
  <2>2. Len(z) = 1 /\ z[1] = 0 /\ Len(f) = n - 1 /\ \A i \in 1 .. n - 1 : f[i] = m[i]
    BY <1>3, <1>4
  <2> HIDE DEF z, f, R, n
  <2>3. /\ z \o f \in Seq(Words) /\ Len(z \o f) = Len(z) + Len(f)
        /\ \A i \in 1 .. Len(z) + Len(f) : (z \o f)[i] = IF i <= Len(z) THEN z[i] ELSE f[i - Len(z)]
    BY <2>1, ConcatProperties
  <2>4. Len(z) + Len(f) = n /\ R \in Mags /\ Len(R) = n
    BY <1>1, <2>1, <2>2, <2>3 DEF Mags
  <2>5. ASSUME NEW i \in 1 .. n PROVE R[i] = IF i = 1 THEN 0 ELSE m[i - 1]
    <3>1. R[i] = IF i <= 1 THEN z[i] ELSE f[i - 1]
      BY <2>1, <2>2, <2>3, <2>4
    <3>2. i # 1 => i - 1 \in 1 .. n - 1
      BY <1>1
    <3> QED
      BY <1>1, <2>2, <3>1, <3>2
  <2> QED
    BY <2>4, <2>5
<1> HIDE DEF R
<1>6. ASSUME Significant(m) > 0 PROVE Significant(R) = Significant(m) + 1
  <2> DEFINE s == Significant(m)
  <2>1. s \in 0 .. n /\ Word(m, s) > 0 /\ \A i \in Nat : i > s => Word(m, i) = 0
    BY <1>6, SignificantFacts
  <2>2. s \in 1 .. n - 1 /\ s + 1 \in Nat
    BY <1>1, <1>6, <2>1
  <2> HIDE DEF s
  <2>3. Word(R, s + 1) # 0
    <3>1. s + 1 \in 1 .. n /\ (s + 1) - 1 = s /\ s + 1 # 1
      BY <1>1, <2>2
    <3>2. R[s + 1] = m[s] /\ Word(R, s + 1) = R[s + 1]
      BY <1>1, <1>5, <3>1 DEF Word
    <3>3. Word(m, s) = m[s]
      BY <1>1, <2>2
    <3>4. Word(m, s) # 0
      BY <2>1
    <3> QED
      BY <3>2, <3>3, <3>4
  <2>4. ASSUME NEW i \in Nat, i > s + 1 PROVE Word(R, i) = 0
    <3>1. CASE i <= n
      <4>1. i \in 1 .. n /\ i # 1 /\ i - 1 \in 1 .. n /\ i - 1 > s /\ i - 1 \in Nat
        BY <1>1, <2>2, <2>4, <3>1
      <4>2. R[i] = m[i - 1] /\ Word(R, i) = R[i]
        BY <1>1, <1>5, <4>1 DEF Word
      <4>3. m[i - 1] = Word(m, i - 1) /\ Word(m, i - 1) = 0
        BY <1>1, <2>1, <4>1
      <4> QED
        BY <4>2, <4>3
    <3>2. CASE i > n
      BY <1>1, <1>5, <3>2 DEF Word
    <3> QED
      BY <1>1, <3>1, <3>2
  <2>5. Significant(R) = s + 1
    BY <1>5, <2>2, <2>3, <2>4, SignificantIs
  <2> QED
    BY <2>5 DEF s
<1> QED
  BY <1>5, <1>6 DEF R

LEMMA NegatedIs ==
    ASSUME NEW v \in BigInts
    PROVE  /\ Negated(v) \in BigInts
           /\ IsZero(v) => Negated(v) = v
           /\ ~ IsZero(v) => Negated(v).sign = ~ v.sign /\ ~ IsZero(Negated(v))
           /\ ~ IsZero(v) /\ ~ Rotates(v) => Negated(v).magnitude = v.magnitude
           /\ ~ IsZero(v) /\ Rotates(v) => Negated(v).magnitude = Rotated(v.magnitude)
           /\ ~ Rotates(v) => Value(Negated(v)) = -Value(v)
<1> DEFINE m == v.magnitude
<1>1. m \in Mags /\ v.sign \in BOOLEAN /\ (IsZero(v) <=> Absolute(m) = 0)
  BY BigIs
<1>2. IsZero(v) => Negated(v) = v
  BY DEF Negated
<1>3. CASE IsZero(v)
  <2>1. Value(v) = -Value(v)
    <3>1. Absolute(m) = 0 /\ Value(v) = IF v.sign THEN -Absolute(m) ELSE Absolute(m)
      BY <1>3, BigIs
    <3> QED
      BY <1>1, <3>1
  <2> QED
    BY <1>2, <1>3, <2>1
<1>4. CASE ~ IsZero(v)
  <2> DEFINE k == IF Last(m) = 0 THEN Rotated(m) ELSE m
             s == ~ v.sign
  <2>1. Negated(v) = [magnitude |-> k, sign |-> s]
    BY <1>4 DEF Negated, Rotated
  <2>2. Significant(m) > 0 /\ Len(m) > 0 /\ Len(m) \in Nat
    <3>1. Significant(m) # 0 /\ Significant(m) \in 0 .. Len(m) /\ Len(m) \in Nat
      BY <1>1, <1>4, ZeroIs, SignificantFacts, MagIs
    <3> QED
      BY <3>1
  <2>3. k \in Mags /\ Significant(k) > 0
    <3>1. CASE Last(m) = 0
      <4>1. Rotated(m) \in Mags /\ Significant(Rotated(m)) = Significant(m) + 1
        BY <1>1, <2>2, <3>1, RotatedIs
      <4> QED
        BY <1>1, <2>2, <3>1, <4>1, SignificantFacts
    <3>2. CASE Last(m) # 0
      BY <1>1, <2>2, <3>2
    <3> QED
      BY <3>1, <3>2
  <2>4. s \in BOOLEAN
    BY <1>1
  <2>5. Rotates(v) <=> Last(m) = 0
    BY <1>4 DEF Rotates
  <2>6. Negated(v) \in BigInts /\ Negated(v).magnitude = k /\ Negated(v).sign = s
    <3> HIDE DEF k, s
    <3> QED
      BY <2>1, <2>3, <2>4, MakeBig
  <2>7. ~ IsZero(Negated(v))
    <3> HIDE DEF k, s
    <3>1. Absolute(k) # 0
      BY <2>3, ZeroIs
    <3> QED
      BY <2>6, <3>1, BigIs
  <2>8. ASSUME ~ Rotates(v) PROVE Value(Negated(v)) = -Value(v)
    <3>1. k = m
      BY <2>5, <2>8
    <3>2. Value(Negated(v)) = IF s THEN -Absolute(m) ELSE Absolute(m)
      <4> HIDE DEF k, s, m
      <4> QED
        BY <2>6, <3>1, BigIs
    <3>3. Value(v) = IF v.sign THEN -Absolute(m) ELSE Absolute(m)
      BY BigIs
    <3>4. Absolute(m) \in Nat
      BY BigIs
    <3>5. CASE v.sign
      BY <3>2, <3>3, <3>4, <3>5
    <3>6. CASE ~ v.sign
      BY <3>2, <3>3, <3>4, <3>6
    <3> QED
      BY <3>5, <3>6
  <2> QED
    BY <1>4, <2>5, <2>6, <2>7, <2>8
<1> QED
  BY <1>3, <1>4

-----------------------------------------------------------------------------
(* Sums and differences.                                                   *)

LEMMA SameSignSumIs ==
    ASSUME NEW v \in BigInts, NEW w \in BigInts
    PROVE  /\ SameSignSum(v, w) \in BigInts
           /\ SameSignSum(v, w).magnitude = AddedMagnitudes(v.magnitude, w.magnitude)
           /\ SameSignSum(v, w).sign = v.sign
           /\ Absolute(SameSignSum(v, w).magnitude)
                = Absolute(v.magnitude) + Absolute(w.magnitude)
           /\ v.sign = w.sign => Value(SameSignSum(v, w)) = Value(v) + Value(w)
<1> DEFINE m == AddedMagnitudes(v.magnitude, w.magnitude)
           r == SameSignSum(v, w)
<1>1. v.magnitude \in Mags /\ w.magnitude \in Mags /\ v.sign \in BOOLEAN
  BY BigIs
<1>2. m \in Mags /\ Absolute(m) = Absolute(v.magnitude) + Absolute(w.magnitude)
  BY <1>1, AddedIs
<1>3. r \in BigInts /\ r.magnitude = m /\ r.sign = v.sign
  <2>1. r = [magnitude |-> m, sign |-> v.sign]
    BY DEF SameSignSum
  <2> HIDE DEF m, r
  <2> QED
    BY <1>1, <1>2, <2>1, MakeBig
<1>4. ASSUME v.sign = w.sign PROVE Value(r) = Value(v) + Value(w)
  <2>1. Absolute(v.magnitude) \in Nat /\ Absolute(w.magnitude) \in Nat
    BY BigIs
  <2>2. /\ Value(v) = IF v.sign THEN -Absolute(v.magnitude) ELSE Absolute(v.magnitude)
        /\ Value(w) = IF v.sign THEN -Absolute(w.magnitude) ELSE Absolute(w.magnitude)
    BY <1>4, BigIs
  <2>3. Value(r) = IF v.sign THEN -Absolute(m) ELSE Absolute(m)
    <3> HIDE DEF m, r
    <3> QED
      BY <1>3, BigIs
  <2> HIDE DEF r, m
  <2>4. CASE v.sign
    BY <1>2, <2>1, <2>2, <2>3, <2>4
  <2>5. CASE ~ v.sign
    BY <1>2, <2>1, <2>2, <2>3, <2>5
  <2> QED
    BY <2>4, <2>5
<1> HIDE DEF r, m
<1> QED
  BY <1>2, <1>3, <1>4 DEF r, m

LEMMA SameSignDifferenceIs ==
    ASSUME NEW v \in BigInts, NEW w \in BigInts
    PROVE  LET less == Absolute(v.magnitude) < Absolute(w.magnitude)
               m == IF less THEN SubtractedMagnitudes(w.magnitude, v.magnitude)
                            ELSE SubtractedMagnitudes(v.magnitude, w.magnitude)
               r == SameSignDifference(v, w)
           IN  /\ r \in BigInts /\ r.magnitude = m
               /\ IsZero(r) => r.sign = FALSE
               /\ ~ IsZero(r) => r.sign = (v.sign # less)
<1> DEFINE less == Absolute(v.magnitude) < Absolute(w.magnitude)
           m == IF less THEN SubtractedMagnitudes(w.magnitude, v.magnitude)
                        ELSE SubtractedMagnitudes(v.magnitude, w.magnitude)
           r == SameSignDifference(v, w)
           zero == \A i \in DOMAIN m : m[i] = 0
           s == ~ zero /\ (v.sign # less)
<1>1. /\ v.magnitude \in Mags /\ w.magnitude \in Mags /\ v.sign \in BOOLEAN
      /\ Absolute(v.magnitude) \in Nat /\ Absolute(w.magnitude) \in Nat
  BY BigIs
<1>2. CompareMagnitudes(v.magnitude, w.magnitude) < 0 <=> less
  <2>1. CompareMagnitudes(v.magnitude, w.magnitude) =
          IF Absolute(v.magnitude) > Absolute(w.magnitude) THEN 1
          ELSE IF Absolute(v.magnitude) < Absolute(w.magnitude) THEN -1 ELSE 0
    BY <1>1, CompareIs
  <2> QED
    BY <1>1, <2>1
<1>3. r = [magnitude |-> m, sign |-> s]
  BY <1>2 DEF SameSignDifference
<1>4. m \in Mags
  BY <1>1, SubtractedType
<1>5. s \in BOOLEAN
  OBVIOUS
<1>6. r \in BigInts /\ r.magnitude = m /\ r.sign = s
  <2> HIDE DEF m, s, r
  <2> QED
    BY <1>3, <1>4, <1>5, MakeBig
<1>7. IsZero(r) <=> zero
  BY <1>6 DEF IsZero
<1> HIDE DEF r, m, less
<1>8. (IsZero(r) => r.sign = FALSE) /\ (~ IsZero(r) => r.sign = (v.sign # less))
  <2> HIDE DEF zero
  <2> QED
    BY <1>1, <1>6, <1>7 DEF s
<1> QED
  BY <1>6, <1>8 DEF less, m, r

LEMMA SameSignDifferenceExact ==
    ASSUME NEW v \in BigInts, NEW w \in BigInts, ~ BorrowLost(v, w), v.sign = w.sign
    PROVE  Value(SameSignDifference(v, w)) = Value(v) - Value(w)
<1> DEFINE less == Absolute(v.magnitude) < Absolute(w.magnitude)
           m == IF less THEN SubtractedMagnitudes(w.magnitude, v.magnitude)
                        ELSE SubtractedMagnitudes(v.magnitude, w.magnitude)
           r == SameSignDifference(v, w)
           a == Absolute(v.magnitude)
           b == Absolute(w.magnitude)
<1>1. v.magnitude \in Mags /\ w.magnitude \in Mags /\ v.sign \in BOOLEAN /\ a \in Nat /\ b \in Nat
  BY BigIs
<1>2. /\ r \in BigInts /\ r.magnitude = m
      /\ IsZero(r) => r.sign = FALSE
      /\ ~ IsZero(r) => r.sign = (v.sign # less)
  BY SameSignDifferenceIs, Zenon
<1>3. /\ ~ LosesBorrow(v.magnitude, w.magnitude)
      /\ ~ LosesBorrow(w.magnitude, v.magnitude)
  BY DEF BorrowLost
<1>4. Absolute(m) = IF less THEN b - a ELSE a - b
  <2>1. CASE less
    <3>1. a <= b
      BY <1>1, <2>1
    <3> HIDE DEF less
    <3> QED
      BY <1>1, <1>3, <2>1, <3>1, SubtractedIs
  <2>2. CASE ~ less
    <3>1. b <= a
      BY <1>1, <2>2
    <3> HIDE DEF less
    <3> QED
      BY <1>1, <1>3, <2>2, <3>1, SubtractedIs
  <2> QED
    BY <2>1, <2>2
<1>5. /\ Value(r) = IF r.sign THEN -Absolute(m) ELSE Absolute(m)
      /\ IsZero(r) <=> Absolute(m) = 0
  <2> HIDE DEF m, r
  <2> QED
    BY <1>2, BigIs
<1>6. /\ Value(v) = IF v.sign THEN -a ELSE a
      /\ Value(w) = IF v.sign THEN -b ELSE b
  BY BigIs
<1> HIDE DEF m, r, a, b
<1>7. (less <=> a < b) /\ less \in BOOLEAN
  BY DEF a, b
<1> HIDE DEF less
<1> DEFINE d == Absolute(m)
<1>8. d = IF less THEN b - a ELSE a - b
  BY <1>4
<1>9. d \in Nat /\ (IsZero(r) <=> d = 0) /\ Value(r) = IF r.sign THEN -d ELSE d
  BY <1>1, <1>5, <1>7, <1>8
<1> HIDE DEF d
<1>10. CASE IsZero(r)
  <2>1. d = 0 /\ r.sign = FALSE
    BY <1>2, <1>9, <1>10
  <2>2. a = b
    BY <1>1, <1>7, <1>8, <2>1
  <2>3. Value(r) = 0
    BY <1>9, <2>1
  <2> QED
    BY <1>1, <1>6, <2>2, <2>3 DEF r
<1>11. CASE ~ IsZero(r) /\ less
  <2>1. r.sign = ~ v.sign
    BY <1>1, <1>2, <1>11
  <2>2. d = b - a
    BY <1>8, <1>11
  <2>3. Value(r) = IF v.sign THEN d ELSE -d
    BY <1>1, <1>9, <2>1
  <2> QED
    BY <1>1, <1>6, <2>2, <2>3 DEF r
<1>12. CASE ~ IsZero(r) /\ ~ less
  <2>1. r.sign = v.sign
    BY <1>1, <1>2, <1>7, <1>12
  <2>2. d = a - b
    BY <1>8, <1>12
  <2>3. Value(r) = IF v.sign THEN -d ELSE d
    BY <1>1, <1>9, <2>1
  <2> QED
    BY <1>1, <1>6, <2>2, <2>3 DEF r
<1> QED
  BY <1>10, <1>11, <1>12

LEMMA BorrowLostSame ==
    ASSUME NEW v, NEW w, NEW t, NEW u, ~ BorrowLost(v, w),
           t.magnitude = v.magnitude, u.magnitude = w.magnitude
    PROVE  ~ BorrowLost(t, u) /\ ~ BorrowLost(u, t)
BY DEF BorrowLost

LEMMA DifferenceType ==
    ASSUME NEW v \in BigInts, NEW w \in BigInts
    PROVE  Difference(v, w) \in BigInts
<1>1. Negated(w) \in BigInts
  BY NegatedIs
<1>2. SameSignSum(v, Negated(w)) \in BigInts
  BY <1>1, SameSignSumIs
<1>3. SameSignDifference(v, w) \in BigInts
  BY SameSignDifferenceIs, Zenon
<1> QED
  BY <1>1, <1>2, <1>3, Zenon DEF Difference

LEMMA DifferenceExact ==
    ASSUME NEW v \in BigInts, NEW w \in BigInts, ~ BorrowLost(v, w), ~ Rotates(w)
    PROVE  Value(Difference(v, w)) = Value(v) - Value(w)
<1>1. Value(v) \in Int /\ Value(w) \in Int
  BY BigIs
<1>2. Value(Negated(w)) = -Value(w) /\ Negated(w) \in BigInts
  BY NegatedIs
<1>3. CASE IsZero(v)
  <2>1. Value(v) = 0 /\ Difference(v, w) = Negated(w)
    BY <1>3, BigIs DEF Difference
  <2> QED
    BY <1>1, <1>2, <2>1
<1>4. CASE ~ IsZero(v) /\ IsZero(w)
  <2>1. Value(w) = 0 /\ Difference(v, w) = v
    BY <1>4, BigIs DEF Difference
  <2> QED
    BY <1>1, <2>1
<1>5. CASE ~ IsZero(v) /\ ~ IsZero(w) /\ v.sign # w.sign
  <2>1. Difference(v, w) = SameSignSum(v, Negated(w))
    BY <1>5 DEF Difference
  <2>2. v.sign = Negated(w).sign
    BY <1>5, NegatedIs, BigIs
  <2>3. Value(SameSignSum(v, Negated(w))) = Value(v) + Value(Negated(w))
    BY <1>2, <2>2, SameSignSumIs
  <2> QED
    BY <1>1, <1>2, <2>1, <2>3
<1>6. CASE ~ IsZero(v) /\ ~ IsZero(w) /\ v.sign = w.sign
  <2>1. Difference(v, w) = SameSignDifference(v, w)
    BY <1>6 DEF Difference
  <2> QED
    BY <1>6, <2>1, SameSignDifferenceExact
<1> QED
  BY <1>3, <1>4, <1>5, <1>6

LEMMA SumType ==
    ASSUME NEW v \in BigInts, NEW w \in BigInts
    PROVE  Sum(v, w) \in BigInts
<1>1. Negated(v) \in BigInts /\ Negated(w) \in BigInts
  BY NegatedIs
<1>2. /\ SameSignSum(v, w) \in BigInts /\ Difference(w, Negated(v)) \in BigInts
      /\ Difference(v, Negated(w)) \in BigInts
  BY <1>1, SameSignSumIs, DifferenceType
<1> QED
  BY <1>2, Zenon DEF Sum

\* A rotation is not undone, but what is not rotated is not rotated twice.
LEMMA NegatedSettles ==
    ASSUME NEW v \in BigInts, ~ Rotates(v)
    PROVE  ~ Rotates(Negated(v)) /\ Negated(v).magnitude = v.magnitude
<1>1. Negated(v).magnitude = v.magnitude
  BY NegatedIs
<1> QED
  BY <1>1 DEF Rotates, IsZero

LEMMA SumExact ==
    ASSUME NEW v \in BigInts, NEW w \in BigInts, ~ BorrowLost(v, w), ~ Rotates(v), ~ Rotates(w)
    PROVE  Value(Sum(v, w)) = Value(v) + Value(w)
<1>1. /\ Value(v) \in Int /\ Value(w) \in Int
      /\ v.sign \in BOOLEAN /\ w.sign \in BOOLEAN
  BY BigIs
<1>2. /\ Value(Negated(w)) = -Value(w) /\ Negated(w) \in BigInts
      /\ Value(Negated(v)) = -Value(v) /\ Negated(v) \in BigInts
  BY NegatedIs
<1>3. CASE v.sign = w.sign
  BY <1>3, SameSignSumIs DEF Sum
<1>4. CASE v.sign /\ ~ w.sign
  <2>1. Sum(v, w) = Difference(w, Negated(v))
    BY <1>4 DEF Sum
  <2>2. ~ Rotates(Negated(v)) /\ Negated(v).magnitude = v.magnitude
    BY NegatedSettles
  <2>3. ~ BorrowLost(w, Negated(v))
    BY <2>2, BorrowLostSame
  <2>4. Value(Difference(w, Negated(v))) = Value(w) - Value(Negated(v))
    BY <1>2, <2>2, <2>3, DifferenceExact
  <2> QED
    BY <1>1, <1>2, <2>1, <2>4
<1>5. CASE ~ v.sign /\ w.sign
  <2>1. Sum(v, w) = Difference(v, Negated(w))
    BY <1>5 DEF Sum
  <2>2. ~ Rotates(Negated(w)) /\ Negated(w).magnitude = w.magnitude
    BY NegatedSettles
  <2>3. ~ BorrowLost(v, Negated(w))
    BY <2>2, BorrowLostSame
  <2>4. Value(Difference(v, Negated(w))) = Value(v) - Value(Negated(w))
    BY <1>2, <2>2, <2>3, DifferenceExact
  <2> QED
    BY <1>1, <1>2, <2>1, <2>4
<1> QED
  BY <1>1, <1>3, <1>4, <1>5

-----------------------------------------------------------------------------
(* Halves and shifts.                                                      *)

HalvedWords(m) ==
    [i \in DOMAIN m |-> m[i] \div 2 + (Word(m, i + 1) % 2) * TwoTo[WordBits - 1]]

LEMMA HalvedWordsAre ==
    ASSUME NEW m \in Mags
    PROVE  /\ HalvedWords(m) \in Mags /\ Len(HalvedWords(m)) = Len(m)
           /\ \A i \in Nat \ {0} :
                 2 * Word(HalvedWords(m), i) + (Word(m, i) % 2)
                   = Word(m, i) + (Word(m, i + 1) % 2) * Base
<1> DEFINE n == Len(m)
           T == TwoTo[WordBits - 1]
           H == HalvedWords(m)
<1>1. T \in Nat /\ Base = 2 * T
  <2>1. WordBits - 1 \in Nat /\ (WordBits - 1) + 1 = WordBits
    BY BaseFacts
  <2> QED
    BY <2>1, TwoToFacts DEF Base
<1> HIDE DEF T
<1>2. n \in Nat /\ DOMAIN m = 1 .. n /\ \A i \in 1 .. n : m[i] \in Words /\ Word(m, i) = m[i]
  BY MagIs
<1>3. ASSUME NEW i \in 1 .. n
      PROVE  /\ m[i] \div 2 + (Word(m, i + 1) % 2) * T \in Words
             /\ 2 * (m[i] \div 2 + (Word(m, i + 1) % 2) * T) + (m[i] % 2)
                   = m[i] + (Word(m, i + 1) % 2) * Base
  <2>1. m[i] \in 0 .. Base - 1 /\ Word(m, i + 1) \in Nat /\ i + 1 \in Nat \ {0}
    BY <1>2, WordType DEF Words
  <2> DEFINE e == Word(m, i + 1) % 2
  <2>2. e \in {0, 1}
    BY <2>1
  <2> HIDE DEF e
  <2> DEFINE a == m[i]
             h == a \div 2 + e * T
  <2>3. h \in 0 .. Base - 1 /\ 2 * h + (a % 2) = a + e * Base
    <3> HIDE DEF a
    <3>1. a \in 0 .. Base - 1
      BY <2>1 DEF a
    <3>2. CASE e = 0
      BY <1>1, <3>1, <3>2
    <3>3. CASE e = 1
      BY <1>1, <3>1, <3>3
    <3> QED
      BY <2>2, <3>2, <3>3
  <2> QED
    BY <2>3 DEF e, Words
<1>4. H = [i \in 1 .. n |-> m[i] \div 2 + (Word(m, i + 1) % 2) * T]
  BY <1>2 DEF HalvedWords, T
<1>5. H \in [1 .. n -> Words]
  BY <1>3, <1>4
<1>6. H \in Mags /\ Len(H) = n /\ \A i \in Nat : Word(H, i) = IF i <= n THEN H[i] ELSE 0
  <2> HIDE DEF H, n
  <2> QED
    BY <1>2, <1>5, AsMag
<1>7. ASSUME NEW i \in Nat \ {0}
      PROVE  2 * Word(H, i) + (Word(m, i) % 2) = Word(m, i) + (Word(m, i + 1) % 2) * Base
  <2>1. CASE i <= n
    <3>1. i \in 1 .. n
      BY <1>2, <2>1
    <3>2. Word(H, i) = m[i] \div 2 + (Word(m, i + 1) % 2) * T
      BY <1>4, <1>6, <3>1
    <3> QED
      BY <1>2, <1>3, <3>1, <3>2
  <2>2. CASE ~ (i <= n)
    <3>1. Word(m, i) = 0 /\ Word(m, i + 1) = 0 /\ Word(H, i) = 0
      BY <1>2, <1>6, <2>2 DEF Word
    <3> QED
      BY <3>1, BaseFacts
  <2> QED
    BY <2>1, <2>2
<1> QED
  BY <1>6, <1>7

LEMMA HalvedLow ==
    ASSUME NEW m \in Mags
    PROVE  \A n \in Nat : 2 * Low(HalvedWords(m))[n] + (Word(m, 1) % 2)
                            = Low(m)[n] + (Word(m, n + 1) % 2) * Place(n)
<1> DEFINE H == HalvedWords(m)
           odd(n) == Word(m, n) % 2
           N == {n \in Nat : 2 * Low(H)[n] + odd(1) = Low(m)[n] + odd(n + 1) * Place(n)}
<1>1. H \in Mags /\ \A i \in Nat \ {0} : 2 * Word(H, i) + odd(i) = Word(m, i) + odd(i + 1) * Base
  BY HalvedWordsAre
<1>2. \A i \in Nat \ {0} : odd(i) \in Nat /\ Word(m, i) \in Nat
  BY WordType
<1> HIDE DEF H
<1>3. /\ Low(H)[0] = 0 /\ Low(m)[0] = 0
      /\ \A n \in Nat : /\ Low(H)[n] \in Nat /\ Low(m)[n] \in Nat
                        /\ Low(H)[n + 1] = Low(H)[n] + Word(H, n + 1) * Place(n)
                        /\ Low(m)[n + 1] = Low(m)[n] + Word(m, n + 1) * Place(n)
  BY <1>1, LowIs
<1>4. 0 \in N
  <2>1. odd(1) \in Nat /\ Place(0) = 1
    BY <1>2, PlaceFacts
  <2> HIDE DEF odd
  <2>2. odd(0 + 1) = odd(1)
    OBVIOUS
  <2> QED
    BY <1>3, <2>1, <2>2
<1> HIDE DEF odd
<1>5. ASSUME NEW n \in Nat, n \in N PROVE n + 1 \in N
  <2> DEFINE P == Place(n)
             u == Word(m, n + 1)
             w == Word(H, n + 1)
             d == odd(n + 1)
             e == odd((n + 1) + 1)
  <2>1. u \in Nat /\ w \in Nat /\ d \in Nat /\ e \in Nat /\ P \in Nat /\ odd(1) \in Nat
    BY <1>1, <1>2, PlaceFacts, WordType
  <2>2. 2 * w + d = u + e * Base
    BY <1>1
  <2>3. Place(n + 1) = Base * P
    BY PlaceFacts
  <2>4. /\ 2 * Low(H)[n] + odd(1) = Low(m)[n] + d * P
        /\ Low(H)[n + 1] = Low(H)[n] + w * P /\ Low(m)[n + 1] = Low(m)[n] + u * P
        /\ Low(H)[n] \in Nat /\ Low(m)[n] \in Nat
    BY <1>3, <1>5
  <2> HIDE DEF P, u, w, d, e
  <2>5. (2 * w) * P + d * P = u * P + e * (Base * P)
    <3> DEFINE y == 2 * w
    <3>1. y \in Int /\ d \in Int /\ u \in Int /\ e \in Int /\ P \in Int /\ Base \in Int
          /\ e * Base \in Int /\ y + d = u + e * Base
      BY <2>1, <2>2, BaseFacts
    <3> HIDE DEF y
    <3>2. (y + d) * P = y * P + d * P
      BY <3>1, TimesAdd
    <3>3. (u + e * Base) * P = u * P + (e * Base) * P
      BY <3>1, TimesAdd
    <3>4. (e * Base) * P = e * (Base * P)
      BY <3>1, TimesTimes
    <3> QED
      BY <3>1, <3>2, <3>3, <3>4 DEF y
  <2>6. (2 * w) * P = 2 * (w * P)
    BY <2>1, TimesTimes
  <2> DEFINE wp == w * P
             dp == d * P
             up == u * P
             ep == e * Place(n + 1)
  <2>7. wp \in Int /\ dp \in Int /\ up \in Int /\ ep \in Int
    <3>1. Place(n + 1) \in Int
      BY PlaceFacts
    <3> QED
      BY <2>1, <3>1, Times
  <2>8. 2 * wp + dp = up + ep
    BY <2>3, <2>5, <2>6
  <2>9. /\ 2 * Low(H)[n] + odd(1) = Low(m)[n] + dp
        /\ Low(H)[n + 1] = Low(H)[n] + wp /\ Low(m)[n + 1] = Low(m)[n] + up
    BY <2>4
  <2>10. Low(H)[n] \in Nat /\ Low(m)[n] \in Nat
    BY <2>4
  <2>11. 2 * Low(H)[n + 1] + odd(1) = Low(m)[n + 1] + ep
    <3> DEFINE g == Low(H)[n]
               k == Low(m)[n]
               o == odd(1)
    <3>1. g \in Nat /\ k \in Nat /\ o \in Nat
      BY <2>1, <2>10
    <3>2. 2 * g + o = k + dp /\ Low(H)[n + 1] = g + wp /\ Low(m)[n + 1] = k + up
      BY <2>9
    <3> HIDE DEF wp, dp, up, ep, g, k, o
    <3>3. 2 * (g + wp) + o = (k + up) + ep
      BY <2>7, <2>8, <3>1, <3>2
    <3> QED
      BY <3>2, <3>3 DEF o
  <2> QED
    BY <2>11 DEF e
<1>6. \A n \in Nat : n \in N
  <2> HIDE DEF N
  <2> QED
    BY <1>4, <1>5, AllNumbers
<1> QED
  BY <1>6 DEF odd, H

LEMMA HalvedIs ==
    ASSUME NEW v \in BigInts
    PROVE  /\ Halved(v) \in BigInts /\ Halved(v).sign = v.sign
           /\ Absolute(Halved(v).magnitude) = Absolute(v.magnitude) \div 2
           /\ \/ Len(Halved(v).magnitude) <= 1
              \/ Significant(Halved(v).magnitude) = Len(Halved(v).magnitude)
<1> DEFINE m == v.magnitude
           H == HalvedWords(m)
           n == Len(m)
<1>1. m \in Mags /\ v.sign \in BOOLEAN
  BY BigIs
<1> HIDE DEF m
<1>2. H \in Mags /\ Len(H) = n /\ n \in Nat
  BY <1>1, HalvedWordsAre, MagIs
<1>3. 2 * Low(H)[n] + (Word(m, 1) % 2) = Low(m)[n] + (Word(m, n + 1) % 2) * Place(n)
  BY <1>1, <1>2, HalvedLow
<1>4. Word(m, n + 1) = 0 /\ Word(m, 1) \in Nat
  BY <1>1, <1>2, WordType DEF Word
<1>5. Low(H)[n] = Absolute(H) /\ Absolute(H) \in Nat /\ Low(m)[n] = Absolute(m)
      /\ Absolute(m) \in Nat
  <2> HIDE DEF H, n
  <2> QED
    BY <1>1, <1>2, AbsoluteFacts DEF n
<1> DEFINE o == Word(m, 1) % 2
<1>6. o \in {0, 1} /\ 2 * Absolute(H) + o = Absolute(m)
  <2>1. 0 * Place(n) = 0
    <3> HIDE DEF n
    <3> QED
      BY <1>2, PlaceFacts
  <2>2. (Word(m, n + 1) % 2) * Place(n) = 0
    BY <1>4, <2>1
  <2>3. o \in {0, 1}
    BY <1>4
  <2> HIDE DEF o
  <2> QED
    BY <1>3, <1>5, <2>2, <2>3 DEF o
<1>7. Absolute(H) = Absolute(m) \div 2
  <2> HIDE DEF H, o
  <2> QED
    BY <1>5, <1>6
<1>8. Halved(v) = [magnitude |-> Trimmed(H), sign |-> v.sign]
  BY DEF Halved, HalvedWords, m
<1> HIDE DEF H
<1>9. /\ Trimmed(H) \in Mags /\ Absolute(Trimmed(H)) = Absolute(H)
      /\ Len(Trimmed(H)) <= 1 \/ Len(Trimmed(H)) = Significant(Trimmed(H))
  BY <1>2, TrimmedIs, TrimmedSame
<1>10. Halved(v) \in BigInts /\ Halved(v).magnitude = Trimmed(H) /\ Halved(v).sign = v.sign
  BY <1>1, <1>8, <1>9, MakeBig
<1> QED
  BY <1>7, <1>9, <1>10 DEF m

\* A word that is shifted: the bits that stay and those that leave it.
LEMMA ShiftedWord ==
    ASSUME NEW u \in Words, NEW b \in Nat \ {0}, NEW c \in Nat \ {0}, b * c = Base
    PROVE  /\ u \div c \in 0 .. b - 1
           /\ (u * b) % Base \in 0 .. Base - b
           /\ u * b = ((u * b) % Base) + (u \div c) * Base
<1> DEFINE q == u \div c
           r == u % c
<1>1. u \in Nat /\ u < Base /\ Base \in Nat \ {0}
  BY BaseFacts DEF Words
<1>2. q \in Int /\ r \in 0 .. c - 1 /\ u = q * c + r /\ q >= 0
  <2>1. q \in Int /\ r \in 0 .. c - 1 /\ u = q * c + r
    BY <1>1, Division
  <2>2. q >= 0
    BY <1>1
  <2> QED
    BY <2>1, <2>2
<1> HIDE DEF q, r
<1>3. q \in 0 .. b - 1
  <2> SUFFICES ASSUME b <= q PROVE FALSE
    BY <1>2
  <2>1. b * c <= q * c
    BY <1>2, TimesOrder
  <2>2. q * c \in Int
    BY <1>2, Times
  <2> QED
    BY <1>1, <1>2, <2>1, <2>2
<1>4. u * b = q * Base + r * b
  <2>1. (q * c + r) * b = (q * c) * b + r * b
    <3>1. q * c \in Int /\ r \in Int /\ b \in Int
      BY <1>2, Times
    <3> QED
      BY <3>1, TimesAdd
  <2>2. (q * c) * b = q * (c * b) /\ c * b = b * c
    <3>1. q \in Int /\ b \in Int /\ c \in Int
      BY <1>2
    <3> QED
      BY <3>1, TimesTimes, Times
  <2> QED
    BY <1>2, <2>1, <2>2
<1>5. r * b \in Nat /\ r * b <= Base - b
  <2>1. r \in Nat /\ r <= c - 1 /\ c - 1 \in Int
    BY <1>2
  <2>2. r * b <= (c - 1) * b
    BY <2>1, TimesOrder
  <2>3. (c - 1) * b = c * b - 1 * b /\ c * b = b * c
    BY <1>2, TimesMinus, Times
  <2>4. r * b \in Nat
    BY <2>1, TimesNat
  <2> QED
    BY <1>1, <2>2, <2>3, <2>4
<1> DEFINE p == r * b
<1>6. p \in 0 .. Base - 1 /\ p \in 0 .. Base - b
  <2> HIDE DEF p
  <2> QED
    BY <1>1, <1>5 DEF p
<1>7. (u * b) % Base = p
  <2>1. u * b = q * Base + p
    BY <1>4
  <2> HIDE DEF p
  <2> QED
    BY <1>1, <1>2, <1>6, <2>1, DivisionIs
<1> QED
  BY <1>3, <1>4, <1>6, <1>7 DEF q, p

\* The words of a value shifted by b = 2^bits and n whole words, before zeros
\* are trimmed.
ShiftedWords(m, n, bits) ==
    [i \in 1 .. n |-> 0]
      \o [i \in 1 .. Len(m) |-> ((m[i] * TwoTo[bits]) % Base) + BitsOut(m, i - 1, bits)]
      \o <<BitsOut(m, Len(m), bits)>>

LEMMA BitsOutIs ==
    ASSUME NEW m \in Mags, NEW bits \in 0 .. WordBits - 1
    PROVE  LET b == TwoTo[bits]
           IN  /\ b \in Nat \ {0} /\ BitsOut(m, 0, bits) = 0
               /\ \A i \in 0 .. Len(m) : BitsOut(m, i, bits) \in 0 .. b - 1
               /\ \A i \in 1 .. Len(m) :
                     /\ (m[i] * b) % Base \in 0 .. Base - b
                     /\ m[i] * b = ((m[i] * b) % Base) + BitsOut(m, i, bits) * Base
<1> DEFINE b == TwoTo[bits]
           c == TwoTo[WordBits - bits]
<1>1. b \in Nat \ {0} /\ c \in Nat \ {0} /\ b * c = Base
  <2>1. bits \in Nat /\ WordBits - bits \in Nat /\ bits + (WordBits - bits) = WordBits
    BY BaseFacts
  <2> QED
    <3>1. b \in Nat \ {0} /\ c \in Nat \ {0}
      BY <2>1, TwoToFacts
    <3>2. TwoTo[bits + (WordBits - bits)] = b * c
      BY <2>1, TwoToSum
    <3> QED
      BY <2>1, <3>1, <3>2 DEF Base
<1>2. BitsOut(m, 0, bits) = 0
  BY DEF BitsOut
<1>3. ASSUME NEW i \in 1 .. Len(m)
      PROVE  /\ BitsOut(m, i, bits) \in 0 .. b - 1
             /\ (m[i] * b) % Base \in 0 .. Base - b
             /\ m[i] * b = ((m[i] * b) % Base) + BitsOut(m, i, bits) * Base
  <2>1. m[i] \in Words
    BY MagIs
  <2> DEFINE u == m[i]
             o == u \div c
  <2>2. /\ o \in 0 .. b - 1 /\ (u * b) % Base \in 0 .. Base - b
        /\ u * b = ((u * b) % Base) + o * Base
    <3> HIDE DEF u, b, c
    <3> QED
      BY <1>1, <2>1, ShiftedWord DEF u
  <2>3. i # 0
    BY MagIs
  <2>4. BitsOut(m, i, bits) = o
    <3>1. CASE bits = 0
      <4>1. b = 1
        BY <3>1, TwoToFacts
      <4>2. o = 0
        <5> HIDE DEF o
        <5> QED
          BY <2>2, <4>1
      <4> QED
        BY <3>1, <4>2 DEF BitsOut
    <3>2. CASE bits # 0
      BY <2>3, <3>2 DEF BitsOut
    <3> QED
      BY <3>1, <3>2
  <2> HIDE DEF o, b
  <2> QED
    BY <2>2, <2>4
<1>4. ASSUME NEW i \in 0 .. Len(m) PROVE BitsOut(m, i, bits) \in 0 .. b - 1
  <2>1. CASE i = 0
    BY <1>1, <1>2, <2>1
  <2>2. CASE i # 0
    <3>1. i \in 1 .. Len(m)
      BY <2>2, MagIs
    <3> QED
      BY <1>3, <3>1
  <2> QED
    BY <2>1, <2>2
<1> QED
  BY <1>1, <1>2, <1>3, <1>4

LEMMA ShiftedWordsAre ==
    ASSUME NEW m \in Mags, NEW n \in Nat, NEW bits \in 0 .. WordBits - 1
    PROVE  LET S == ShiftedWords(m, n, bits)
           IN  /\ S \in Mags /\ Len(S) = n + Len(m) + 1
               /\ \A i \in 1 .. n : Word(S, i) = 0
               /\ \A i \in 1 .. Len(m) :
                     Word(S, n + i) = ((m[i] * TwoTo[bits]) % Base) + BitsOut(m, i - 1, bits)
               /\ Word(S, n + Len(m) + 1) = BitsOut(m, Len(m), bits)
<1> DEFINE k == Len(m)
           b == TwoTo[bits]
           word(i) == ((m[i] * b) % Base) + BitsOut(m, i - 1, bits)
           Z == [i \in 1 .. n |-> 0]
           F == [i \in 1 .. k |-> word(i)]
           O == <<BitsOut(m, k, bits)>>
           S == ShiftedWords(m, n, bits)
<1>1. k \in Nat /\ Base \in Nat /\ Base >= 2 /\ b \in Nat \ {0} /\ b <= Base
  <2>1. b \in Nat \ {0} /\ TwoTo[WordBits - bits] \in Nat \ {0} /\ b * TwoTo[WordBits - bits] = Base
    <3>1. bits \in Nat /\ WordBits - bits \in Nat /\ bits + (WordBits - bits) = WordBits
      BY BaseFacts
    <3> QED
      <4>1. b \in Nat \ {0} /\ TwoTo[WordBits - bits] \in Nat \ {0}
        BY <3>1, TwoToFacts
      <4>2. TwoTo[bits + (WordBits - bits)] = b * TwoTo[WordBits - bits]
        BY <3>1, TwoToSum
      <4> QED
        BY <3>1, <4>1, <4>2 DEF Base
  <2> DEFINE c == TwoTo[WordBits - bits]
  <2>2. 1 * b <= c * b /\ c * b = b * c
    <3>1. 1 <= c /\ c \in Int /\ b \in Nat /\ 1 \in Int
      BY <2>1
    <3> HIDE DEF b, c
    <3> QED
      BY <3>1, TimesOrder, Times
  <2> QED
    BY <2>1, <2>2, MagIs, BaseFacts
<1>2. \A i \in 0 .. k : BitsOut(m, i, bits) \in 0 .. b - 1
  BY BitsOutIs
<1>3. \A i \in 1 .. k : (m[i] * b) % Base \in 0 .. Base - b
  BY BitsOutIs
<1>4. \A i \in 1 .. k : word(i) \in Words
  <2> SUFFICES ASSUME NEW i \in 1 .. k PROVE word(i) \in Words
    OBVIOUS
  <2> DEFINE y == (m[i] * b) % Base
             o == BitsOut(m, i - 1, bits)
  <2>1. i - 1 \in 0 .. k
    BY <1>1
  <2>2. y \in 0 .. Base - b /\ o \in 0 .. b - 1
    BY <1>2, <1>3, <2>1
  <2>3. y + o \in 0 .. Base - 1
    <3> HIDE DEF y, o, b
    <3> QED
      BY <1>1, <2>2
  <2> QED
    BY <2>3 DEF Words
<1>5. Z \in Seq(Words) /\ Len(Z) = n /\ \A i \in 1 .. n : Z[i] = 0
  <2>1. 0 \in Words
    BY BaseFacts DEF Words
  <2>2. Z \in [1 .. n -> Words]
    BY <2>1
  <2> HIDE DEF Z
  <2>3. Z \in Mags /\ Len(Z) = n
    BY <2>2, AsMag
  <2> QED
    BY <2>3 DEF Mags, Z
<1>6. F \in Seq(Words) /\ Len(F) = k /\ \A i \in 1 .. k : F[i] = word(i)
  <2> HIDE DEF word
  <2>2. F \in [1 .. k -> Words]
    BY <1>4
  <2>4. \A i \in 1 .. k : F[i] = word(i)
    OBVIOUS
  <2> HIDE DEF F, k
  <2>3. F \in Mags /\ Len(F) = k
    BY <1>1, <2>2, AsMag
  <2> QED
    BY <2>3, <2>4 DEF Mags
<1>7. O \in Seq(Words) /\ Len(O) = 1 /\ O[1] = BitsOut(m, k, bits)
  <2>1. BitsOut(m, k, bits) \in Words
    <3>1. k \in 0 .. k
      BY <1>1
    <3>2. BitsOut(m, k, bits) \in 0 .. b - 1
      BY <1>2, <3>1
    <3> HIDE DEF b
    <3> QED
      BY <1>1, <3>2 DEF Words
  <2> QED
    BY <2>1
<1> DEFINE ZF == Z \o F
<1>8. S = ZF \o O
  BY DEF ShiftedWords
<1> HIDE DEF Z, F, O, S, word, k, b
<1>9. /\ ZF \in Seq(Words) /\ Len(ZF) = n + k
      /\ \A i \in 1 .. n + k : ZF[i] = IF i <= n THEN Z[i] ELSE F[i - n]
  <2>1. Z \in Seq(Words) /\ F \in Seq(Words)
    BY <1>5, <1>6
  <2>2. /\ Z \o F \in Seq(Words) /\ Len(Z \o F) = Len(Z) + Len(F)
        /\ \A i \in 1 .. Len(Z) + Len(F) : (Z \o F)[i] = IF i <= Len(Z) THEN Z[i] ELSE F[i - Len(Z)]
    BY <2>1, ConcatProperties
  <2> QED
    BY <1>5, <1>6, <2>2
<1> HIDE DEF ZF
<1>10. /\ S \in Seq(Words) /\ Len(S) = n + k + 1
       /\ \A i \in 1 .. n + k + 1 : S[i] = IF i <= n + k THEN ZF[i] ELSE O[i - (n + k)]
  <2>1. ZF \in Seq(Words) /\ O \in Seq(Words)
    BY <1>7, <1>9
  <2>2. /\ ZF \o O \in Seq(Words) /\ Len(ZF \o O) = Len(ZF) + Len(O)
        /\ \A i \in 1 .. Len(ZF) + Len(O) :
              (ZF \o O)[i] = IF i <= Len(ZF) THEN ZF[i] ELSE O[i - Len(ZF)]
    BY <2>1, ConcatProperties
  <2> QED
    BY <1>7, <1>8, <1>9, <2>2
<1>11. S \in Mags /\ \A i \in 1 .. n + k + 1 : Word(S, i) = S[i]
  BY <1>10 DEF Mags, Word
<1>12. ASSUME NEW i \in 1 .. n PROVE Word(S, i) = 0
  <2>1. i \in 1 .. n + k + 1 /\ i <= n + k /\ i \in 1 .. n + k /\ i <= n
    BY <1>1
  <2> QED
    BY <1>5, <1>9, <1>10, <1>11, <2>1
<1>13. ASSUME NEW i \in 1 .. k PROVE Word(S, n + i) = word(i)
  <2>1. /\ n + i \in 1 .. n + k + 1 /\ n + i <= n + k /\ n + i \in 1 .. n + k /\ ~ (n + i <= n)
        /\ (n + i) - n = i
    BY <1>1
  <2> QED
    BY <1>6, <1>9, <1>10, <1>11, <2>1
<1>14. Word(S, n + k + 1) = BitsOut(m, k, bits)
  <2>1. n + k + 1 \in 1 .. n + k + 1 /\ ~ (n + k + 1 <= n + k) /\ (n + k + 1) - (n + k) = 1
    BY <1>1
  <2> QED
    BY <1>7, <1>10, <1>11, <2>1
<1> QED
  BY <1>10, <1>11, <1>12, <1>13, <1>14 DEF S, k, word, b

\* After every word of the loop: what has been shifted is in the words of the
\* result and in the bits that left the last word.
LEMMA ShiftedLow ==
    ASSUME NEW m \in Mags, NEW q \in Nat, NEW bits \in 0 .. WordBits - 1
    PROVE  \A i \in 0 .. Len(m) :
              Low(ShiftedWords(m, q, bits))[q + i] + BitsOut(m, i, bits) * Place(q + i)
                = (Low(m)[i] * TwoTo[bits]) * Place(q)
<1> DEFINE k == Len(m)
           b == TwoTo[bits]
           S == ShiftedWords(m, q, bits)
           out(i) == BitsOut(m, i, bits)
           Ok(i) == Low(S)[q + i] + out(i) * Place(q + i) = (Low(m)[i] * b) * Place(q)
           N == {i \in Nat : i <= k => Ok(i)}
<1>1. /\ k \in Nat /\ S \in Mags /\ b \in Nat \ {0} /\ out(0) = 0
      /\ \A i \in 0 .. k : out(i) \in 0 .. b - 1
  BY MagIs, ShiftedWordsAre, BitsOutIs
<1>2. \A i \in 1 .. q : Word(S, i) = 0
  BY ShiftedWordsAre
<1>3. \A i \in 1 .. k : /\ (m[i] * b) % Base \in 0 .. Base - b
                        /\ m[i] * b = ((m[i] * b) % Base) + out(i) * Base
                        /\ Word(S, q + i) = ((m[i] * b) % Base) + out(i - 1)
  BY BitsOutIs, ShiftedWordsAre
<1>4. Low(S)[q] = 0
  <2> HIDE DEF S
  <2>1. \A i \in 0 + 1 .. q : Word(S, i) = Word(<<>>, i)
    BY <1>2, EmptyMag
  <2>2. Low(S)[q] - Low(<<>>)[q] = Low(S)[0] - Low(<<>>)[0]
    BY <1>1, <2>1, EmptyMag, LowSame
  <2>3. Low(<<>>)[q] = 0 /\ Low(<<>>)[0] = 0 /\ Low(S)[0] = 0 /\ Low(S)[q] \in Nat
    BY <1>1, LowZero, LowIs
  <2> QED
    BY <2>2, <2>3
<1> HIDE DEF S, b, out, k
<1>5. 0 \in N
  <2>1. Low(m)[0] = 0 /\ q + 0 = q
    BY LowIs
  <2>2. 0 * b = 0 /\ 0 * Place(q) = 0
    BY <1>1, PlaceFacts
  <2> QED
    BY <1>1, <1>4, <2>1, <2>2
<1>6. ASSUME NEW n \in Nat, n \in N PROVE n + 1 \in N
  <2> SUFFICES ASSUME n + 1 <= k PROVE Ok(n + 1)
    OBVIOUS
  <2> DEFINE u == m[n + 1]
             s == (u * b) % Base
             d == out(n)
             e == out(n + 1)
             w == Word(S, q + n + 1)
             P == Place(q + n)
             Q == Place(q)
             R == Place(n)
  <2>1. n \in 0 .. k /\ n + 1 \in 0 .. k /\ n + 1 \in 1 .. k /\ n + 1 - 1 = n
        /\ q + (n + 1) = q + n + 1
    BY <1>1
  <2>2. u \in Nat /\ Word(m, n + 1) = u
    BY <2>1, MagIs DEF k, Words
  <2>3. /\ b \in Nat /\ d \in Nat /\ e \in Nat /\ s \in Nat
        /\ u * b = s + e * Base /\ w = s + d
    BY <1>1, <1>3, <2>1
  <2>4. /\ P \in Nat /\ Q \in Nat /\ R \in Nat /\ P = R * Q
        /\ Place(q + n + 1) = Base * P /\ Base \in Nat
    <3>1. q + n \in Nat /\ (q + n) + 1 = q + n + 1 /\ n + q = q + n
      OBVIOUS
    <3>2. Place(n + q) = Place(n) * Place(q)
      BY PlaceSum
    <3>3. Place(q + n) \in Nat /\ Place(q) \in Nat /\ Place(n) \in Nat
          /\ Place((q + n) + 1) = Base * Place(q + n)
      BY <3>1, PlaceFacts
    <3> QED
      BY <3>1, <3>2, <3>3, BaseFacts
  <2>5. /\ Low(S)[q + n] \in Nat /\ Low(m)[n] \in Nat
        /\ Low(S)[q + n + 1] = Low(S)[q + n] + w * P
        /\ Low(m)[n + 1] = Low(m)[n] + u * R
    <3>1. q + n \in Nat /\ (q + n) + 1 = q + n + 1
      OBVIOUS
    <3>2. Low(S)[q + n] \in Nat /\ Low(S)[(q + n) + 1] = Low(S)[q + n] + Word(S, (q + n) + 1) * P
      BY <1>1, <3>1, LowIs
    <3>3. Low(m)[n] \in Nat /\ Low(m)[n + 1] = Low(m)[n] + Word(m, n + 1) * R
      BY LowIs
    <3> QED
      BY <2>2, <3>1, <3>2, <3>3
  <2>6. Low(S)[q + n] + d * P = (Low(m)[n] * b) * Q
    BY <1>6, <2>1
  <2> DEFINE g == Low(S)[q + n]
             h == Low(m)[n]
             t == u * b
  <2>7. g \in Nat /\ h \in Nat /\ t \in Int
    BY <2>2, <2>3, <2>5, Times
  <2> HIDE DEF u, s, d, e, w, P, Q, R, g, h, t
  \* What the next word of m is worth, shifted.
  <2>8. ((u * R) * b) * Q = s * P + e * (Base * P)
    <3>1. (u * R) * b = u * (R * b) /\ R * b = b * R /\ u * (b * R) = t * R
      BY <2>2, <2>3, <2>4, TimesTimes, Times DEF t
    <3>2. (t * R) * Q = t * (R * Q)
      BY <2>4, <2>7, TimesTimes
    <3>3. (s + e * Base) * P = s * P + (e * Base) * P
      <4>1. e * Base \in Int /\ s \in Int /\ P \in Int
        BY <2>3, <2>4, Times
      <4> QED
        BY <4>1, TimesAdd
    <3>4. (e * Base) * P = e * (Base * P)
      BY <2>3, <2>4, TimesTimes
    <3> QED
      BY <2>3, <2>4, <3>1, <3>2, <3>3, <3>4 DEF t
  <2>9. ((h + u * R) * b) * Q = (h * b) * Q + ((u * R) * b) * Q
    <3>1. u * R \in Int /\ h \in Int /\ b \in Int /\ Q \in Int
      BY <2>2, <2>3, <2>4, <2>7, Times
    <3>2. (h + u * R) * b = h * b + (u * R) * b
      BY <3>1, TimesAdd
    <3>3. h * b \in Int /\ (u * R) * b \in Int
      BY <3>1, Times
    <3> QED
      BY <3>1, <3>2, <3>3, TimesAdd
  <2>10. w * P = s * P + d * P
    BY <2>3, <2>4, TimesAdd
  <2> DEFINE sp == s * P
             dp == d * P
             wp == w * P
             ep == e * Place(q + n + 1)
             hq == (h * b) * Q
             uq == ((u * R) * b) * Q
  <2>11. sp \in Int /\ dp \in Int /\ wp \in Int /\ ep \in Int /\ hq \in Int /\ uq \in Int
    <3>1. w \in Int /\ Place(q + n + 1) \in Int
      BY <2>3, <2>4, Times
    <3>2. h * b \in Int /\ (u * R) * b \in Int
      <4>1. u * R \in Int
        BY <2>2, <2>4, Times
      <4> QED
        BY <2>3, <2>7, <4>1, Times
    <3> QED
      BY <2>3, <2>4, <3>1, <3>2, Times
  <2>12. /\ uq = sp + ep /\ wp = sp + dp /\ g + dp = hq
         /\ Low(S)[q + n + 1] = g + wp
         /\ (Low(m)[n + 1] * b) * Q = hq + uq
    BY <2>4, <2>5, <2>6, <2>8, <2>9, <2>10 DEF g, h
  <2>13. Low(S)[q + n + 1] + ep = (Low(m)[n + 1] * b) * Q
    <3> HIDE DEF sp, dp, wp, ep, hq, uq
    <3>1. (g + wp) + ep = hq + uq
      BY <2>7, <2>11, <2>12
    <3> QED
      BY <2>12, <3>1
  <2> QED
    BY <2>1, <2>13 DEF e, Q
<1>7. \A n \in Nat : n \in N
  <2> HIDE DEF N
  <2> QED
    BY <1>5, <1>6, AllNumbers
<1>8. \A i \in 0 .. k : Ok(i)
  BY <1>1, <1>7
<1> QED
  BY <1>8 DEF k, S, b, out

LEMMA ShiftedIs ==
    ASSUME NEW v \in BigInts, NEW n \in Nat
    PROVE  /\ Shifted(v, n) \in Unsigned
           /\ Absolute(Shifted(v, n).magnitude) = Absolute(v.magnitude) * TwoTo[n]
           /\ \/ Len(Shifted(v, n).magnitude) <= 1
              \/ Significant(Shifted(v, n).magnitude) = Len(Shifted(v, n).magnitude)
<1> DEFINE m == v.magnitude
           k == Len(m)
           q == n \div WordBits
           bits == n % WordBits
           b == TwoTo[bits]
           S == ShiftedWords(m, q, bits)
           o == BitsOut(m, k, bits)
<1>1. m \in Mags /\ k \in Nat
  BY BigIs, MagIs
<1>2. q \in Nat /\ bits \in 0 .. WordBits - 1 /\ n = q * WordBits + bits
  <2>1. WordBits \in Nat \ {0}
    BY BaseFacts
  <2>2. q \in Int /\ bits \in 0 .. WordBits - 1 /\ n = q * WordBits + bits
    BY <2>1, Division
  <2>3. q >= 0
    BY <2>1
  <2> QED
    BY <2>2, <2>3
<1>3. Shifted(v, n) = [magnitude |-> Trimmed(S), sign |-> FALSE]
  BY DEF Shifted, ShiftedWords
<1> HIDE DEF m, q, bits
<1>4. S \in Mags /\ Len(S) = q + k + 1 /\ Word(S, q + k + 1) = o
  BY <1>1, <1>2, ShiftedWordsAre
<1>5. Low(S)[q + k] + o * Place(q + k) = (Low(m)[k] * b) * Place(q)
  <2>1. k \in 0 .. Len(m)
    BY <1>1
  <2> QED
    BY <1>1, <1>2, <2>1, ShiftedLow
<1> HIDE DEF S, o
<1>6. Low(S)[q + k + 1] = Low(S)[q + k] + o * Place(q + k)
  <2>1. q + k \in Nat /\ (q + k) + 1 = q + k + 1
    BY <1>1, <1>2
  <2>2. Low(S)[(q + k) + 1] = Low(S)[q + k] + Word(S, (q + k) + 1) * Place(q + k)
    BY <1>4, <2>1, LowIs
  <2> QED
    BY <1>4, <2>1, <2>2
<1>7. Low(m)[k] = Absolute(m) /\ Low(S)[q + k + 1] = Absolute(S) /\ Absolute(m) \in Nat
  <2>1. Low(m)[k] = Absolute(m) /\ Absolute(m) \in Nat
    BY <1>1, AbsoluteFacts
  <2>2. q + k + 1 \in Nat /\ q + k + 1 >= Len(S)
    BY <1>1, <1>2, <1>4
  <2> HIDE DEF k
  <2>3. Low(S)[q + k + 1] = Absolute(S)
    BY <1>4, <2>2, AbsoluteFacts
  <2> QED
    BY <2>1, <2>3
<1>8. (Absolute(m) * b) * Place(q) = Absolute(m) * TwoTo[n]
  <2>1. WordBits * q \in Nat /\ bits + WordBits * q = n /\ bits \in Nat
    <3>1. WordBits * q = q * WordBits /\ WordBits * q \in Nat
      BY <1>2, BaseFacts, Times, TimesNat
    <3>2. q * WordBits \in Nat
      BY <3>1
    <3> DEFINE p == q * WordBits
    <3>3. p \in Nat /\ n = p + bits /\ WordBits * q = p
      BY <1>2, <3>1
    <3> HIDE DEF p
    <3> QED
      BY <1>2, <3>3
  <2>2. TwoTo[n] = b * Place(q)
    BY <2>1, TwoToSum DEF Place
  <2>3. b \in Int /\ Place(q) \in Int
    BY <1>2, <2>1, TwoToFacts, PlaceFacts
  <2> HIDE DEF b
  <2> QED
    BY <1>7, <2>2, <2>3, TimesTimes
<1>9. /\ Trimmed(S) \in Mags /\ Absolute(Trimmed(S)) = Absolute(S)
      /\ Len(Trimmed(S)) <= 1 \/ Len(Trimmed(S)) = Significant(Trimmed(S))
  BY <1>4, TrimmedIs, TrimmedSame
<1>10. /\ Shifted(v, n) \in BigInts /\ Shifted(v, n).magnitude = Trimmed(S)
       /\ Shifted(v, n).sign = FALSE
  BY <1>3, <1>9, MakeBig
<1>11. Absolute(S) = Absolute(m) * TwoTo[n]
  BY <1>5, <1>6, <1>7, <1>8
<1> QED
  BY <1>9, <1>10, <1>11, UnsignedIs DEF m

-----------------------------------------------------------------------------
(* Products.                                                               *)

\* A product of words and two words more fit in two words.
LEMMA WordProduct ==
    ASSUME NEW a \in Words, NEW b \in Words, NEW c \in Words, NEW d \in Words
    PROVE  LET t == a * b + c + d
           IN  /\ t % Base \in Words /\ t \div Base \in Words
               /\ t = (t % Base) + (t \div Base) * Base
<1> DEFINE t == a * b + c + d
           p == a * b
           q == t \div Base
           r == t % Base
           s == Base - 1
<1>1. /\ a \in Nat /\ b \in Nat /\ c \in Nat /\ d \in Nat /\ Base \in Nat \ {0} /\ s \in Nat
      /\ a <= s /\ b <= s /\ c <= s /\ d <= s
  BY BaseFacts DEF Words
<1>2. p \in Nat
  BY <1>1, TimesNat
<1>3. p <= Base * Base - Base - s
  <2> DEFINE ss == s * s
             sb == s * b
             bb == Base * Base
  <2>1. p <= sb
    <3> HIDE DEF s
    <3> QED
      BY <1>1, TimesOrder
  <2>2. b * s <= ss /\ b * s = sb
    <3> HIDE DEF s
    <3> QED
      BY <1>1, TimesOrder, Times
  <2>3. (Base - 1) * s = Base * s - 1 * s /\ Base * s = (Base - 1) * Base
    <3>1. Base \in Int /\ 1 \in Int /\ s \in Int
      BY <1>1
    <3>2. (Base - 1) * s = Base * s - 1 * s
      <4> HIDE DEF s
      <4> QED
        BY <3>1, TimesMinus
    <3>3. Base * s = s * Base
      <4> HIDE DEF s
      <4> QED
        BY <3>1, Times
    <3> QED
      BY <3>2, <3>3
  <2>4. (Base - 1) * Base = bb - 1 * Base
    <3>1. Base \in Int /\ 1 \in Int
      BY <1>1
    <3> QED
      BY <3>1, TimesMinus
  <2>5. bb \in Int /\ sb \in Int /\ ss \in Int
    <3>1. Base \in Int /\ s \in Int /\ b \in Int
      BY <1>1
    <3> HIDE DEF s
    <3> QED
      BY <3>1, Times
  <2>6. ss = bb - Base - s
    <3>1. 1 * s = s /\ 1 * Base = Base
      BY <1>1
    <3> DEFINE bs == Base * s
    <3>2. ss = bs - s /\ bs = bb - Base
      BY <2>3, <2>4, <3>1
    <3> HIDE DEF ss, bs, s, bb
    <3> QED
      BY <1>1, <2>5, <3>2
  <2> HIDE DEF ss, sb, bb, p
  <2>7. p <= bb - Base - s
    <3> HIDE DEF s
    <3> QED
      BY <1>1, <1>2, <2>1, <2>2, <2>5, <2>6
  <2> QED
    BY <2>7 DEF bb
<1> DEFINE bb == Base * Base
<1>4. t \in Nat /\ t < bb /\ bb \in Nat
  <2>1. t = p + c + d /\ bb \in Nat
    BY <1>1, TimesNat
  <2>2. p <= bb - Base - s /\ s = Base - 1
    BY <1>3
  <2> HIDE DEF t, p, bb, s
  <2> QED
    BY <1>1, <1>2, <2>1, <2>2
<1> HIDE DEF t
<1>5. q \in Int /\ r \in 0 .. Base - 1 /\ t = q * Base + r
  BY <1>1, <1>4, Division
<1>6. q >= 0
  BY <1>1, <1>4
<1> HIDE DEF q, r
<1>7. q < Base
  <2> SUFFICES ASSUME Base <= q PROVE FALSE
    BY <1>1, <1>5
  <2> DEFINE qb == q * Base
  <2>1. bb <= qb
    BY <1>1, <1>5, TimesOrder
  <2>2. qb \in Int /\ t = qb + r
    BY <1>1, <1>5, Times
  <2> HIDE DEF qb, bb
  <2> QED
    BY <1>4, <1>5, <2>1, <2>2
<1>8. t = r + q * Base
  <2> DEFINE qb == q * Base
  <2>1. qb \in Int /\ t = qb + r
    BY <1>1, <1>5, Times
  <2> HIDE DEF qb
  <2>2. t = r + qb
    BY <1>5, <2>1
  <2> QED
    BY <2>2 DEF qb
<1>9. q \in Words /\ r \in Words
  BY <1>1, <1>5, <1>6, <1>7 DEF Words
<1> QED
  BY <1>8, <1>9 DEF t, q, r

LEMMA RowCarryIs ==
    ASSUME NEW acc \in Mags, NEW b \in Mags, NEW a \in Words, NEW i \in Nat \ {0},
           Len(acc) >= i + Len(b)
    PROVE  LET c == RowCarry(acc, i, a, b)
           IN  /\ c \in [0 .. Len(b) -> Words] /\ c[0] = 0
               /\ \A j \in 1 .. Len(b) : c[j] = (a * b[j] + acc[i + j - 1] + c[j - 1]) \div Base
<1> DEFINE N == 0 .. Len(b)
           F == RowCarry(acc, i, a, b)
           t(j, c) == (a * b[j] + acc[i + j - 1] + c) \div Base
           Is(f) == f = [j \in N |-> IF j = 0 THEN 0 ELSE t(j, f[j - 1])]
           step == [p \in N \X Words |-> IF p[1] = 0 THEN 0 ELSE t(p[1], p[2])]
<1>0. Len(b) \in Nat /\ 0 \in Words
  BY MagIs, BaseFacts DEF Words
<1>1. \A j \in N \ {0}, c \in Words : t(j, c) \in Words
  <2> SUFFICES ASSUME NEW j \in N \ {0}, NEW c \in Words PROVE t(j, c) \in Words
    OBVIOUS
  <2>1. j \in 1 .. Len(b) /\ i + j - 1 \in 1 .. Len(acc)
    BY <1>0, MagIs
  <2>2. b[j] \in Words /\ acc[i + j - 1] \in Words
    BY <2>1, MagIs
  <2> QED
    BY <2>2, WordProduct
<1> HIDE DEF t
<1>2. PICK f \in [N -> Words] : \A j \in N : f[j] = IF j = 0 THEN 0 ELSE step[<<j, f[j - 1]>>]
  <2>1. step \in [N \X Words -> Words]
    BY <1>0, <1>1
  <2> HIDE DEF step
  <2>2. Counts(Words, N, 0, step)
    BY <1>0, <2>1 DEF Counts
  <2> HIDE DEF N
  <2> QED
    BY <2>2, Counting
<1>3. \A j \in N : f[j] = IF j = 0 THEN 0 ELSE t(j, f[j - 1])
  <2> SUFFICES ASSUME NEW j \in N, j # 0
               PROVE  f[j] = t(j, f[j - 1])
    BY <1>2
  <2>1. j - 1 \in N /\ f[j - 1] \in Words
    BY <1>0
  <2>2. <<j, f[j - 1]>> \in N \X Words /\ f[j] = step[<<j, f[j - 1]>>]
    BY <1>2, <2>1
  <2> QED
    BY <2>2
<1>4. Is(f)
  <2>1. f = [j \in N |-> f[j]]
    OBVIOUS
  <2> QED
    BY <1>3, <2>1
<1>5. F = CHOOSE g : Is(g)
  BY DEF RowCarry, t
<1>6. Is(F)
  <2> HIDE DEF Is, F
  <2> QED
    BY <1>4, <1>5
<1> HIDE DEF F
<1>7. /\ F = [j \in N |-> F[j]] /\ F[0] = 0
      /\ \A j \in N \ {0} : F[j] = t(j, F[j - 1])
  <2>1. 0 \in N
    BY <1>0
  <2> HIDE DEF N
  <2> QED
    BY <1>6, <2>1
<1> DEFINE S == {n \in Nat : n \in N => F[n] \in Words}
<1>8. \A n \in Nat : n \in S
  <2>1. 0 \in S
    BY <1>0, <1>7
  <2>2. ASSUME NEW n \in Nat, n \in S PROVE n + 1 \in S
    <3> SUFFICES ASSUME n + 1 \in N PROVE F[n + 1] \in Words
      OBVIOUS
    <3>1. n \in N /\ n + 1 \in N \ {0} /\ (n + 1) - 1 = n
      BY <1>0
    <3>2. F[n] \in Words
      BY <2>2, <3>1
    <3>3. F[n + 1] = t(n + 1, F[n])
      <4> HIDE DEF N
      <4> QED
        BY <1>7, <3>1
    <3> HIDE DEF N
    <3> QED
      BY <1>1, <3>1, <3>2, <3>3
  <2> HIDE DEF S
  <2> QED
    BY <2>1, <2>2, AllNumbers
<1>9. F \in [N -> Words]
  <2>1. \A j \in N : F[j] \in Words
    BY <1>0, <1>8
  <2> HIDE DEF N
  <2> QED
    BY <1>7, <2>1
<1>10. 1 .. Len(b) = N \ {0}
  BY <1>0
<1> HIDE DEF N
<1>11. \A j \in 1 .. Len(b) : F[j] = t(j, F[j - 1])
  BY <1>7, <1>10
<1> QED
  BY <1>7, <1>9, <1>11 DEF N, F, t

\* A row goes into the words from i on, where the result is still zero above.
LEMMA RowAddedWords ==
    ASSUME NEW acc \in Mags, NEW b \in Mags, NEW a \in Words, NEW i \in Nat \ {0},
           Len(acc) >= i + Len(b), Word(acc, i + Len(b)) = 0
    PROVE  LET c == RowCarry(acc, i, a, b)
               R == RowAdded(acc, i, a, b)
           IN  /\ R \in Mags /\ Len(R) = Len(acc)
               /\ \A k \in 1 .. i - 1 : Word(R, k) = Word(acc, k)
               /\ \A j \in 1 .. Len(b) :
                     a * b[j] + Word(acc, i + j - 1) + c[j - 1] = Word(R, i + j - 1) + c[j] * Base
               /\ Word(R, i + Len(b)) = c[Len(b)]
               /\ \A k \in Nat : k > i + Len(b) => Word(R, k) = Word(acc, k)
<1> DEFINE c == RowCarry(acc, i, a, b)
           R == RowAdded(acc, i, a, b)
           n == Len(b)
           L == Len(acc)
           in(k) == (a * b[k - i + 1] + acc[k] + c[k - i]) % Base
           end == (acc[i + n] + c[n]) % Base
           new(k) == IF k \in i .. i + n - 1 THEN in(k) ELSE IF k = i + n THEN end ELSE acc[k]
<1>1. /\ n \in Nat /\ L \in Nat /\ L >= i + n /\ DOMAIN acc = 1 .. L
      /\ \A k \in 1 .. L : acc[k] \in Words /\ Word(acc, k) = acc[k]
      /\ \A j \in 1 .. n : b[j] \in Words
  BY MagIs
<1>2. /\ c \in [0 .. n -> Words] /\ c[0] = 0
      /\ \A j \in 1 .. n : c[j] = (a * b[j] + acc[i + j - 1] + c[j - 1]) \div Base
  BY RowCarryIs
<1> HIDE DEF c
<1>3. ASSUME NEW k \in i .. i + n - 1
      PROVE  /\ in(k) \in Words
             /\ a * b[k - i + 1] + acc[k] + c[k - i] = in(k) + c[k - i + 1] * Base
  <2> DEFINE j == k - i + 1
  <2>1. j \in 1 .. n /\ i + j - 1 = k /\ j - 1 = k - i /\ k - i \in 0 .. n /\ k \in 1 .. L
    BY <1>1
  <2>2. b[j] \in Words /\ acc[k] \in Words /\ c[k - i] \in Words
    BY <1>1, <1>2, <2>1
  <2>3. c[j] = (a * b[j] + acc[k] + c[k - i]) \div Base
    BY <1>2, <2>1
  <2> HIDE DEF j
  <2>4. /\ (a * b[j] + acc[k] + c[k - i]) % Base \in Words
        /\ a * b[j] + acc[k] + c[k - i] = ((a * b[j] + acc[k] + c[k - i]) % Base) + c[j] * Base
    BY <2>2, <2>3, WordProduct
  <2> QED
    BY <2>4 DEF j
<1> HIDE DEF in
<1>4. c[n] \in Words /\ end = c[n]
  <2>1. n \in 0 .. n /\ i + n \in 1 .. L
    BY <1>1
  <2>2. c[n] \in Words /\ acc[i + n] = 0
    BY <1>1, <1>2, <2>1
  <2>3. end = (0 + c[n]) % Base
    BY <2>2
  <2>4. c[n] \in 0 .. Base - 1 /\ Base \in Nat \ {0}
    BY <2>2, BaseFacts DEF Words
  <2> DEFINE s == c[n]
  <2>5. (0 + s) % Base = s
    <3> HIDE DEF s
    <3> QED
      BY <2>4 DEF s
  <2> QED
    BY <2>2, <2>3, <2>5
<1> HIDE DEF end
<1>5. R = [k \in 1 .. L |-> new(k)]
  BY <1>1 DEF RowAdded, c, in, end
<1>6. \A k \in 1 .. L : new(k) \in Words
  BY <1>1, <1>3, <1>4
<1>7. R \in [1 .. L -> Words]
  BY <1>5, <1>6
<1>8. R \in Mags /\ Len(R) = L /\ \A k \in Nat : Word(R, k) = IF k <= L THEN R[k] ELSE 0
  <2> HIDE DEF R, L
  <2> QED
    BY <1>1, <1>7, AsMag
<1>9. \A k \in 1 .. L : Word(R, k) = new(k)
  <2> HIDE DEF new
  <2>1. \A k \in 1 .. L : R[k] = new(k)
    BY <1>5
  <2> HIDE DEF R
  <2> QED
    BY <1>1, <1>8, <2>1
<1> HIDE DEF R
<1>10. ASSUME NEW k \in 1 .. i - 1 PROVE Word(R, k) = Word(acc, k)
  <2>1. k \in 1 .. L /\ k \notin i .. i + n - 1 /\ k # i + n
    BY <1>1
  <2> QED
    BY <1>1, <1>9, <2>1
<1>11. ASSUME NEW j \in 1 .. n
       PROVE  a * b[j] + Word(acc, i + j - 1) + c[j - 1] = Word(R, i + j - 1) + c[j] * Base
  <2> DEFINE k == i + j - 1
  <2>1. k \in i .. i + n - 1 /\ k \in 1 .. L /\ k - i + 1 = j /\ k - i = j - 1
    BY <1>1
  <2> HIDE DEF k
  <2>2. Word(R, k) = in(k) /\ Word(acc, k) = acc[k]
    BY <1>1, <1>9, <2>1
  <2>3. a * b[k - i + 1] + acc[k] + c[k - i] = in(k) + c[k - i + 1] * Base
    BY <1>3, <2>1
  <2> QED
    BY <2>1, <2>2, <2>3 DEF k
<1>12. Word(R, i + n) = c[n]
  <2>1. i + n \in 1 .. L /\ i + n \notin i .. i + n - 1
    BY <1>1
  <2> QED
    BY <1>4, <1>9, <2>1
<1>13. ASSUME NEW k \in Nat, k > i + n PROVE Word(R, k) = Word(acc, k)
  <2>1. CASE k <= L
    <3>1. k \in 1 .. L /\ k \notin i .. i + n - 1 /\ k # i + n
      BY <1>1, <1>13, <2>1
    <3> QED
      BY <1>1, <1>9, <3>1
  <2>2. CASE ~ (k <= L)
    BY <1>8, <2>2 DEF Word
  <2> QED
    BY <2>1, <2>2
<1> QED
  BY <1>8, <1>10, <1>11, <1>12, <1>13 DEF R, c, n

\* Word by word, a row adds a times b at its place.
LEMMA RowAddedLow ==
    ASSUME NEW acc \in Mags, NEW b \in Mags, NEW a \in Words, NEW q \in Nat,
           Len(acc) >= q + 1 + Len(b), Word(acc, q + 1 + Len(b)) = 0
    PROVE  \A i \in 0 .. Len(b) :
              Low(RowAdded(acc, q + 1, a, b))[q + i] + RowCarry(acc, q + 1, a, b)[i] * Place(q + i)
                = Low(acc)[q + i] + (a * Low(b)[i]) * Place(q)
<1> DEFINE k == Len(b)
           R == RowAdded(acc, q + 1, a, b)
           c == RowCarry(acc, q + 1, a, b)
           Ok(i) == Low(R)[q + i] + c[i] * Place(q + i)
                      = Low(acc)[q + i] + (a * Low(b)[i]) * Place(q)
           N == {i \in Nat : i <= k => Ok(i)}
<1>0. q + 1 \in Nat \ {0} /\ a \in Nat /\ q + 1 - 1 = q
  BY BaseFacts DEF Words
<1>1. /\ k \in Nat /\ R \in Mags /\ c \in [0 .. k -> Words] /\ c[0] = 0
  BY <1>0, MagIs, RowAddedWords, RowCarryIs
<1>2. \A i \in 1 .. q : Word(R, i) = Word(acc, i)
  BY <1>0, RowAddedWords
<1>3. \A j \in 1 .. k : a * b[j] + Word(acc, q + 1 + j - 1) + c[j - 1]
                          = Word(R, q + 1 + j - 1) + c[j] * Base
  <2> DEFINE p == q + 1
  <2>1. p \in Nat \ {0} /\ Len(acc) >= p + Len(b) /\ Word(acc, p + Len(b)) = 0
    BY <1>0
  <2> HIDE DEF p
  <2>2. \A j \in 1 .. Len(b) :
           a * b[j] + Word(acc, p + j - 1) + RowCarry(acc, p, a, b)[j - 1]
             = Word(RowAdded(acc, p, a, b), p + j - 1) + RowCarry(acc, p, a, b)[j] * Base
    BY <2>1, RowAddedWords
  <2> QED
    BY <2>2 DEF p
<1> HIDE DEF R, c, k
<1>4. Low(R)[q] = Low(acc)[q]
  <2>1. \A i \in 0 + 1 .. q : Word(R, i) = Word(acc, i)
    BY <1>2
  <2>2. Low(R)[q] - Low(acc)[q] = Low(R)[0] - Low(acc)[0]
    BY <1>1, <2>1, LowSame
  <2>3. Low(R)[0] = 0 /\ Low(acc)[0] = 0 /\ Low(R)[q] \in Nat /\ Low(acc)[q] \in Nat
    BY <1>1, LowIs
  <2> QED
    BY <2>2, <2>3
<1>5. 0 \in N
  <2>1. Low(b)[0] = 0 /\ q + 0 = q
    BY LowIs
  <2>2. a * 0 = 0 /\ 0 * Place(q) = 0
    BY <1>0, PlaceFacts
  <2>3. Low(R)[q] \in Nat
    BY <1>1, LowIs
  <2> QED
    BY <1>1, <1>4, <2>1, <2>2, <2>3
<1>6. ASSUME NEW n \in Nat, n \in N PROVE n + 1 \in N
  <2> SUFFICES ASSUME n + 1 <= k PROVE Ok(n + 1)
    OBVIOUS
  <2> DEFINE u == b[n + 1]
             y == Word(acc, q + n + 1)
             w == Word(R, q + n + 1)
             d == c[n]
             e == c[n + 1]
             P == Place(q + n)
             Q == Place(q)
             T == Place(n)
  <2>1. /\ n \in 0 .. k /\ n + 1 \in 0 .. k /\ n + 1 \in 1 .. k /\ n + 1 - 1 = n
        /\ q + (n + 1) = q + n + 1 /\ q + 1 + (n + 1) - 1 = q + n + 1
        /\ q + n + 1 \in Nat \ {0} /\ n + 1 \in Nat \ {0}
    BY <1>1
  <2>2. u \in Nat /\ Word(b, n + 1) = u /\ y \in Nat /\ w \in Nat
    BY <1>1, <2>1, MagIs, WordType DEF k, Words
  <2>3. d \in Nat /\ e \in Nat /\ a * u + y + d = w + e * Base
    <3>1. d \in Words /\ e \in Words
      BY <1>1, <2>1
    <3>2. a * u + y + d = w + e * Base
      BY <1>3, <2>1
    <3> QED
      BY <3>1, <3>2, BaseFacts DEF Words
  <2>4. /\ P \in Nat /\ Q \in Nat /\ T \in Nat /\ P = T * Q
        /\ Place(q + n + 1) = Base * P /\ Base \in Nat
    <3>1. q + n \in Nat /\ (q + n) + 1 = q + n + 1 /\ n + q = q + n
      OBVIOUS
    <3>2. Place(n + q) = Place(n) * Place(q)
      BY PlaceSum
    <3>3. Place(q + n) \in Nat /\ Place(q) \in Nat /\ Place(n) \in Nat
          /\ Place((q + n) + 1) = Base * Place(q + n)
      BY <3>1, PlaceFacts
    <3> QED
      BY <3>1, <3>2, <3>3, BaseFacts
  <2>5. /\ Low(R)[q + n] \in Nat /\ Low(acc)[q + n] \in Nat /\ Low(b)[n] \in Nat
        /\ Low(R)[q + n + 1] = Low(R)[q + n] + w * P
        /\ Low(acc)[q + n + 1] = Low(acc)[q + n] + y * P
        /\ Low(b)[n + 1] = Low(b)[n] + u * T
    <3>1. q + n \in Nat /\ (q + n) + 1 = q + n + 1
      OBVIOUS
    <3>2. Low(R)[q + n] \in Nat /\ Low(R)[(q + n) + 1] = Low(R)[q + n] + Word(R, (q + n) + 1) * P
      BY <1>1, <3>1, LowIs
    <3>3. Low(b)[n] \in Nat /\ Low(b)[n + 1] = Low(b)[n] + Word(b, n + 1) * T
      BY LowIs
    <3>4. Low(acc)[q + n] \in Nat
          /\ Low(acc)[(q + n) + 1] = Low(acc)[q + n] + Word(acc, (q + n) + 1) * P
      BY <3>1, LowIs
    <3> QED
      BY <2>2, <3>1, <3>2, <3>3, <3>4
  <2>6. Low(R)[q + n] + d * P = Low(acc)[q + n] + (a * Low(b)[n]) * Q
    BY <1>6, <2>1
  <2> DEFINE g == Low(R)[q + n]
             f == Low(acc)[q + n]
             h == Low(b)[n]
             t == a * u
  <2>7. g \in Nat /\ h \in Nat /\ f \in Nat /\ t \in Int
    BY <1>0, <2>2, <2>5, Times
  <2> HIDE DEF u, y, d, e, w, P, Q, T, g, h, f, t
  \* What the next word of b is worth, times a.
  <2>8. (a * (u * T)) * Q = t * P
    <3>1. a * (u * T) = t * T
      BY <1>0, <2>2, <2>4, TimesTimes DEF t
    <3>2. (t * T) * Q = t * (T * Q)
      BY <2>4, <2>7, TimesTimes
    <3> QED
      BY <2>4, <3>1, <3>2
  <2>9. (a * (h + u * T)) * Q = (a * h) * Q + (a * (u * T)) * Q
    <3>1. u * T \in Int /\ h \in Int /\ a \in Int /\ Q \in Int
      BY <1>0, <2>2, <2>4, <2>7, Times
    <3>2. a * (h + u * T) = a * h + a * (u * T)
      <4> DEFINE z == u * T
      <4>1. z \in Int /\ (h + z) \in Int
        BY <3>1
      <4> HIDE DEF z
      <4>2. (h + z) * a = h * a + z * a
        BY <3>1, <4>1, TimesAdd
      <4>3. (h + z) * a = a * (h + z) /\ h * a = a * h /\ z * a = a * z
        BY <3>1, <4>1, Times
      <4> QED
        BY <4>2, <4>3 DEF z
    <3>3. a * h \in Int /\ a * (u * T) \in Int
      BY <3>1, Times
    <3> QED
      BY <3>1, <3>2, <3>3, TimesAdd
  <2>10. t * P + y * P + d * P = w * P + e * (Base * P)
    <3>1. /\ t \in Int /\ y \in Int /\ d \in Int /\ w \in Int /\ e \in Int /\ P \in Int
          /\ Base \in Int /\ e * Base \in Int /\ t + y + d = w + e * Base
      BY <2>2, <2>3, <2>4, <2>7, Times DEF t
    <3>2. (t + y + d) * P = t * P + y * P + d * P
      <4>1. t + y \in Int
        BY <3>1
      <4>2. ((t + y) + d) * P = (t + y) * P + d * P
        BY <3>1, <4>1, TimesAdd
      <4>3. (t + y) * P = t * P + y * P
        BY <3>1, TimesAdd
      <4> QED
        BY <4>2, <4>3
    <3>3. (w + e * Base) * P = w * P + (e * Base) * P
      BY <3>1, TimesAdd
    <3>4. (e * Base) * P = e * (Base * P)
      BY <3>1, TimesTimes
    <3> QED
      BY <3>1, <3>2, <3>3, <3>4
  <2> DEFINE tp == t * P
             yp == y * P
             dp == d * P
             wp == w * P
             ep == e * Place(q + n + 1)
             hq == (a * h) * Q
             uq == (a * (u * T)) * Q
  <2>11. tp \in Int /\ yp \in Int /\ dp \in Int /\ wp \in Int /\ ep \in Int /\ hq \in Int
    <3>1. Place(q + n + 1) \in Int /\ a * h \in Int
      BY <1>0, <2>1, <2>7, PlaceFacts, Times
    <3> QED
      BY <2>2, <2>3, <2>4, <2>7, <3>1, Times
  <2>12. /\ uq = tp /\ tp + yp + dp = wp + ep /\ g + dp = f + hq
         /\ Low(R)[q + n + 1] = g + wp /\ Low(acc)[q + n + 1] = f + yp
         /\ (a * Low(b)[n + 1]) * Q = hq + uq
    BY <2>4, <2>5, <2>6, <2>8, <2>9, <2>10 DEF g, h, f
  <2>13. Low(R)[q + n + 1] + ep = Low(acc)[q + n + 1] + (a * Low(b)[n + 1]) * Q
    <3> HIDE DEF tp, yp, dp, wp, ep, hq, uq
    <3>1. (g + wp) + ep = (f + yp) + (hq + uq)
      BY <2>7, <2>11, <2>12
    <3> QED
      BY <2>12, <3>1
  <2> QED
    BY <2>1, <2>13 DEF e, Q
<1>7. \A n \in Nat : n \in N
  <2> HIDE DEF N
  <2> QED
    BY <1>5, <1>6, AllNumbers
<1>8. \A i \in 0 .. k : Ok(i)
  BY <1>1, <1>7
<1> QED
  BY <1>8 DEF k, R, c

\* What a row adds to the result.
LEMMA RowAddedIs ==
    ASSUME NEW acc \in Mags, NEW b \in Mags, NEW a \in Words, NEW q \in Nat,
           Len(acc) >= q + 1 + Len(b), \A i \in Nat : i > q + Len(b) => Word(acc, i) = 0
    PROVE  LET R == RowAdded(acc, q + 1, a, b)
           IN  /\ R \in Mags /\ Len(R) = Len(acc)
               /\ \A i \in Nat : i > q + 1 + Len(b) => Word(R, i) = 0
               /\ Absolute(R) = Absolute(acc) + (a * Absolute(b)) * Place(q)
<1> DEFINE k == Len(b)
           R == RowAdded(acc, q + 1, a, b)
           c == RowCarry(acc, q + 1, a, b)
           top == q + k
<1>1. q + 1 \in Nat \ {0} /\ k \in Nat /\ top \in Nat /\ q + 1 + k \in Nat
      /\ q + 1 + k = top + 1 /\ q + 1 + k > q + k
  BY MagIs
<1>2. Word(acc, q + 1 + k) = 0
  BY <1>1
<1>3. /\ R \in Mags /\ Len(R) = Len(acc) /\ Word(R, top + 1) = c[k]
      /\ \A i \in Nat : i > q + 1 + k => Word(R, i) = Word(acc, i)
  BY <1>1, <1>2, RowAddedWords
<1>4. Low(R)[top] + c[k] * Place(top) = Low(acc)[top] + (a * Low(b)[k]) * Place(q)
  <2>1. k \in 0 .. Len(b)
    BY <1>1
  <2> QED
    BY <1>2, <2>1, RowAddedLow
<1> HIDE DEF R, c, k
<1>5. Low(R)[top + 1] = Low(R)[top] + c[k] * Place(top)
  <2> HIDE DEF top
  <2> QED
    <3>1. Low(R)[top + 1] = Low(R)[top] + Word(R, top + 1) * Place(top)
      BY <1>1, <1>3, LowIs
    <3> QED
      BY <1>3, <3>1
<1>6. \A i \in Nat : i > top + 1 => Word(R, i) = 0
  <2> SUFFICES ASSUME NEW i \in Nat, i > top + 1 PROVE Word(R, i) = 0
    OBVIOUS
  <2>1. i > q + 1 + k /\ i > q + Len(b)
    BY <1>1 DEF k
  <2> QED
    BY <1>3, <2>1
<1>7. Low(R)[top + 1] = Absolute(R)
  <2> DEFINE n == Len(R) + (top + 1)
  <2>1. Len(R) \in Nat /\ top + 1 \in Nat /\ n \in Nat /\ n >= Len(R) /\ top + 1 <= n
    BY <1>1, <1>3, MagIs
  <2> HIDE DEF n, top
  <2>2. Low(R)[n] = Absolute(R)
    BY <1>3, <2>1, AbsoluteFacts
  <2>3. Low(R)[n] = Low(R)[top + 1]
    BY <1>3, <1>6, <2>1, LowAll
  <2> QED
    BY <2>2, <2>3
<1>8. Low(acc)[top] = Absolute(acc)
  <2> DEFINE n == Len(acc) + top
  <2>1. Len(acc) \in Nat /\ n \in Nat /\ n >= Len(acc) /\ top <= n
    BY <1>1, MagIs
  <2>4. \A i \in Nat : i > top => Word(acc, i) = 0
    BY DEF k
  <2> HIDE DEF n, top
  <2>2. Low(acc)[n] = Absolute(acc)
    BY <2>1, AbsoluteFacts
  <2>3. Low(acc)[n] = Low(acc)[top]
    BY <1>1, <2>1, <2>4, LowAll
  <2> QED
    BY <2>2, <2>3
<1>9. Low(b)[k] = Absolute(b)
  BY <1>1, AbsoluteFacts DEF k
<1>10. \A i \in Nat : i > q + 1 + k => Word(R, i) = 0
  BY <1>1, <1>6
<1>11. Absolute(R) = Absolute(acc) + (a * Absolute(b)) * Place(q)
  BY <1>4, <1>5, <1>7, <1>8, <1>9
<1> QED
  BY <1>3, <1>10, <1>11 DEF R, k

\* What the result is after i rows: words above those rows are zero.
RowsDone(a, b, i) ==
    {m \in Mags : /\ Len(m) = Len(a) + Len(b)
                  /\ \A k \in Nat : k > i + Len(b) => Word(m, k) = 0}

LEMMA RowsStart ==
    ASSUME NEW a \in Mags, NEW b \in Mags
    PROVE  LET Z == [k \in 1 .. Len(a) + Len(b) |-> 0]
           IN  Z \in RowsDone(a, b, 0) /\ Absolute(Z) = 0
<1> DEFINE L == Len(a) + Len(b)
           Z == [k \in 1 .. L |-> 0]
<1>1. L \in Nat
  BY MagIs
<1>2. Z \in [1 .. L -> Words]
  BY BaseFacts DEF Words
<1>3. Z \in Mags /\ Len(Z) = L /\ \A k \in Nat : Word(Z, k) = IF k <= L THEN Z[k] ELSE 0
  <2> HIDE DEF L, Z
  <2> QED
    BY <1>1, <1>2, AsMag
<1>4. \A k \in Nat \ {0} : Word(Z, k) = 0
  <2> SUFFICES ASSUME NEW k \in Nat \ {0} PROVE Word(Z, k) = 0
    OBVIOUS
  <2>1. CASE k <= L
    BY <1>1, <1>3, <2>1
  <2>2. CASE ~ (k <= L)
    BY <1>1, <1>3, <2>2
  <2> QED
    BY <2>1, <2>2
<1>5. Absolute(Z) = 0
  <2> HIDE DEF Z
  <2>1. \A k \in 0 + 1 .. L : Word(Z, k) = Word(<<>>, k)
    BY <1>4, EmptyMag
  <2>2. Low(Z)[L] - Low(<<>>)[L] = Low(Z)[0] - Low(<<>>)[0]
    <3>1. 0 \in Nat /\ 0 <= L
      BY <1>1
    <3> HIDE DEF L
    <3> QED
      BY <1>1, <1>3, <2>1, <3>1, EmptyMag, LowSame
  <2>3. Low(<<>>)[L] = 0 /\ Low(<<>>)[0] = 0 /\ Low(Z)[0] = 0 /\ Low(Z)[L] \in Nat
    BY <1>1, <1>3, LowZero, LowIs
  <2>4. Low(Z)[L] = Absolute(Z)
    <3>1. L >= Len(Z)
      BY <1>1, <1>3
    <3> HIDE DEF L
    <3> QED
      BY <1>1, <1>3, <3>1, AbsoluteFacts
  <2> QED
    BY <2>2, <2>3, <2>4
<1>6. \A k \in Nat : k > 0 + Len(b) => Word(Z, k) = 0
  <2>1. Len(b) \in Nat
    BY MagIs
  <2> HIDE DEF Z
  <2> QED
    BY <1>4, <2>1
<1> HIDE DEF Z
<1> QED
  BY <1>3, <1>5, <1>6 DEF RowsDone, Z

LEMMA RowsNext ==
    ASSUME NEW a \in Mags, NEW b \in Mags, NEW i \in 1 .. Len(a), NEW m \in RowsDone(a, b, i - 1)
    PROVE  /\ RowAdded(m, i, a[i], b) \in RowsDone(a, b, i)
           /\ Absolute(RowAdded(m, i, a[i], b))
                = Absolute(m) + (a[i] * Absolute(b)) * Place(i - 1)
<1> DEFINE q == i - 1
<1>1. /\ Len(a) \in Nat /\ Len(b) \in Nat /\ q \in Nat /\ q + 1 = i /\ a[i] \in Words
      /\ i + Len(b) <= Len(a) + Len(b)
  BY MagIs
<1>2. m \in Mags /\ Len(m) = Len(a) + Len(b) /\ \A k \in Nat : k > q + Len(b) => Word(m, k) = 0
  BY DEF RowsDone
<1> HIDE DEF q
<1>3. LET R == RowAdded(m, q + 1, a[i], b)
      IN  /\ R \in Mags /\ Len(R) = Len(m)
          /\ \A k \in Nat : k > q + 1 + Len(b) => Word(R, k) = 0
          /\ Absolute(R) = Absolute(m) + (a[i] * Absolute(b)) * Place(q)
  <2>1. m \in Mags /\ q \in Nat /\ a[i] \in Words
    BY <1>1, <1>2
  <2>2. Len(m) >= q + 1 + Len(b)
    BY <1>1, <1>2
  <2>3. \A k \in Nat : k > q + Len(b) => Word(m, k) = 0
    BY <1>2
  <2> QED
    BY <2>1, <2>2, <2>3, RowAddedIs, Zenon
<1> DEFINE R == RowAdded(m, i, a[i], b)
<1>4. /\ R \in Mags /\ Len(R) = Len(m) /\ \A k \in Nat : k > i + Len(b) => Word(R, k) = 0
      /\ Absolute(R) = Absolute(m) + (a[i] * Absolute(b)) * Place(q)
  BY <1>1, <1>3
<1>5. R \in RowsDone(a, b, i)
  <2> HIDE DEF R
  <2> QED
    BY <1>2, <1>4 DEF RowsDone
<1> QED
  BY <1>4, <1>5 DEF q

LEMMA RowsIs ==
    ASSUME NEW a \in Mags, NEW b \in Mags
    PROVE  LET R == Rows(a, b)
           IN  /\ R[0] = [k \in 1 .. Len(a) + Len(b) |-> 0]
               /\ \A i \in 1 .. Len(a) : R[i] = RowAdded(R[i - 1], i, a[i], b)
<1> DEFINE N == 0 .. Len(a)
           Z == [k \in 1 .. Len(a) + Len(b) |-> 0]
           F == Rows(a, b)
           Is(f) == f = [i \in N |-> IF i = 0 THEN Z ELSE RowAdded(f[i - 1], i, a[i], b)]
           S == Mags
           step == [p \in N \X Mags |->
                      IF p[1] # 0 /\ p[2] \in RowsDone(a, b, p[1] - 1)
                      THEN RowAdded(p[2], p[1], a[p[1]], b) ELSE Z]
<1>0. Len(a) \in Nat
  BY MagIs
<1>1. Z \in RowsDone(a, b, 0) /\ Z \in Mags
  BY RowsStart DEF RowsDone
<1> HIDE DEF Z
<1>2. step \in [N \X Mags -> Mags]
  <2> SUFFICES ASSUME NEW i \in N, NEW m \in Mags, i # 0, m \in RowsDone(a, b, i - 1)
               PROVE  RowAdded(m, i, a[i], b) \in Mags
    BY <1>1
  <2>1. i \in 1 .. Len(a)
    BY <1>0
  <2> QED
    BY <2>1, RowsNext DEF RowsDone
<1>3. PICK f \in [N -> Mags] : \A i \in N : f[i] = IF i = 0 THEN Z ELSE step[<<i, f[i - 1]>>]
  <2> HIDE DEF step
  <2>2. Counts(Mags, N, Z, step)
    BY <1>0, <1>1, <1>2 DEF Counts
  <2> HIDE DEF N
  <2> QED
    BY <2>2, Counting
<1>4. ASSUME NEW n \in Nat, n + 1 \in N, f[n] \in RowsDone(a, b, n)
      PROVE  f[n + 1] = RowAdded(f[n], n + 1, a[n + 1], b) /\ f[n + 1] \in RowsDone(a, b, n + 1)
  <2>1. n + 1 \in 1 .. Len(a) /\ n \in N /\ (n + 1) - 1 = n /\ n + 1 # 0
    BY <1>0, <1>4
  <2>2. f[n + 1] = step[<<n + 1, f[n]>>]
    BY <1>3, <1>4, <2>1
  <2>3. <<n + 1, f[n]>> \in N \X Mags
    BY <1>4, <2>1
  <2>4. f[n + 1] = RowAdded(f[n], n + 1, a[n + 1], b)
    BY <1>4, <2>1, <2>2, <2>3
  <2> HIDE DEF step, N
  <2>5. f[n] \in RowsDone(a, b, (n + 1) - 1)
    BY <1>4, <2>1
  <2> QED
    BY <2>1, <2>4, <2>5, RowsNext
<1>5. \A n \in Nat : n \in N => f[n] \in RowsDone(a, b, n)
  <2> DEFINE G == {n \in Nat : n \in N => f[n] \in RowsDone(a, b, n)}
  <2>1. 0 \in G
    BY <1>0, <1>1, <1>3
  <2>2. ASSUME NEW n \in Nat, n \in G PROVE n + 1 \in G
    <3> SUFFICES ASSUME n + 1 \in N PROVE f[n + 1] \in RowsDone(a, b, n + 1)
      OBVIOUS
    <3>1. n \in N
      BY <1>0
    <3> QED
      BY <1>4, <2>2, <3>1
  <2>3. \A n \in Nat : n \in G
    <3> HIDE DEF G
    <3> QED
      BY <2>1, <2>2, AllNumbers
  <2> QED
    BY <2>3
<1>6. \A i \in N : f[i] = IF i = 0 THEN Z ELSE RowAdded(f[i - 1], i, a[i], b)
  <2> SUFFICES ASSUME NEW i \in N PROVE f[i] = IF i = 0 THEN Z ELSE RowAdded(f[i - 1], i, a[i], b)
    OBVIOUS
  <2>1. CASE i = 0
    BY <1>3, <2>1
  <2>2. CASE i # 0
    <3>1. i - 1 \in Nat /\ i - 1 \in N /\ (i - 1) + 1 = i
      BY <1>0, <2>2
    <3>2. f[(i - 1) + 1] = RowAdded(f[i - 1], (i - 1) + 1, a[(i - 1) + 1], b)
      BY <1>4, <1>5, <3>1
    <3> QED
      BY <2>2, <3>1, <3>2
  <2> QED
    BY <2>1, <2>2
<1>7. Is(f)
  <2>1. f = [i \in N |-> f[i]]
    OBVIOUS
  <2> QED
    BY <1>6, <2>1
<1>8. F = CHOOSE g : Is(g)
  BY DEF Rows, Z
<1>9. Is(F)
  <2> HIDE DEF Is, F
  <2> QED
    BY <1>7, <1>8
<1> HIDE DEF F
<1>10. F[0] = Z /\ \A i \in N \ {0} : F[i] = RowAdded(F[i - 1], i, a[i], b)
  <2>1. 0 \in N
    BY <1>0
  <2> HIDE DEF N
  <2> QED
    BY <1>9, <2>1
<1>11. 1 .. Len(a) = N \ {0}
  BY <1>0
<1> HIDE DEF N
<1> QED
  BY <1>10, <1>11 DEF F, Z

LEMMA RowsLow ==
    ASSUME NEW a \in Mags, NEW b \in Mags
    PROVE  \A i \in 0 .. Len(a) : /\ Rows(a, b)[i] \in RowsDone(a, b, i)
                                  /\ Absolute(Rows(a, b)[i]) = Low(a)[i] * Absolute(b)
<1> DEFINE R == Rows(a, b)
           B == Absolute(b)
           Ok(i) == R[i] \in RowsDone(a, b, i) /\ Absolute(R[i]) = Low(a)[i] * B
           N == {n \in Nat : n <= Len(a) => Ok(n)}
<1>0. Len(a) \in Nat /\ B \in Nat
  BY MagIs, AbsoluteFacts
<1>1. R[0] = [k \in 1 .. Len(a) + Len(b) |-> 0]
  BY RowsIs
<1>2. \A i \in 1 .. Len(a) : R[i] = RowAdded(R[i - 1], i, a[i], b)
  BY RowsIs
<1> HIDE DEF R, B
<1>3. 0 \in N
  <2>1. R[0] \in RowsDone(a, b, 0) /\ Absolute(R[0]) = 0
    BY <1>1, RowsStart
  <2>2. Low(a)[0] = 0 /\ 0 * B = 0
    BY <1>0, LowIs
  <2> QED
    BY <2>1, <2>2
<1>4. ASSUME NEW n \in Nat, n \in N PROVE n + 1 \in N
  <2> SUFFICES ASSUME n + 1 <= Len(a) PROVE Ok(n + 1)
    OBVIOUS
  <2>1. n + 1 \in 1 .. Len(a) /\ (n + 1) - 1 = n /\ n <= Len(a)
    BY <1>0
  <2>2. R[n] \in RowsDone(a, b, (n + 1) - 1) /\ Absolute(R[n]) = Low(a)[n] * B
    BY <1>4, <2>1
  <2>3. R[n + 1] = RowAdded(R[n], n + 1, a[n + 1], b)
    BY <1>2, <2>1
  <2>4. /\ RowAdded(R[n], n + 1, a[n + 1], b) \in RowsDone(a, b, n + 1)
        /\ Absolute(RowAdded(R[n], n + 1, a[n + 1], b))
             = Absolute(R[n]) + (a[n + 1] * Absolute(b)) * Place((n + 1) - 1)
    BY <2>1, <2>2, RowsNext
  <2> DEFINE u == a[n + 1]
             P == Place(n)
             h == Low(a)[n]
  <2>5. u \in Nat /\ Word(a, n + 1) = u /\ P \in Nat
    <3>1. u \in Words /\ Word(a, n + 1) = u
      BY <2>1, MagIs
    <3>2. P \in Nat
      BY PlaceFacts
    <3> QED
      BY <3>1, <3>2, BaseFacts DEF Words
  <2>6. h \in Nat /\ Low(a)[n + 1] = h + u * P
    BY <2>5, LowIs
  <2>7. Absolute(R[n + 1]) = h * B + (u * B) * P
    BY <2>1, <2>2, <2>3, <2>4 DEF B
  <2> HIDE DEF u, P, h
  <2>8. (h + u * P) * B = h * B + (u * B) * P
    <3>1. u * P \in Int /\ h \in Int /\ B \in Int /\ u \in Int /\ P \in Int
      BY <1>0, <2>5, <2>6, Times
    <3>2. (h + u * P) * B = h * B + (u * P) * B
      BY <3>1, TimesAdd
    <3>3. (u * P) * B = u * (P * B) /\ P * B = B * P /\ u * (B * P) = (u * B) * P
      BY <3>1, TimesTimes, Times
    <3> QED
      BY <3>2, <3>3
  <2> QED
    BY <2>3, <2>4, <2>6, <2>7, <2>8
<1>5. \A n \in Nat : n \in N
  <2> HIDE DEF N
  <2> QED
    BY <1>3, <1>4, AllNumbers
<1>6. \A i \in 0 .. Len(a) : Ok(i)
  BY <1>0, <1>5
<1> QED
  BY <1>6 DEF R, B

LEMMA ProductIs ==
    ASSUME NEW v \in BigInts, NEW w \in BigInts
    PROVE  LET p == Product(v, w)
           IN  /\ p \in BigInts
               /\ Absolute(p.magnitude) = Absolute(v.magnitude) * Absolute(w.magnitude)
               /\ IsZero(v) \/ IsZero(w) => p = Big(0)
               /\ ~ IsZero(v) /\ ~ IsZero(w) => p.sign = (v.sign # w.sign)
               /\ Len(p.magnitude) <= 1 \/ Significant(p.magnitude) = Len(p.magnitude)
<1> DEFINE a == v.magnitude
           b == w.magnitude
           p == Product(v, w)
           R == Rows(a, b)[Len(a)]
           T == Trimmed(R)
<1>1. /\ a \in Mags /\ b \in Mags /\ v.sign \in BOOLEAN /\ w.sign \in BOOLEAN
      /\ IsZero(v) <=> Absolute(a) = 0 
      /\ IsZero(w) <=> Absolute(b) = 0
      /\ Absolute(a) \in Nat /\ Absolute(b) \in Nat
  BY BigIs
<1>2. CASE IsZero(v) \/ IsZero(w)
  <2>1. p = Big(0)
    BY <1>2 DEF Product
  <2>2. Absolute(a) * Absolute(b) = 0
    <3> DEFINE s == Absolute(a)
               t == Absolute(b)
    <3>1. s \in Nat /\ t \in Nat /\ (s = 0 \/ t = 0)
      BY <1>1, <1>2
    <3> HIDE DEF s, t
    <3>2. s * t = 0
      BY <3>1
    <3> QED
      BY <3>2 DEF s, t
  <2>3. /\ Big(0) \in BigInts /\ Absolute(Big(0).magnitude) = 0 /\ Len(Big(0).magnitude) <= 1
    <3>1. <<0>> \in Mags /\ Len(<<0>>) = 1 /\ \A i \in DOMAIN <<0>> : <<0>>[i] = 0
      BY BaseFacts DEF Words, Mags
    <3>2. Absolute(<<0>>) = 0
      <4> DEFINE z == <<0>>
      <4>1. z \in Mags /\ \A i \in DOMAIN z : z[i] = 0
        BY <3>1
      <4> HIDE DEF z
      <4>2. Absolute(z) = 0
        BY <4>1, ZeroIs
      <4> QED
        BY <4>2 DEF z
    <3>3. Big(0) = [magnitude |-> <<0>>, sign |-> FALSE]
      BY DEF Big
    <3> DEFINE z == <<0>>
    <3>4. z \in Mags /\ Absolute(z) = 0 /\ Len(z) <= 1 /\ Big(0) = [magnitude |-> z, sign |-> FALSE]
      BY <3>1, <3>2, <3>3
    <3> HIDE DEF z
    <3>5. Big(0) \in BigInts /\ Big(0).magnitude = z
      BY <3>4, MakeBig
    <3> QED
      BY <3>4, <3>5
  <2>4. /\ p \in BigInts /\ Absolute(p.magnitude) = 0 /\ Len(p.magnitude) <= 1
    BY <2>1, <2>3, Zenon
  <2>5. Absolute(p.magnitude) = Absolute(a) * Absolute(b)
    BY <2>2, <2>4
  <2> HIDE DEF p, a, b
  <2> QED
    BY <1>2, <2>1, <2>4, <2>5 DEF p, a, b
<1>3. CASE ~ IsZero(v) /\ ~ IsZero(w)
  <2>1. p = [magnitude |-> T, sign |-> v.sign # w.sign]
    BY <1>3 DEF Product
  <2>2. R \in Mags /\ Absolute(R) = Absolute(a) * Absolute(b)
    <3>1. Len(a) \in 0 .. Len(a) /\ Len(a) \in Nat
      BY <1>1, MagIs
    <3>2. Low(a)[Len(a)] = Absolute(a)
      BY <1>1, <3>1, AbsoluteFacts
    <3> QED
      BY <1>1, <3>1, <3>2, RowsLow DEF RowsDone
  <2> HIDE DEF R
  <2>3. T \in Mags /\ Absolute(T) = Absolute(R) /\ (Len(T) <= 1 \/ Len(T) = Significant(T))
    BY <2>2, TrimmedIs, TrimmedSame
  <2> HIDE DEF T, p
  <2> DEFINE s == v.sign # w.sign
  <2>4. s \in BOOLEAN
    OBVIOUS
  <2>5. p \in BigInts /\ p.magnitude = T /\ p.sign = s
    BY <2>1, <2>3, <2>4, MakeBig
  <2> QED
    BY <1>3, <2>2, <2>3, <2>5 DEF p
<1> QED
  BY <1>2, <1>3

-----------------------------------------------------------------------------
(* The binary search of operator/.                                         *)

IsTrimmed(v) == Len(v.magnitude) <= 1 \/ Significant(v.magnitude) = Len(v.magnitude)

LEMMA UnsignedSum ==
    ASSUME NEW v \in Unsigned, NEW w \in Unsigned
    PROVE  /\ Sum(v, w) \in Unsigned
           /\ Absolute(Sum(v, w).magnitude) = Absolute(v.magnitude) + Absolute(w.magnitude)
<1>1. v \in BigInts /\ w \in BigInts /\ v.sign = FALSE /\ w.sign = FALSE
  BY UnsignedIs
<1>2. Sum(v, w) = SameSignSum(v, w)
  BY <1>1 DEF Sum
<1>3. /\ SameSignSum(v, w) \in BigInts
      /\ SameSignSum(v, w).sign = v.sign
      /\ Absolute(SameSignSum(v, w).magnitude)
           = Absolute(v.magnitude) + Absolute(w.magnitude)
  BY <1>1, SameSignSumIs
<1> QED
  BY <1>1, <1>2, <1>3, UnsignedIs

LEMMA SmallIs ==
    ASSUME NEW u \in Words
    PROVE  /\ Big(u) \in Unsigned /\ Absolute(Big(u).magnitude) = u /\ Len(Big(u).magnitude) = 1
           /\ Word(Big(u).magnitude, 1) = u
           /\ \A i \in Nat : i > 1 => Word(Big(u).magnitude, i) = 0
           /\ IsTrimmed(Big(u))
<1> DEFINE m == <<u>>
<1>1. m \in Mags /\ Len(m) = 1 /\ m[1] = u
  BY DEF Mags
<1>2. Big(u) = [magnitude |-> m, sign |-> FALSE]
  BY DEF Big
<1> HIDE DEF m
<1>3. Big(u) \in BigInts /\ Big(u).magnitude = m /\ Big(u).sign = FALSE
  BY <1>1, <1>2, MakeBig
<1>4. Word(m, 1) = u /\ \A i \in Nat : i > 1 => Word(m, i) = 0
  BY <1>1 DEF Word
<1>5. Absolute(m) = u
  <2>1. Absolute(m) = Low(m)[1]
    BY <1>1 DEF Absolute
  <2>2. Low(m)[0 + 1] = Low(m)[0] + Word(m, 0 + 1) * Place(0) /\ Low(m)[0] = 0
    BY <1>1, LowIs
  <2>3. Place(0) = 1 /\ u \in Nat /\ 0 + 1 = 1
    BY PlaceFacts, BaseFacts DEF Words
  <2>4. Low(m)[1] = 0 + u * 1
    BY <1>4, <2>2, <2>3
  <2> QED
    BY <2>1, <2>3, <2>4
<1>6. IsTrimmed(Big(u))
  <2>1. Len(m) <= 1
    BY <1>1
  <2> QED
    BY <1>3, <2>1 DEF IsTrimmed
<1> QED
  BY <1>1, <1>3, <1>4, <1>5, <1>6, UnsignedIs

\* A borrow is only lost in a word that is all ones.
LEMMA NothingLostWithOne ==
    ASSUME NEW v \in BigInts
    PROVE  ~ BorrowLost(v, Big(1))
<1> DEFINE m == v.magnitude
           s == Big(1).magnitude
<1>1. 1 \in Words /\ Base \in Nat /\ Base >= 2
  BY BaseFacts DEF Words
<1>2. m \in Mags /\ Len(m) \in Nat /\ DOMAIN m = 1 .. Len(m)
  BY BigIs, MagIs
<1>3. s \in Mags /\ Len(s) = 1 /\ DOMAIN s = 1 .. 1 /\ \A i \in Nat : i > 1 => Word(s, i) = 0
  <2>1. Big(1) \in BigInts /\ Len(s) = 1 /\ \A i \in Nat : i > 1 => Word(s, i) = 0
    BY <1>1, SmallIs, UnsignedIs
  <2>2. s \in Mags
    BY <2>1, BigIs
  <2>3. DOMAIN s = 1 .. Len(s)
    <3> HIDE DEF s
    <3> QED
      BY <2>2, MagIs
  <2> QED
    BY <2>1, <2>2, <2>3
<1> HIDE DEF m, s
<1>4. ~ LosesBorrow(m, s)
  <2> SUFFICES ASSUME NEW i \in DOMAIN m, Borrows(m, s)[i - 1] = 1, Word(s, i) = Base - 1
               PROVE  FALSE
    BY DEF LosesBorrow
  <2>1. CASE i = 1
    <3>1. Borrows(m, s)[0] = 0 /\ i - 1 = 0
      BY <1>2, <1>3, <2>1, BorrowsIs
    <3> QED
      BY <3>1
  <2>2. CASE i # 1
    <3>1. i \in Nat /\ i > 1
      BY <1>2, <2>2
    <3>2. Word(s, i) = 0
      BY <1>3, <3>1
    <3> QED
      BY <1>1, <3>2
  <2> QED
    BY <2>1, <2>2
<1>5. ~ LosesBorrow(s, m)
  <2> SUFFICES ASSUME NEW i \in DOMAIN s, Borrows(s, m)[i - 1] = 1
               PROVE  FALSE
    BY DEF LosesBorrow
  <2>1. Borrows(s, m)[0] = 0 /\ i - 1 = 0
    BY <1>2, <1>3, BorrowsIs
  <2> QED
    BY <2>1
<1> QED
  BY <1>4, <1>5 DEF BorrowLost, m, s

LEMMA OneLess ==
    ASSUME NEW v \in Unsigned, Absolute(v.magnitude) > 0
    PROVE  LET d == Difference(v, Big(1))
           IN  /\ d \in Unsigned /\ IsTrimmed(d)
               /\ Absolute(d.magnitude) = Absolute(v.magnitude) - 1
<1> DEFINE w == Big(1)
           d == SameSignDifference(v, w)
<1>1. v \in BigInts /\ v.sign = FALSE /\ ~ IsZero(v) /\ Absolute(v.magnitude) \in Nat
  BY UnsignedIs, BigIs
<1>2. /\ w \in BigInts /\ w.sign = FALSE /\ ~ IsZero(w) /\ Absolute(w.magnitude) = 1
  <2>1. 1 \in Words
    BY BaseFacts DEF Words
  <2>2. w \in Unsigned /\ Absolute(w.magnitude) = 1
    BY <2>1, SmallIs
  <2> HIDE DEF w
  <2> QED
    BY <2>2, UnsignedIs, BigIs
<1>3. ~ BorrowLost(v, w)
  BY <1>1, NothingLostWithOne
<1> HIDE DEF w
<1>4. Difference(v, w) = d
  BY <1>1, <1>2 DEF Difference
<1>5. Value(d) = Value(v) - Value(w)
  BY <1>1, <1>2, <1>3, SameSignDifferenceExact
<1>6. /\ d \in BigInts
      /\ IsZero(d) => d.sign = FALSE
      /\ ~ IsZero(d) => d.sign = (v.sign # (Absolute(v.magnitude) < Absolute(w.magnitude)))
      /\ d.magnitude = SubtractedMagnitudes(v.magnitude, w.magnitude)
  <2>1. ~ (Absolute(v.magnitude) < Absolute(w.magnitude))
    BY <1>1, <1>2
  <2> QED
    BY <1>1, <1>2, <2>1, SameSignDifferenceIs, Zenon
<1>7. IsTrimmed(d)
  <2>1. v.magnitude \in Mags /\ w.magnitude \in Mags
    BY <1>1, <1>2, BigIs
  <2> QED
    BY <1>6, <2>1, SubtractedType DEF IsTrimmed
<1> HIDE DEF d
<1>8. d.sign = FALSE
  <2>1. (Absolute(v.magnitude) < Absolute(w.magnitude)) = FALSE
    BY <1>1, <1>2
  <2> QED
    BY <1>1, <1>6, <2>1
<1>9. d \in Unsigned
  BY <1>6, <1>8, UnsignedIs
<1>10. Absolute(d.magnitude) = Absolute(v.magnitude) - 1
  <2>1. Value(d) = Absolute(d.magnitude) /\ Value(w) = 1 /\ Value(v) = Absolute(v.magnitude)
    BY <1>2, <1>9, UnsignedIs
  <2> QED
    BY <1>5, <2>1
<1> QED
  BY <1>4, <1>7, <1>9, <1>10 DEF w

\* The ranges that operator/ searches, what it tries next, and how it goes on.
Ranges == Unsigned \X Unsigned
Lower(r) == Absolute(r[1].magnitude)
Upper(r) == Absolute(r[2].magnitude)
Mid(r) == Halved(Sum(r[1], r[2]))
Middle(r) == Absolute(Mid(r).magnitude)
Probe(top, bottom, r) ==
    CompareMagnitudes(Product(Mid(r), bottom).magnitude, top.magnitude)
Narrowed(top, bottom, r) ==
    IF Probe(top, bottom, r) < 0 THEN <<Sum(Mid(r), Big(1)), r[2]>>
    ELSE <<r[1], Difference(Mid(r), Big(1))>>
GoesOn(top, bottom, r) == SearchOn(r[1], r[2]) /\ Probe(top, bottom, r) # 0

LEMMA RangeIs ==
    ASSUME NEW r \in Ranges
    PROVE  /\ r[1] \in Unsigned /\ r[2] \in Unsigned /\ r = <<r[1], r[2]>>
           /\ Lower(r) \in Nat /\ Upper(r) \in Nat
           /\ SearchOn(r[1], r[2]) <=> Lower(r) <= Upper(r)
<1>1. r[1] \in Unsigned /\ r[2] \in Unsigned /\ r = <<r[1], r[2]>>
  BY DEF Ranges
<1>2. r[1] \in BigInts /\ r[2] \in BigInts
  BY <1>1, UnsignedIs
<1>3. /\ r[1].magnitude \in Mags /\ r[2].magnitude \in Mags
      /\ Lower(r) \in Nat /\ Upper(r) \in Nat
  BY <1>2, BigIs DEF Lower, Upper
<1>4. CompareMagnitudes(r[1].magnitude, r[2].magnitude) =
        IF Lower(r) > Upper(r) THEN 1 ELSE IF Lower(r) < Upper(r) THEN -1 ELSE 0
  BY <1>3, CompareIs DEF Lower, Upper
<1> QED
  BY <1>1, <1>3, <1>4 DEF SearchOn

LEMMA MidIs ==
    ASSUME NEW r \in Ranges
    PROVE  /\ Mid(r) \in Unsigned /\ IsTrimmed(Mid(r))
           /\ Middle(r) \in Nat /\ Middle(r) = (Lower(r) + Upper(r)) \div 2
<1> DEFINE s == Sum(r[1], r[2])
<1>1. s \in Unsigned /\ Absolute(s.magnitude) = Lower(r) + Upper(r)
  BY RangeIs, UnsignedSum DEF Lower, Upper
<1> HIDE DEF s
<1>2. s \in BigInts /\ s.sign = FALSE
  BY <1>1, UnsignedIs
<1>3. /\ Halved(s) \in BigInts /\ Halved(s).sign = FALSE /\ IsTrimmed(Halved(s))
      /\ Absolute(Halved(s).magnitude) = (Lower(r) + Upper(r)) \div 2
  BY <1>1, <1>2, HalvedIs DEF IsTrimmed
<1>4. Mid(r) = Halved(s)
  BY DEF Mid, s
<1>5. Absolute(Halved(s).magnitude) \in Nat
  BY <1>3, BigIs
<1> QED
  BY <1>3, <1>4, <1>5, UnsignedIs DEF Middle

LEMMA ProbeIs ==
    ASSUME NEW top \in Unsigned, NEW bottom \in Unsigned, NEW r \in Ranges
    PROVE  LET p == Middle(r) * Absolute(bottom.magnitude)
               t == Absolute(top.magnitude)
           IN  /\ p \in Nat /\ t \in Nat
               /\ Probe(top, bottom, r) = IF p > t THEN 1 ELSE IF p < t THEN -1 ELSE 0
<1> DEFINE q == Product(Mid(r), bottom)
<1>1. Mid(r) \in BigInts /\ bottom \in BigInts /\ top \in BigInts
  BY MidIs, UnsignedIs
<1>2. q \in BigInts /\ Absolute(q.magnitude) = Middle(r) * Absolute(bottom.magnitude)
  BY <1>1, ProductIs DEF Middle
<1> HIDE DEF q
<1>3. /\ q.magnitude \in Mags /\ top.magnitude \in Mags
      /\ Absolute(q.magnitude) \in Nat /\ Absolute(top.magnitude) \in Nat
  BY <1>1, <1>2, BigIs
<1>4. Probe(top, bottom, r) = CompareMagnitudes(q.magnitude, top.magnitude)
  BY DEF Probe, q
<1> QED
  BY <1>2, <1>3, <1>4, CompareIs

\* The search goes on in a smaller range.
LEMMA NarrowedIs ==
    ASSUME NEW top \in Unsigned, NEW bottom \in Unsigned, NEW r \in Ranges,
           GoesOn(top, bottom, r)
    PROVE  LET s == Narrowed(top, bottom, r)
           IN  /\ s \in Ranges
               /\ Lower(r) <= Middle(r) /\ Middle(r) <= Upper(r)
               /\ \/ /\ Probe(top, bottom, r) = -1
                     /\ Lower(s) = Middle(r) + 1 /\ Upper(s) = Upper(r) /\ s[2] = r[2]
                  \/ /\ Probe(top, bottom, r) = 1
                     /\ Lower(s) = Lower(r) /\ Upper(s) = Middle(r) - 1 /\ IsTrimmed(s[2])
<1> DEFINE mid == Mid(r)
           p == Middle(r) * Absolute(bottom.magnitude)
           t == Absolute(top.magnitude)
           c == Probe(top, bottom, r)
           s == Narrowed(top, bottom, r)
<1>1. /\ r[1] \in Unsigned /\ r[2] \in Unsigned /\ Lower(r) \in Nat /\ Upper(r) \in Nat
      /\ Lower(r) <= Upper(r) /\ c # 0
  BY RangeIs DEF GoesOn
<1>2. mid \in Unsigned /\ Middle(r) \in Nat /\ Middle(r) = (Lower(r) + Upper(r)) \div 2
  BY MidIs
<1>3. Lower(r) <= Middle(r) /\ Middle(r) <= Upper(r)
  <2> DEFINE l == Lower(r)
             u == Upper(r)
  <2>1. l \in Nat /\ u \in Nat /\ l <= u /\ Middle(r) = (l + u) \div 2
    BY <1>1, <1>2
  <2> HIDE DEF l, u
  <2>2. l <= (l + u) \div 2 /\ (l + u) \div 2 <= u
    BY <2>1
  <2> QED
    BY <2>1, <2>2 DEF l, u
<1>4. /\ p \in Nat /\ t \in Nat
      /\ c = IF p > t THEN 1 ELSE IF p < t THEN -1 ELSE 0
  BY ProbeIs
<1>5. Middle(r) = Absolute(mid.magnitude)
  BY DEF Middle
<1> HIDE DEF mid
<1>6. CASE c = -1
  <2> DEFINE o == Sum(mid, Big(1))
  <2>1. Big(1) \in Unsigned /\ Absolute(Big(1).magnitude) = 1
    <3>1. 1 \in Words
      BY BaseFacts DEF Words
    <3> QED
      BY <3>1, SmallIs
  <2>2. o \in Unsigned /\ Absolute(o.magnitude) = Middle(r) + 1
    BY <1>2, <1>5, <2>1, UnsignedSum
  <2>3. s = <<o, r[2]>>
    BY <1>6 DEF Narrowed, mid
  <2> HIDE DEF o, s, c
  <2>4. s[1] = o /\ s[2] = r[2] /\ s \in Ranges
    BY <1>1, <2>2, <2>3 DEF Ranges
  <2>5. Lower(s) = Middle(r) + 1 /\ Upper(s) = Upper(r)
    BY <2>2, <2>4 DEF Lower, Upper
  <2> QED
    BY <1>3, <1>6, <2>4, <2>5 DEF s, c
<1>7. CASE c # -1
  <2>1. c = 1 /\ p > t
    BY <1>1, <1>4, <1>7
  <2>2. Middle(r) > 0
    <3> SUFFICES ASSUME Middle(r) = 0 PROVE FALSE
      BY <1>2
    <3> DEFINE b == Absolute(bottom.magnitude)
    <3>1. b \in Nat
      BY UnsignedIs, BigIs
    <3>2. 0 * b = 0
      <4> HIDE DEF b
      <4> QED
        BY <3>1
    <3>3. p = 0
      BY <3>2
    <3> HIDE DEF p, t
    <3> QED
      BY <1>4, <2>1, <3>3
  <2> DEFINE o == Difference(mid, Big(1))
  <2>3. o \in Unsigned /\ IsTrimmed(o) /\ Absolute(o.magnitude) = Middle(r) - 1
    BY <1>2, <1>5, <2>2, OneLess
  <2>4. s = <<r[1], o>>
    BY <2>1 DEF Narrowed, mid
  <2> HIDE DEF o, s, c
  <2>5. s[1] = r[1] /\ s[2] = o /\ s \in Ranges
    BY <1>1, <2>3, <2>4 DEF Ranges
  <2>6. Lower(s) = Lower(r) /\ Upper(s) = Middle(r) - 1
    BY <2>3, <2>5 DEF Lower, Upper
  <2> QED
    BY <1>3, <2>1, <2>3, <2>5, <2>6 DEF s, c
<1> QED
  BY <1>6, <1>7

\* How many candidates are left.
Width(r) == IF Lower(r) <= Upper(r) THEN Upper(r) - Lower(r) + 1 ELSE 0

LEMMA NarrowedShrinks ==
    ASSUME NEW top \in Unsigned, NEW bottom \in Unsigned, NEW r \in Ranges
    PROVE  /\ Width(r) \in Nat
           /\ GoesOn(top, bottom, r) => Narrowed(top, bottom, r) \in Ranges
                                        /\ Width(Narrowed(top, bottom, r)) < Width(r)
<1>1. Width(r) \in Nat
  BY RangeIs DEF Width
<1>2. ASSUME GoesOn(top, bottom, r)
      PROVE  /\ Narrowed(top, bottom, r) \in Ranges
             /\ Width(Narrowed(top, bottom, r)) < Width(r)
  <2> DEFINE s == Narrowed(top, bottom, r)
  <2>1. /\ s \in Ranges
        /\ Lower(r) <= Middle(r) /\ Middle(r) <= Upper(r)
        /\ \/ Lower(s) = Middle(r) + 1 /\ Upper(s) = Upper(r)
           \/ Lower(s) = Lower(r) /\ Upper(s) = Middle(r) - 1
    BY <1>2, NarrowedIs
  <2> HIDE DEF s
  <2>2. /\ Lower(r) \in Nat /\ Upper(r) \in Nat /\ Lower(s) \in Nat /\ Upper(s) \in Nat
        /\ Middle(r) \in Nat
    BY <2>1, RangeIs, MidIs
  <2>3. Width(s) < Width(r)
    BY <2>1, <2>2 DEF Width
  <2> QED
    BY <2>1, <2>3 DEF s
<1> QED
  BY <1>1, <1>2

LEMMA SearchIs ==
    ASSUME NEW top \in Unsigned, NEW bottom \in Unsigned
    PROVE  \A r \in Ranges :
              Search(top, bottom)[r] =
                IF GoesOn(top, bottom, r) THEN Search(top, bottom)[Narrowed(top, bottom, r)]
                ELSE IF SearchOn(r[1], r[2]) THEN Mid(r) ELSE r[2]
<1> DEFINE F == Search(top, bottom)
           on(r) == GoesOn(top, bottom, r)
           end(r) == IF SearchOn(r[1], r[2]) THEN Mid(r) ELSE r[2]
           nx(r) == Narrowed(top, bottom, r)
           Is(f) == f = [r \in Ranges |->
                LET min == r[1]
                    max == r[2]
                    mid == Halved(Sum(min, max))
                    cmp == CompareMagnitudes(Product(mid, bottom).magnitude, top.magnitude)
                IN  IF ~ SearchOn(min, max) THEN max
                    ELSE IF cmp = 0 THEN mid
                    ELSE IF cmp < 0 THEN f[<<Sum(mid, Big(1)), max>>]
                    ELSE f[<<min, Difference(mid, Big(1))>>]]
           Does(f) == f = [r \in Ranges |-> IF on(r) THEN f[nx(r)] ELSE end(r)]
           size == [r \in Ranges |-> Width(r)]
           stop == {r \in Ranges : ~ on(r)}
           next == [r \in Ranges |-> IF on(r) THEN nx(r) ELSE r]
           out == [r \in Ranges |-> end(r)]
           step == [p \in Ranges \X Unsigned |-> p[2]]
<1>1. \A r \in Ranges : /\ Width(r) \in Nat /\ end(r) \in Unsigned
                        /\ on(r) => nx(r) \in Ranges /\ Width(nx(r)) < Width(r)
  BY NarrowedShrinks, MidIs, RangeIs
<1> HIDE DEF on, end, nx
<1>2. PICK f \in [Ranges -> Unsigned] :
         \A r \in Ranges : f[r] = Unfolded(f, r, stop, next, out, step)
  <2>1. size \in [Ranges -> Nat] /\ stop \in SUBSET Ranges
    BY <1>1
  <2>2. next \in [Ranges -> Ranges] /\ out \in [Ranges -> Unsigned]
    BY <1>1
  <2>3. step \in [Ranges \X Unsigned -> Unsigned]
    OBVIOUS
  <2>4. \A r \in Ranges \ stop : size[next[r]] < size[r]
    BY <1>1
  <2>5. Shrinks(Ranges, Unsigned, size, stop, next, out, step)
    <3> HIDE DEF size, stop, next, out, step
    <3> QED
      BY <2>1, <2>2, <2>3, <2>4 DEF Shrinks
  <2> HIDE DEF size, stop, next, out, step
  <2> QED
    BY <2>5, Recursion
<1>3. \A r \in Ranges : f[r] = IF on(r) THEN f[nx(r)] ELSE end(r)
  <2> SUFFICES ASSUME NEW r \in Ranges PROVE f[r] = IF on(r) THEN f[nx(r)] ELSE end(r)
    OBVIOUS
  <2>1. CASE on(r)
    <3>1. r \notin stop /\ next[r] = nx(r) /\ nx(r) \in Ranges
      BY <1>1, <2>1
    <3>2. <<r, f[nx(r)]>> \in Ranges \X Unsigned
      BY <3>1
    <3>3. step[<<r, f[nx(r)]>>] = f[nx(r)]
      BY <3>2
    <3>4. f[r] = step[<<r, f[next[r]]>>]
      BY <1>2, <3>1 DEF Unfolded
    <3> QED
      BY <2>1, <3>1, <3>3, <3>4
  <2>2. CASE ~ on(r)
    <3>1. r \in stop /\ out[r] = end(r)
      BY <2>2
    <3>2. f[r] = out[r]
      BY <1>2, <3>1 DEF Unfolded
    <3> QED
      BY <2>2, <3>1, <3>2
  <2> QED
    BY <2>1, <2>2
<1>4. Does(f)
  <2>1. f = [r \in Ranges |-> f[r]]
    OBVIOUS
  <2> QED
    BY <1>3, <2>1
<1>5. F = CHOOSE g : Is(g)
  BY DEF Search, Ranges
<1>6. \A g : Is(g) <=> Does(g)
  <2> SUFFICES ASSUME NEW g, NEW r \in Ranges
      PROVE  (LET min == r[1]
                  max == r[2]
                  mid == Halved(Sum(min, max))
                  cmp == CompareMagnitudes(Product(mid, bottom).magnitude, top.magnitude)
              IN  IF ~ SearchOn(min, max) THEN max
                  ELSE IF cmp = 0 THEN mid
                  ELSE IF cmp < 0 THEN g[<<Sum(mid, Big(1)), max>>]
                  ELSE g[<<min, Difference(mid, Big(1))>>])
             = IF on(r) THEN g[nx(r)] ELSE end(r)
    OBVIOUS
  <2> QED
    BY DEF on, end, nx, GoesOn, Probe, Mid, Narrowed
<1>7. Is(f)
  <2> HIDE DEF Is, Does
  <2> QED
    BY <1>4, <1>6
<1>8. Is(F)
  <2> HIDE DEF Is, F
  <2> QED
    BY <1>5, <1>7
<1>9. Does(F)
  <2> HIDE DEF Is, F, Does
  <2> QED
    BY <1>6, <1>8
<1> HIDE DEF F
<1>10. \A r \in Ranges : F[r] = IF on(r) THEN F[nx(r)] ELSE end(r)
  BY <1>9
<1> QED
  BY <1>10 DEF F, on, end, nx

LEMMA Candidates ==
    ASSUME NEW b \in Nat \ {0}, NEW t \in Nat, NEW m \in Nat
    PROVE  /\ t \div b \in Nat /\ t \div b <= t
           /\ m * b < t => m <= t \div b
           /\ m * b > t => m > t \div b
           /\ m * b = t => m = t \div b
<1> DEFINE q == t \div b
           s == t % b
           p == m * b
           qb == q * b
<1>1. q \in Int /\ s \in 0 .. b - 1 /\ t = qb + s
  BY Division
<1>2. q >= 0
  OBVIOUS
<1>3. p \in Nat /\ qb \in Int
  BY <1>1, Times, TimesNat
<1> HIDE DEF q, s
<1>4. q <= t
  <2>1. q * 1 <= q * b
    <3>1. 1 * q <= b * q /\ 1 \in Int /\ b \in Int /\ q \in Nat
      <4>1. 1 <= b /\ q \in Nat /\ 1 \in Int /\ b \in Int
        BY <1>1, <1>2
      <4> QED
        BY <4>1, TimesOrder
    <3>2. 1 * q = q * 1 /\ b * q = q * b
      BY <3>1, Times
    <3> QED
      BY <3>1, <3>2
  <2>2. q * 1 = q
    BY <1>1
  <2>3. q <= qb
    BY <2>1, <2>2
  <2> HIDE DEF qb
  <2> QED
    BY <1>1, <1>3, <2>3
<1>5. ASSUME p < t PROVE m <= q
  <2> SUFFICES ASSUME q + 1 <= m PROVE FALSE
    BY <1>1
  <2>1. (q + 1) * b <= p
    BY <1>1, TimesOrder
  <2>2. (q + 1) * b = q * b + 1 * b /\ 1 * b = b
    BY <1>1, TimesAdd
  <2>3. qb + b <= p
    BY <2>1, <2>2
  <2> HIDE DEF p, qb
  <2> QED
    BY <1>1, <1>3, <1>5, <2>3
<1>6. ASSUME p > t PROVE m > q
  <2> SUFFICES ASSUME m <= q PROVE FALSE
    BY <1>1
  <2>1. p <= qb
    BY <1>1, TimesOrder
  <2> HIDE DEF p, qb
  <2> QED
    BY <1>1, <1>3, <1>6, <2>1
<1>7. ASSUME p = t PROVE m = q
  <2>1. 0 \in 0 .. b - 1
    OBVIOUS
  <2>2. (m * b + 0) \div b = m
    BY <2>1, DivisionIs
  <2>3. m * b + 0 = t
    BY <1>3, <1>7
  <2> QED
    BY <2>2, <2>3 DEF q
<1> QED
  BY <1>1, <1>2, <1>4, <1>5, <1>6, <1>7 DEF q

\* What the search finds in a range that the quotient has not left.
Finds(top, bottom, r) ==
    LET v == Search(top, bottom)[r]
        b == Absolute(bottom.magnitude)
        q == Absolute(top.magnitude) \div b
    IN  /\ v \in Unsigned
        /\ v = r[2] \/ IsTrimmed(v)
        /\ b > 0 /\ Lower(r) <= q + 1 /\ Upper(r) >= q => Absolute(v.magnitude) = q

LEMMA SearchEnds ==
    ASSUME NEW top \in Unsigned, NEW bottom \in Unsigned, NEW r \in Ranges,
           ~ GoesOn(top, bottom, r)
    PROVE  Finds(top, bottom, r)
<1> DEFINE v == Search(top, bottom)[r]
           b == Absolute(bottom.magnitude)
           t == Absolute(top.magnitude)
           q == t \div b
<1>1. v = IF SearchOn(r[1], r[2]) THEN Mid(r) ELSE r[2]
  BY SearchIs
<1>2. /\ r[1] \in Unsigned /\ r[2] \in Unsigned /\ Lower(r) \in Nat /\ Upper(r) \in Nat
      /\ SearchOn(r[1], r[2]) <=> Lower(r) <= Upper(r)
  BY RangeIs
<1>3. b \in Nat /\ t \in Nat
  BY UnsignedIs, BigIs
<1> HIDE DEF v
<1>4. CASE SearchOn(r[1], r[2])
  <2>1. v = Mid(r) /\ Mid(r) \in Unsigned /\ IsTrimmed(Mid(r)) /\ Middle(r) \in Nat
        /\ Absolute(v.magnitude) = Middle(r)
    BY <1>1, <1>4, MidIs DEF Middle
  <2>2. Middle(r) * b = t
    <3>1. Probe(top, bottom, r) = 0
      BY <1>4 DEF GoesOn
    <3> DEFINE p == Middle(r) * b
    <3>2. /\ p \in Nat
          /\ Probe(top, bottom, r) = IF p > t THEN 1 ELSE IF p < t THEN -1 ELSE 0
      BY ProbeIs
    <3> HIDE DEF p, b, t
    <3>3. p = t
      BY <1>3, <3>1, <3>2
    <3> QED
      BY <3>3 DEF p
  <2>3. b > 0 => Middle(r) = q
    <3> HIDE DEF b, t
    <3> QED
      BY <1>3, <2>1, <2>2, Candidates
  <2> QED
    BY <2>1, <2>3 DEF Finds, v
<1>5. CASE ~ SearchOn(r[1], r[2])
  <2>1. v = r[2] /\ Upper(r) < Lower(r)
    BY <1>1, <1>2, <1>5
  <2>2. Absolute(v.magnitude) = Upper(r)
    BY <2>1 DEF Upper
  <2>3. b > 0 => q \in Nat
    <3> HIDE DEF b, t
    <3> QED
      BY <1>3, Candidates
  <2>4. ASSUME b > 0, Lower(r) <= q + 1, Upper(r) >= q PROVE Upper(r) = q
    <3> HIDE DEF q
    <3> QED
      BY <1>2, <2>1, <2>3, <2>4
  <2> HIDE DEF q
  <2>5. b > 0 /\ Lower(r) <= q + 1 /\ Upper(r) >= q => Absolute(v.magnitude) = q
    BY <2>2, <2>4
  <2> QED
    BY <1>2, <2>1, <2>5 DEF Finds, v, q
<1> QED
  BY <1>4, <1>5

LEMMA SearchSteps ==
    ASSUME NEW top \in Unsigned, NEW bottom \in Unsigned, NEW r \in Ranges,
           GoesOn(top, bottom, r), Finds(top, bottom, Narrowed(top, bottom, r))
    PROVE  Finds(top, bottom, r)
<1> DEFINE v == Search(top, bottom)[r]
           s == Narrowed(top, bottom, r)
           b == Absolute(bottom.magnitude)
           t == Absolute(top.magnitude)
           q == t \div b
           m == Middle(r)
           p == m * b
<1>1. v = Search(top, bottom)[s]
  BY SearchIs
<1>2. b \in Nat /\ t \in Nat /\ Lower(r) \in Nat /\ Upper(r) \in Nat /\ m \in Nat /\ s \in Ranges
  BY UnsignedIs, BigIs, RangeIs, MidIs, NarrowedIs
<1>3. \/ /\ Probe(top, bottom, r) = -1
         /\ Lower(s) = m + 1 /\ Upper(s) = Upper(r) /\ s[2] = r[2]
      \/ /\ Probe(top, bottom, r) = 1
         /\ Lower(s) = Lower(r) /\ Upper(s) = m - 1 /\ IsTrimmed(s[2])
  BY NarrowedIs
<1>4. /\ p \in Nat
      /\ Probe(top, bottom, r) = IF p > t THEN 1 ELSE IF p < t THEN -1 ELSE 0
  BY ProbeIs
<1>5. /\ v \in Unsigned
      /\ v = s[2] \/ IsTrimmed(v)
      /\ b > 0 /\ Lower(s) <= q + 1 /\ Upper(s) >= q => Absolute(v.magnitude) = q
  BY <1>1 DEF Finds
<1> HIDE DEF v, s, b, t, m
<1>6. v = r[2] \/ IsTrimmed(v)
  BY <1>3, <1>5
<1>7. ASSUME b > 0, Lower(r) <= q + 1, Upper(r) >= q PROVE Absolute(v.magnitude) = q
  <2>1. q \in Nat /\ (p < t => m <= q) /\ (p > t => m > q)
    BY <1>2, <1>7, Candidates
  <2> HIDE DEF p, q
  <2>2. Lower(s) <= q + 1 /\ Upper(s) >= q
    BY <1>2, <1>3, <1>4, <1>7, <2>1
  <2> QED
    BY <1>5, <1>7, <2>2
<1> QED
  BY <1>5, <1>6, <1>7 DEF Finds, v, b, t

LEMMA SearchFinds ==
    ASSUME NEW top \in Unsigned, NEW bottom \in Unsigned
    PROVE  \A r \in Ranges : Finds(top, bottom, r)
<1> DEFINE N == {n \in Nat : \A r \in Ranges : Width(r) <= n => Finds(top, bottom, r)}
<1>1. 0 \in N
  <2> SUFFICES ASSUME NEW r \in Ranges, Width(r) <= 0 PROVE Finds(top, bottom, r)
    OBVIOUS
  <2>1. ~ GoesOn(top, bottom, r)
    BY NarrowedShrinks
  <2> QED
    BY <2>1, SearchEnds
<1>2. ASSUME NEW n \in Nat, n \in N PROVE n + 1 \in N
  <2> SUFFICES ASSUME NEW r \in Ranges, Width(r) <= n + 1 PROVE Finds(top, bottom, r)
    OBVIOUS
  <2>1. CASE GoesOn(top, bottom, r)
    <3> DEFINE s == Narrowed(top, bottom, r)
    <3>1. s \in Ranges /\ Width(s) < Width(r) /\ Width(r) \in Nat
      BY <2>1, NarrowedShrinks
    <3>2. Width(s) \in Nat
      <4> HIDE DEF s
      <4> QED
        BY <3>1, NarrowedShrinks
    <3>3. Width(s) <= n
      <4> HIDE DEF s
      <4> QED
        BY <3>1, <3>2
    <3>4. Finds(top, bottom, s)
      BY <1>2, <3>1, <3>3
    <3> QED
      BY <2>1, <3>4, SearchSteps
  <2>2. CASE ~ GoesOn(top, bottom, r)
    BY <2>2, SearchEnds
  <2> QED
    BY <2>1, <2>2
<1>3. \A n \in Nat : n \in N
  <2> HIDE DEF N
  <2> QED
    BY <1>1, <1>2, AllNumbers
<1> SUFFICES ASSUME NEW r \in Ranges PROVE Finds(top, bottom, r)
  OBVIOUS
<1>4. Width(r) \in Nat
  BY NarrowedShrinks
<1>5. Width(r) \in N
  <2> HIDE DEF N
  <2> QED
    BY <1>3, <1>4
<1> QED
  BY <1>4, <1>5

\* A value without its sign.
Positive(v) == [v EXCEPT !.sign = FALSE]

LEMMA PositiveIs ==
    ASSUME NEW v \in BigInts
    PROVE  Positive(v) \in Unsigned /\ Positive(v).magnitude = v.magnitude
BY DEF Positive, Unsigned, BigInts

\* Quotients are exact, and get no leading zeros.
LEMMA QuotientIs ==
    ASSUME NEW v \in BigInts, NEW w \in BigInts
    PROVE  LET q == Quotient(v, w)
               less == Absolute(v.magnitude) < Absolute(w.magnitude)
           IN  /\ q \in BigInts
               /\ ~ IsZero(w) => Absolute(q.magnitude)
                                   = Absolute(v.magnitude) \div Absolute(w.magnitude)
               /\ q.magnitude = v.magnitude \/ IsTrimmed(q)
               /\ less => q = Big(0)
               /\ ~ less => q.sign = (v.sign # w.sign)
<1> DEFINE q == Quotient(v, w)
           a == Absolute(v.magnitude)
           b == Absolute(w.magnitude)
           less == a < b
<1>1. /\ v.magnitude \in Mags /\ w.magnitude \in Mags /\ a \in Nat /\ b \in Nat
      /\ IsZero(w) <=> b = 0
  BY BigIs
<1>2. CompareMagnitudes(v.magnitude, w.magnitude) < 0 <=> less
  <2>1. CompareMagnitudes(v.magnitude, w.magnitude) = IF a > b THEN 1 ELSE IF a < b THEN -1 ELSE 0
    BY <1>1, CompareIs
  <2> QED
    BY <1>1, <2>1
<1>3. 0 \in Words /\ Big(0) \in Unsigned /\ Absolute(Big(0).magnitude) = 0 /\ IsTrimmed(Big(0))
  <2>1. 0 \in Words
    BY BaseFacts DEF Words
  <2>2. /\ Big(0) \in Unsigned /\ Absolute(Big(0).magnitude) = 0
        /\ IsTrimmed(Big(0))
    BY <2>1, SmallIs, Zenon
  <2> QED
    BY <2>1, <2>2, Zenon
<1>4. CASE less
  <2>1. q = Big(0)
    BY <1>2, <1>4 DEF Quotient
  <2>2. a \div b = 0
    <3> HIDE DEF a, b
    <3> QED
      BY <1>1, <1>4
  <2>3. q \in BigInts /\ IsTrimmed(q) /\ Absolute(q.magnitude) = 0
    BY <1>3, <2>1, UnsignedIs
  <2> HIDE DEF q, a, b
  <2> QED
    BY <1>4, <2>1, <2>2, <2>3 DEF q, a, b
<1>5. CASE ~ less
  <2> DEFINE top == Positive(v)
             bottom == Positive(w)
             r == <<Big(0), top>>
             s == Search(top, bottom)[r]
  <2>1. /\ top \in Unsigned /\ bottom \in Unsigned
        /\ top.magnitude = v.magnitude /\ bottom.magnitude = w.magnitude
    BY PositiveIs
  <2>2. q = [s EXCEPT !.sign = v.sign # w.sign]
    BY <1>2, <1>5 DEF Quotient, Positive
  <2>3. r \in Ranges /\ Lower(r) = 0 /\ Upper(r) = a /\ r[2] = top
    BY <1>3, <2>1 DEF Ranges, Lower, Upper
  <2>4. Finds(top, bottom, r)
    BY <2>1, <2>3, SearchFinds
  <2> HIDE DEF r, top, bottom
  <2>5. /\ s \in Unsigned /\ (s = top \/ IsTrimmed(s))
        /\ b > 0 /\ 0 <= (a \div b) + 1 /\ a >= a \div b => Absolute(s.magnitude) = a \div b
    BY <2>1, <2>3, <2>4 DEF Finds
  <2>6. b > 0 => 0 <= (a \div b) + 1 /\ a >= a \div b
    <3> SUFFICES ASSUME b > 0 PROVE 0 <= (a \div b) + 1 /\ a >= a \div b
      OBVIOUS
    <3> HIDE DEF a, b
    <3>1. a \div b \in Nat /\ a \div b <= a
      BY <1>1, Candidates
    <3> QED
      BY <1>1, <3>1
  <2> DEFINE sign == v.sign # w.sign
  <2>7. /\ q \in BigInts /\ q.magnitude = s.magnitude /\ q.sign = sign
    <3>1. s \in BigInts /\ sign \in BOOLEAN
      BY <2>5, UnsignedIs
    <3> HIDE DEF s, q, sign
    <3> QED
      BY <2>2, <3>1 DEF BigInts, sign
  <2>8. q.magnitude = v.magnitude \/ IsTrimmed(q)
    <3> HIDE DEF s, q
    <3> QED
      BY <2>1, <2>5, <2>7 DEF IsTrimmed
  <2>9. ~ IsZero(w) => Absolute(q.magnitude) = a \div b
    BY <1>1, <2>5, <2>6, <2>7
  <2> HIDE DEF q, a, b
  <2> QED
    BY <1>5, <2>7, <2>8, <2>9 DEF q, a, b
<1> QED
  BY <1>4, <1>5

-----------------------------------------------------------------------------
(* Leading zeros.                                                          *)

LEMMA MaxInts == \A a, b \in Int : Max({a, b}) = IF a < b THEN b ELSE a
<1> SUFFICES ASSUME NEW a \in Int, NEW b \in Int PROVE Max({a, b}) = IF a < b THEN b ELSE a
  OBVIOUS
<1> DEFINE S == {a, b}
           m == IF a < b THEN b ELSE a
           P(k) == k \in S /\ \A j \in S : k >= j
<1>1. P(m)
  OBVIOUS
<1>2. Max(S) = CHOOSE k \in S : \A j \in S : k >= j
  BY DEF Max
<1>3. P(Max(S))
  <2> HIDE DEF S
  <2> QED
    BY <1>1, <1>2
<1> QED
  BY <1>3

LEMMA LeadingIs ==
    ASSUME NEW v \in BigInts
    PROVE  LET n == Len(v.magnitude)
               s == Significant(v.magnitude)
           IN  /\ n \in Nat /\ s \in Nat /\ Leading(v) \in Nat /\ Leading(v) <= n
               /\ Leading(v) = IF n <= 1 \/ n <= s THEN 0
                               ELSE IF s > 1 THEN n - s ELSE n - 1
<1> DEFINE m == v.magnitude
           n == Len(m)
           s == Significant(m)
           k == Max({1, s})
           d == n - k
<1>1. n \in Nat /\ s \in 0 .. n
  <2>1. m \in Mags
    BY BigIs
  <2> HIDE DEF m
  <2> QED
    BY <2>1, MagIs, SignificantFacts
<1>2. Leading(v) = Max({0, d})
  BY DEF Leading
<1> HIDE DEF n, s
<1>3. k = IF 1 < s THEN s ELSE 1
  BY <1>1, MaxInts
<1> HIDE DEF k
<1>4. Max({0, d}) = IF 0 < d THEN d ELSE 0
  <2>1. d \in Int /\ 0 \in Int
    BY <1>1, <1>3
  <2> HIDE DEF d
  <2> QED
    BY <2>1, MaxInts
<1>5. /\ Leading(v) \in Nat /\ Leading(v) <= n
      /\ Leading(v) = IF n <= 1 \/ n <= s THEN 0 ELSE IF s > 1 THEN n - s ELSE n - 1
  BY <1>1, <1>2, <1>3, <1>4
<1> QED
  BY <1>1, <1>5 DEF n, s

LEMMA LeadingTrimmed ==
    ASSUME NEW v \in BigInts, IsTrimmed(v)
    PROVE  Leading(v) = 0
BY LeadingIs DEF IsTrimmed

LEMMA LeadingOrder ==
    ASSUME NEW v \in BigInts, NEW w \in BigInts,
           Len(v.magnitude) = Len(w.magnitude),
           Significant(v.magnitude) >= Significant(w.magnitude)
    PROVE  Leading(v) <= Leading(w)
<1> DEFINE n == Len(v.magnitude)
           s == Significant(v.magnitude)
           t == Significant(w.magnitude)
<1>1. n \in Nat /\ s \in Nat
      /\ Leading(v) = IF n <= 1 \/ n <= s THEN 0 ELSE IF s > 1 THEN n - s ELSE n - 1
  BY LeadingIs
<1>2. t \in Nat
      /\ Leading(w) = IF n <= 1 \/ n <= t THEN 0 ELSE IF t > 1 THEN n - t ELSE n - 1
  BY LeadingIs
<1>3. s >= t
  OBVIOUS
<1> HIDE DEF n, s, t
<1> QED
  BY <1>1, <1>2, <1>3

\* At most k leading zeros.
Within(v, k) == v \in BigInts /\ Leading(v) <= k

LEMMA TrimmedWithin ==
    ASSUME NEW v \in BigInts, NEW k \in Nat, IsTrimmed(v)
    PROVE  Within(v, k)
BY LeadingTrimmed DEF Within

LEMMA SameWithin ==
    ASSUME NEW v \in BigInts, NEW w, NEW k \in Nat, Within(w, k), v.magnitude = w.magnitude
    PROVE  Within(v, k)
BY DEF Within, Leading

LEMMA OrderWithin ==
    ASSUME NEW v \in BigInts, NEW w, NEW k \in Nat, Within(w, k),
           Len(v.magnitude) = Len(w.magnitude),
           Significant(v.magnitude) >= Significant(w.magnitude)
    PROVE  Within(v, k)
<1>1. w \in BigInts /\ Leading(w) <= k
  BY DEF Within
<1>2. Leading(v) <= Leading(w)
  BY <1>1, LeadingOrder
<1>3. Leading(v) \in Nat /\ Leading(w) \in Nat
  BY <1>1, LeadingIs
<1> QED
  BY <1>1, <1>2, <1>3 DEF Within

LEMMA NegatedWithin ==
    ASSUME NEW v, NEW k \in Nat, Within(v, k)
    PROVE  Within(Negated(v), k)
<1> DEFINE w == Negated(v)
           m == v.magnitude
<1>1. v \in BigInts /\ w \in BigInts /\ m \in Mags /\ (IsZero(v) <=> Absolute(m) = 0)
  <2>1. v \in BigInts
    BY DEF Within
  <2> QED
    BY <2>1, NegatedIs, BigIs
<1>2. CASE IsZero(v)
  BY <1>1, <1>2, NegatedIs
<1>3. CASE ~ IsZero(v) /\ ~ Rotates(v)
  <2>1. w.magnitude = m
    BY <1>1, <1>3, NegatedIs
  <2> HIDE DEF w
  <2> QED
    BY <1>1, <2>1, SameWithin DEF w
<1>4. CASE ~ IsZero(v) /\ Rotates(v)
  <2>1. w.magnitude = Rotated(m)
    BY <1>1, <1>4, NegatedIs
  <2>2. Significant(m) > 0 /\ Len(m) > 0 /\ Significant(m) \in Nat /\ Last(m) = 0
    <3>1. Significant(m) # 0 /\ Significant(m) \in 0 .. Len(m) /\ Len(m) \in Nat
      BY <1>1, <1>4, ZeroIs, SignificantFacts, MagIs
    <3>2. Last(m) = 0
      BY <1>4 DEF Rotates
    <3> QED
      BY <3>1, <3>2
  <2>3. Len(Rotated(m)) = Len(m) /\ Significant(Rotated(m)) = Significant(m) + 1
    BY <1>1, <2>2, RotatedIs
  <2>4. Len(w.magnitude) = Len(v.magnitude) /\ Significant(w.magnitude) >= Significant(v.magnitude)
    BY <2>1, <2>2, <2>3
  <2> HIDE DEF w
  <2> QED
    BY <1>1, <2>4, OrderWithin DEF w
<1> QED
  BY <1>2, <1>3, <1>4

LEMMA SameSignSumWithin ==
    ASSUME NEW v, NEW w, NEW k \in Nat, Within(v, k), Within(w, k)
    PROVE  Within(SameSignSum(v, w), k)
<1> DEFINE r == SameSignSum(v, w)
           a == v.magnitude
           b == w.magnitude
           m == AddedMagnitudes(a, b)
<1>1. v \in BigInts /\ w \in BigInts /\ a \in Mags /\ b \in Mags
  BY BigIs DEF Within
<1>2. r \in BigInts /\ r.magnitude = m
  BY <1>1, SameSignSumIs
<1>3. \/ Significant(m) = Len(m)
      \/ Len(m) = Len(a) /\ Significant(m) >= Significant(a)
      \/ Len(m) = Len(b) /\ Significant(m) >= Significant(b)
  BY <1>1, AddedIs
<1> HIDE DEF m, r
<1>4. CASE Significant(m) = Len(m)
  BY <1>2, <1>4, TrimmedWithin DEF IsTrimmed, r
<1>5. CASE Len(m) = Len(a) /\ Significant(m) >= Significant(a)
  BY <1>2, <1>5, OrderWithin DEF r
<1>6. CASE Len(m) = Len(b) /\ Significant(m) >= Significant(b)
  BY <1>2, <1>6, OrderWithin DEF r
<1> QED
  BY <1>3, <1>4, <1>5, <1>6

LEMMA SameSignDifferenceWithin ==
    ASSUME NEW v, NEW w, NEW k \in Nat, Within(v, k), Within(w, k)
    PROVE  Within(SameSignDifference(v, w), k)
<1> DEFINE r == SameSignDifference(v, w)
           a == v.magnitude
           b == w.magnitude
<1>1. v \in BigInts /\ w \in BigInts /\ a \in Mags /\ b \in Mags
  BY BigIs DEF Within
<1>2. /\ r \in BigInts
      /\ r.magnitude = SubtractedMagnitudes(b, a) \/ r.magnitude = SubtractedMagnitudes(a, b)
  <2>1. LET less == Absolute(v.magnitude) < Absolute(w.magnitude)
        IN  r \in BigInts /\ r.magnitude = IF less THEN SubtractedMagnitudes(b, a)
                                           ELSE SubtractedMagnitudes(a, b)
    BY <1>1, SameSignDifferenceIs, Zenon
  <2> HIDE DEF r, a, b
  <2> QED
    BY <2>1
<1>3. IsTrimmed(r)
  <2> HIDE DEF r, a, b
  <2> QED
    BY <1>1, <1>2, SubtractedType DEF IsTrimmed
<1> HIDE DEF r
<1> QED
  BY <1>2, <1>3, TrimmedWithin DEF r

LEMMA DifferenceWithin ==
    ASSUME NEW v, NEW w, NEW k \in Nat, Within(v, k), Within(w, k)
    PROVE  Within(Difference(v, w), k)
<1>1. Within(Negated(w), k)
  BY NegatedWithin
<1>2. Within(SameSignSum(v, Negated(w)), k) /\ Within(SameSignDifference(v, w), k)
  BY <1>1, SameSignSumWithin, SameSignDifferenceWithin
<1> QED
  BY <1>1, <1>2, Zenon DEF Difference

LEMMA SumWithin ==
    ASSUME NEW v, NEW w, NEW k \in Nat, Within(v, k), Within(w, k)
    PROVE  Within(Sum(v, w), k)
<1>1. Within(Negated(v), k) /\ Within(Negated(w), k)
  BY NegatedWithin
<1>2. /\ Within(SameSignSum(v, w), k) /\ Within(Difference(w, Negated(v)), k)
      /\ Within(Difference(v, Negated(w)), k)
  BY <1>1, SameSignSumWithin, DifferenceWithin
<1> QED
  BY <1>2, Zenon DEF Sum

LEMMA ProductWithin ==
    ASSUME NEW v \in BigInts, NEW w \in BigInts, NEW k \in Nat
    PROVE  Within(Product(v, w), k)
<1>1. Product(v, w) \in BigInts /\ IsTrimmed(Product(v, w))
  BY ProductIs DEF IsTrimmed
<1> QED
  BY <1>1, TrimmedWithin

LEMMA QuotientWithin ==
    ASSUME NEW v, NEW w \in BigInts, NEW k \in Nat, Within(v, k)
    PROVE  Within(Quotient(v, w), k)
<1> DEFINE q == Quotient(v, w)
<1>1. v \in BigInts
  BY DEF Within
<1>2. q \in BigInts /\ (q.magnitude = v.magnitude \/ IsTrimmed(q))
  BY <1>1, QuotientIs
<1> HIDE DEF q
<1> QED
  BY <1>2, TrimmedWithin, SameWithin DEF q

LEMMA ShiftedWithin ==
    ASSUME NEW v \in BigInts, NEW n \in Nat, NEW k \in Nat
    PROVE  Within(Shifted(v, n), k)
<1>1. Shifted(v, n) \in BigInts /\ IsTrimmed(Shifted(v, n))
  BY ShiftedIs, UnsignedIs DEF IsTrimmed
<1> QED
  BY <1>1, TrimmedWithin

-----------------------------------------------------------------------------
(* The program.                                                            *)

MostLeading == Max({Leading(y) : y \in Constructed})

LEMMA MostLeadingIs ==
    ASSUME Constructed # {}
    PROVE  MostLeading \in Nat /\ \A y \in Constructed : Within(y, MostLeading)
<1> DEFINE S == {Leading(y) : y \in Constructed}
<1>1. MaxWords \in Nat
  BY SizesAssumption
<1>2. \A y \in Constructed : y \in BigInts /\ Leading(y) \in 0 .. MaxWords
  <2> SUFFICES ASSUME NEW y \in Constructed PROVE y \in BigInts /\ Leading(y) \in 0 .. MaxWords
    OBVIOUS
  <2>1. y \in BigInts /\ Len(y.magnitude) <= MaxWords
    BY ConstructedAssumption
  <2>2. Leading(y) \in Nat /\ Leading(y) <= Len(y.magnitude) /\ Len(y.magnitude) \in Nat
    BY <2>1, LeadingIs
  <2> QED
    BY <1>1, <2>1, <2>2
<1>3. S \subseteq 0 .. MaxWords /\ S # {}
  BY <1>2
<1>4. Max(S) \in S /\ \A j \in S : Max(S) >= j
  <2> HIDE DEF S
  <2> QED
    BY <1>1, <1>3, MaxIn
<1>5. MostLeading = Max(S)
  BY DEF MostLeading
<1>6. MostLeading \in Nat
  <2> HIDE DEF S
  <2>1. Max(S) \in 0 .. MaxWords
    BY <1>3, <1>4
  <2> QED
    BY <1>1, <1>5, <2>1
<1>7. \A y \in Constructed : Leading(y) <= MostLeading
  <2> SUFFICES ASSUME NEW y \in Constructed PROVE Leading(y) <= MostLeading
    OBVIOUS
  <2>1. Leading(y) \in S /\ Leading(y) \in Nat
    BY <1>2
  <2> HIDE DEF S
  <2> QED
    BY <1>4, <1>5, <1>6, <2>1
<1> QED
  BY <1>2, <1>6, <1>7 DEF Within

\* Words are in range and no operation makes new leading zeros.
TypeInv ==
    /\ Constructed # {} /\ Within(x, MostLeading)
    /\ Len(x.magnitude) <= MaxWords

LEMMA TypeInit == Init => TypeInv
<1> SUFFICES ASSUME Init PROVE TypeInv
  OBVIOUS
<1>1. x \in Constructed /\ Constructed # {}
  BY DEF Init
<1> QED
  BY <1>1, MostLeadingIs, ConstructedAssumption DEF TypeInv

LEMMA TypeNext == TypeInv /\ [Next]_x => TypeInv'
<1> SUFFICES ASSUME TypeInv, [Next]_x PROVE TypeInv'
  OBVIOUS
<1> DEFINE k == MostLeading
<1>1. /\ Constructed # {} /\ k \in Nat /\ Within(x, k) /\ x \in BigInts
      /\ \A y \in Constructed : Within(y, k) /\ y \in BigInts
  BY MostLeadingIs DEF TypeInv, Within
<1> HIDE DEF k
<1>2. ASSUME NEW v, Becomes(v), Within(v, k) PROVE TypeInv'
  <2>1. Within(x', k) /\ Len(x'.magnitude) <= MaxWords
    BY <1>2 DEF Becomes
  <2> QED
    BY <1>1, <2>1 DEF TypeInv, k
<1>3. CASE Negate
  BY <1>1, <1>2, <1>3, NegatedWithin DEF Negate
<1>4. ASSUME NEW y \in Constructed, Assign(y) PROVE TypeInv'
  BY <1>1, <1>2, <1>4 DEF Assign
<1>5. ASSUME NEW y \in Constructed, Add(y) PROVE TypeInv'
  BY <1>1, <1>2, <1>5, SumWithin DEF Add
<1>6. ASSUME NEW y \in Constructed, Subtract(y) PROVE TypeInv'
  BY <1>1, <1>2, <1>6, DifferenceWithin DEF Subtract
<1>7. ASSUME NEW y \in Constructed, Multiply(y) PROVE TypeInv'
  BY <1>1, <1>2, <1>7, ProductWithin DEF Multiply
<1>8. ASSUME NEW y \in Constructed, Divide(y) PROVE TypeInv'
  BY <1>1, <1>2, <1>8, QuotientWithin DEF Divide
<1>9. ASSUME NEW n \in Shifts, ShiftLeft(n) PROVE TypeInv'
  <2>1. n \in Nat
    BY SizesAssumption
  <2> QED
    BY <1>1, <1>2, <1>9, <2>1, ShiftedWithin DEF ShiftLeft
<1>10. CASE UNCHANGED x
  BY <1>10 DEF TypeInv, Within
<1> QED
  BY <1>3, <1>4, <1>5, <1>6, <1>7, <1>8, <1>9, <1>10 DEF Next

\* Whatever a program computes, in any order, the words stay in range and no
\* operation adds a leading zero to those that were constructed.
THEOREM BigIntTypeCorrect == Spec => []BigIntTypeOK
<1>1. TypeInv => BigIntTypeOK
  BY DEF TypeInv, Within, BigIntTypeOK, MostLeading
<1> QED
  BY <1>1, TypeInit, TypeNext, PTL DEF Spec

-----------------------------------------------------------------------------
(* Exact results.                                                          *)

LEMMA OperandsAre ==
    ASSUME TypeInv
    PROVE  x \in BigInts /\ \A y \in Operands : y \in BigInts
BY ConstructedAssumption DEF TypeInv, Within, Operands

\* Sums, differences and negations are those of the integers wherever no borrow
\* runs into a word that is all ones and no leading zero is moved.
THEOREM SumsCorrect == Spec => []SumsExact
<1>1. ASSUME TypeInv PROVE SumsExact
  <2>1. x \in BigInts
    BY <1>1, OperandsAre
  <2>2. ~ Rotates(x) => Value(Negated(x)) = -Value(x)
    BY <2>1, NegatedIs
  <2>3. ASSUME NEW y \in Operands, ~ BorrowLost(x, y), ~ Rotates(x), ~ Rotates(y)
        PROVE  /\ Value(Sum(x, y)) = Value(x) + Value(y)
               /\ Value(Difference(x, y)) = Value(x) - Value(y)
    <3>1. y \in BigInts
      BY <1>1, OperandsAre
    <3> QED
      BY <2>1, <2>3, <3>1, SumExact, DifferenceExact
  <2> QED
    BY <2>2, <2>3 DEF SumsExact
<1> QED
  BY <1>1, TypeInit, TypeNext, PTL DEF Spec

LEMMA ProductExact ==
    ASSUME NEW v \in BigInts, NEW w \in BigInts
    PROVE  Value(Product(v, w)) = Value(v) * Value(w)
<1> DEFINE p == Product(v, w)
           a == Absolute(v.magnitude)
           b == Absolute(w.magnitude)
           c == Absolute(p.magnitude)
<1>1. /\ a \in Nat /\ b \in Nat /\ v.sign \in BOOLEAN /\ w.sign \in BOOLEAN
      /\ Value(v) = IF v.sign THEN -a ELSE a
      /\ Value(w) = IF w.sign THEN -b ELSE b
      /\ (IsZero(v) <=> a = 0) /\ (IsZero(w) <=> b = 0)
  BY BigIs
<1>2. /\ p \in BigInts /\ c = a * b
      /\ IsZero(v) \/ IsZero(w) => p = Big(0)
      /\ ~ IsZero(v) /\ ~ IsZero(w) => p.sign = (v.sign # w.sign)
  BY ProductIs
<1> HIDE DEF p
<1>3. Value(p) = IF p.sign THEN -c ELSE c
  BY <1>2, BigIs
<1>4. /\ (-a) * b = -(a * b) /\ a * (-b) = -(a * b) /\ (-a) * (-b) = a * b
      /\ (a = 0 \/ b = 0 => a * b = 0) /\ a * b \in Int
  <2> HIDE DEF a, b
  <2>1. a \in Int /\ b \in Int /\ 0 \in Int /\ -b \in Int
    BY <1>1
  <2>2. (0 - a) * b = 0 * b - a * b /\ (0 - b) * a = 0 * a - b * a
        /\ (0 - a) * (-b) = 0 * (-b) - a * (-b)
    BY <2>1, TimesMinus
  <2>3. a * (-b) = (-b) * a /\ a * b = b * a /\ a * b \in Int
    BY <2>1, Times
  <2>4. 0 * b = 0 /\ 0 * a = 0 /\ 0 * (-b) = 0 /\ 0 - a = -a /\ 0 - b = -b
    BY <2>1
  <2> QED
    BY <2>1, <2>2, <2>3, <2>4
<1> HIDE DEF a, b, c
<1>5. CASE IsZero(v) \/ IsZero(w)
  <2>1. c = 0
    BY <1>1, <1>2, <1>4, <1>5
  <2>2. a * b = 0 /\ -(a * b) = 0
    BY <1>2, <2>1
  <2>3. Value(p) = 0
    BY <1>2, <1>3, <2>1, <2>2, Zenon
  <2>4. Value(v) * Value(w) = 0
    <3>1. CASE v.sign /\ w.sign
      BY <1>1, <1>4, <2>2, <3>1
    <3>2. CASE v.sign /\ ~ w.sign
      BY <1>1, <1>4, <2>2, <3>2
    <3>3. CASE ~ v.sign /\ w.sign
      BY <1>1, <1>4, <2>2, <3>3
    <3>4. CASE ~ v.sign /\ ~ w.sign
      BY <1>1, <1>4, <2>2, <3>4
    <3> QED
      BY <1>1, <3>1, <3>2, <3>3, <3>4
  <2> QED
    BY <2>3, <2>4 DEF p
<1>6. CASE ~ IsZero(v) /\ ~ IsZero(w)
  <2>1. p.sign = (v.sign # w.sign)
    BY <1>2, <1>6
  <2>2. CASE v.sign = w.sign
    <3>1. p.sign = FALSE /\ Value(p) = a * b
      BY <1>2, <1>3, <2>1, <2>2
    <3>2. CASE v.sign
      BY <1>1, <1>4, <2>2, <3>1, <3>2 DEF p
    <3>3. CASE ~ v.sign
      BY <1>1, <1>4, <2>2, <3>1, <3>3 DEF p
    <3> QED
      BY <3>2, <3>3
  <2>3. CASE v.sign # w.sign
    <3>1. p.sign = TRUE /\ Value(p) = -(a * b)
      BY <1>2, <1>3, <2>1, <2>3
    <3>2. CASE v.sign
      BY <1>1, <1>4, <2>3, <3>1, <3>2 DEF p
    <3>3. CASE ~ v.sign
      BY <1>1, <1>4, <2>3, <3>1, <3>3 DEF p
    <3> QED
      BY <3>2, <3>3
  <2> QED
    BY <2>2, <2>3
<1> QED
  BY <1>5, <1>6

LEMMA QuotientExact ==
    ASSUME NEW v \in BigInts, NEW w \in BigInts, ~ IsZero(w)
    PROVE  Value(Quotient(v, w)) = Truncated(Value(v), Value(w))
<1> DEFINE q == Quotient(v, w)
           a == Absolute(v.magnitude)
           b == Absolute(w.magnitude)
           c == Absolute(q.magnitude)
           av == Value(v)
           bv == Value(w)
<1>1. /\ a \in Nat /\ b \in Nat /\ v.sign \in BOOLEAN /\ w.sign \in BOOLEAN
      /\ av = IF v.sign THEN -a ELSE a
      /\ bv = IF w.sign THEN -b ELSE b
      /\ b # 0
  BY BigIs
<1>2. /\ q \in BigInts /\ c = a \div b
      /\ a < b => q = Big(0)
      /\ ~ (a < b) => q.sign = (v.sign # w.sign)
  BY QuotientIs
<1> HIDE DEF q
<1>3. Value(q) = (IF q.sign THEN -c ELSE c) /\ c \in Nat /\ q.sign \in BOOLEAN
  BY <1>2, BigIs
<1> HIDE DEF a, b, c, av, bv
<1>4. Max({av, -av}) = a /\ Max({bv, -bv}) = b
  <2>1. av \in Int /\ -av \in Int /\ bv \in Int /\ -bv \in Int
    BY <1>1
  <2>2. /\ Max({av, -av}) = IF av < -av THEN -av ELSE av
        /\ Max({bv, -bv}) = IF bv < -bv THEN -bv ELSE bv
    BY <2>1, MaxInts
  <2> QED
    BY <1>1, <2>2
<1>5. Truncated(av, bv) = IF (av < 0) = (bv < 0) THEN c ELSE -c
  BY <1>2, <1>4 DEF Truncated
<1>6. (bv < 0) = w.sign /\ ((av < 0) = (v.sign /\ a # 0))
  BY <1>1
<1>7. CASE a < b
  <2>1. c = 0
    <3>1. a \div b = 0
      BY <1>1, <1>7
    <3> QED
      BY <1>2, <3>1
  <2> QED
    BY <1>3, <1>5, <2>1 DEF av, bv, q
<1>8. CASE ~ (a < b)
  <2>1. a # 0
    BY <1>1, <1>8
  <2>2. ((av < 0) = (bv < 0)) <=> ~ q.sign
    BY <1>1, <1>2, <1>6, <1>8, <2>1
  <2> QED
    BY <1>3, <1>5, <2>2 DEF av, bv, q
<1> QED
  BY <1>7, <1>8

LEMMA ShiftedExact ==
    ASSUME NEW v \in BigInts, ~ v.sign, NEW n \in Nat
    PROVE  Value(Shifted(v, n)) = Value(v) * TwoTo[n]
<1>1. /\ Shifted(v, n) \in Unsigned
      /\ Absolute(Shifted(v, n).magnitude) = Absolute(v.magnitude) * TwoTo[n]
  BY ShiftedIs
<1>2. Value(v) = Absolute(v.magnitude)
  BY BigIs
<1> QED
  BY <1>1, <1>2, UnsignedIs

\* Products, quotients and left shifts are those of the integers for every
\* representation of the operands; the binary search ends at the quotient.
THEOREM ProductsCorrect == Spec => []ProductsExact
<1>1. ASSUME TypeInv PROVE ProductsExact
  <2>1. x \in BigInts
    BY <1>1, OperandsAre
  <2>2. ASSUME NEW y \in Operands
        PROVE  /\ Value(Product(x, y)) = Value(x) * Value(y)
               /\ ~ IsZero(y) => Value(Quotient(x, y)) = Truncated(Value(x), Value(y))
    <3>1. y \in BigInts
      BY <1>1, OperandsAre
    <3> QED
      BY <2>1, <3>1, ProductExact, QuotientExact
  <2>3. ASSUME ~ x.sign, NEW n \in Shifts PROVE Value(Shifted(x, n)) = Value(x) * TwoTo[n]
    <3>1. n \in Nat
      BY SizesAssumption
    <3> QED
      BY <2>1, <2>3, <3>1, ShiftedExact
  <2> QED
    BY <2>2, <2>3 DEF ProductsExact
<1> QED
  BY <1>1, TypeInit, TypeNext, PTL DEF Spec

LEMMA CompareExact ==
    ASSUME NEW v \in BigInts, NEW w \in BigInts
    PROVE  OrderExact(v, w)
<1> DEFINE a == Absolute(v.magnitude)
           b == Absolute(w.magnitude)
           cmp == CompareMagnitudes(v.magnitude, w.magnitude)
           av == Value(v)
           bv == Value(w)
<1>1. /\ a \in Nat /\ b \in Nat /\ v.sign \in BOOLEAN /\ w.sign \in BOOLEAN
      /\ av = IF v.sign THEN -a ELSE a
      /\ bv = IF w.sign THEN -b ELSE b
      /\ (IsZero(v) <=> a = 0) /\ (IsZero(w) <=> b = 0)
      /\ v.magnitude \in Mags /\ w.magnitude \in Mags
  BY BigIs
<1>2. cmp = IF a > b THEN 1 ELSE IF a < b THEN -1 ELSE 0
  BY <1>1, CompareIs
<1>3. Compare(v, w) = IF IsZero(v) /\ IsZero(w) THEN 0
                      ELSE IF v.sign THEN (IF w.sign THEN -cmp ELSE -1)
                      ELSE IF w.sign THEN 1 ELSE cmp
  BY DEF Compare
<1> HIDE DEF a, b, cmp, av, bv
<1>4. Compare(v, w) = IF av - bv > 0 THEN 1 ELSE IF av - bv < 0 THEN -1 ELSE 0
  <2>1. CASE v.sign /\ w.sign
    BY <1>1, <1>2, <1>3, <2>1
  <2>2. CASE v.sign /\ ~ w.sign
    BY <1>1, <1>2, <1>3, <2>2
  <2>3. CASE ~ v.sign /\ w.sign
    BY <1>1, <1>2, <1>3, <2>3
  <2>4. CASE ~ v.sign /\ ~ w.sign
    BY <1>1, <1>2, <1>3, <2>4
  <2> QED
    BY <1>1, <2>1, <2>2, <2>3, <2>4
<1> QED
  BY <1>4 DEF OrderExact, av, bv

LEMMA NoneNegative ==
    ASSUME NEW v \in BigInts, NEW w \in BigInts
    PROVE  NoNewNegativeZero(v, w)
<1> SUFFICES ASSUME ~ NegativeZero(v), ~ NegativeZero(w)
             PROVE  /\ ~ NegativeZero(Negated(v))
                    /\ ~ NegativeZero(Sum(v, w)) /\ ~ NegativeZero(Difference(v, w))
                    /\ ~ NegativeZero(Product(v, w))
                    /\ ~ IsZero(w) => ~ NegativeZero(Quotient(v, w))
  BY DEF NoNewNegativeZero
<1> DEFINE a == Absolute(v.magnitude)
           b == Absolute(w.magnitude)
<1>1. /\ a \in Nat /\ b \in Nat /\ v.sign \in BOOLEAN /\ w.sign \in BOOLEAN
      /\ (IsZero(v) <=> a = 0) /\ (IsZero(w) <=> b = 0)
  BY BigIs
<1>2. ASSUME NEW u \in BigInts, ~ NegativeZero(u)
      PROVE  ~ NegativeZero(Negated(u)) /\ Negated(u) \in BigInts
  BY <1>2, NegatedIs DEF NegativeZero
<1>3. ASSUME NEW t \in BigInts, NEW u \in BigInts, ~ NegativeZero(t)
      PROVE  ~ NegativeZero(SameSignSum(t, u))
  <2> DEFINE r == SameSignSum(t, u)
             c == Absolute(t.magnitude)
             d == Absolute(u.magnitude)
  <2>1. r \in BigInts /\ r.sign = t.sign /\ Absolute(r.magnitude) = c + d
    BY SameSignSumIs
  <2>2. /\ c \in Nat /\ d \in Nat /\ (IsZero(t) <=> c = 0)
    BY BigIs
  <2> HIDE DEF r
  <2>3. IsZero(r) <=> c + d = 0
    BY <2>1, BigIs
  <2> HIDE DEF c, d
  <2> QED
    BY <1>3, <2>1, <2>2, <2>3 DEF NegativeZero, r
<1>4. ASSUME NEW t \in BigInts, NEW u \in BigInts, ~ NegativeZero(t), ~ NegativeZero(u)
      PROVE  ~ NegativeZero(Difference(t, u))
  <2>1. ~ NegativeZero(Negated(u)) /\ Negated(u) \in BigInts
    BY <1>2, <1>4
  <2>2. ~ NegativeZero(SameSignSum(t, Negated(u)))
    BY <1>3, <1>4, <2>1
  <2>3. ~ NegativeZero(SameSignDifference(t, u))
    <3> DEFINE r == SameSignDifference(t, u)
    <3>1. IsZero(r) => r.sign = FALSE
      BY SameSignDifferenceIs, Zenon
    <3> QED
      BY <3>1 DEF NegativeZero
  <2> QED
    BY <1>4, <2>1, <2>2, <2>3, Zenon DEF Difference
<1>5. ~ NegativeZero(Sum(v, w))
  <2>1. ~ NegativeZero(Negated(v)) /\ ~ NegativeZero(Negated(w)) /\ Negated(v) \in BigInts
        /\ Negated(w) \in BigInts
    BY <1>2
  <2>2. /\ ~ NegativeZero(SameSignSum(v, w)) /\ ~ NegativeZero(Difference(w, Negated(v)))
        /\ ~ NegativeZero(Difference(v, Negated(w)))
    BY <1>3, <1>4, <2>1
  <2> QED
    BY <2>2, Zenon DEF Sum
<1>6. 0 \in Words /\ ~ NegativeZero(Big(0))
  <2>1. 0 \in Words
    BY BaseFacts DEF Words
  <2>2. Big(0).sign = FALSE
    BY <2>1, SmallIs, UnsignedIs
  <2> QED
    BY <2>1, <2>2 DEF NegativeZero
<1>7. ~ NegativeZero(Product(v, w))
  <2> DEFINE p == Product(v, w)
  <2>1. /\ p \in BigInts /\ Absolute(p.magnitude) = a * b
        /\ IsZero(v) \/ IsZero(w) => p = Big(0)
    BY ProductIs
  <2> HIDE DEF p, a, b
  <2>2. CASE IsZero(v) \/ IsZero(w)
    BY <1>6, <2>1, <2>2 DEF p
  <2>3. CASE ~ IsZero(v) /\ ~ IsZero(w)
    <3>1. a \in Nat \ {0} /\ b \in Nat \ {0}
      BY <1>1, <2>3
    <3>2. a * b # 0
      BY <3>1
    <3>3. ~ IsZero(p)
      BY <2>1, <3>2, BigIs
    <3> QED
      BY <3>3 DEF NegativeZero, p
  <2> QED
    BY <2>2, <2>3
<1>8. ASSUME ~ IsZero(w) PROVE ~ NegativeZero(Quotient(v, w))
  <2> DEFINE q == Quotient(v, w)
  <2>1. /\ q \in BigInts /\ Absolute(q.magnitude) = a \div b
        /\ a < b => q = Big(0)
    BY <1>8, QuotientIs
  <2> HIDE DEF q, a, b
  <2>2. CASE a < b
    BY <1>6, <2>1, <2>2 DEF q
  <2>3. CASE ~ (a < b)
    <3>1. a \in Nat /\ b \in Nat \ {0} /\ b <= a
      BY <1>1, <1>8, <2>3
    <3>2. a \div b # 0
      BY <3>1
    <3>3. ~ IsZero(q)
      BY <2>1, <3>2, BigIs
    <3> QED
      BY <3>3 DEF NegativeZero, q
  <2> QED
    BY <2>2, <2>3
<1> QED
  BY <1>2, <1>4, <1>5, <1>7, <1>8

-----------------------------------------------------------------------------
(* Digits and bits.                                                        *)

\* What is above the first k words is a multiple of a one in the next.
LEMMA HighWords ==
    ASSUME NEW m \in Mags, NEW k \in Nat
    PROVE  \A n \in Nat : \E h \in Nat : Low(m)[k + n] = Low(m)[k] + h * Place(k)
<1> DEFINE P == Place(k)
           N == {n \in Nat : \E h \in Nat : Low(m)[k + n] = Low(m)[k] + h * P}
<1>1. P \in Nat /\ \A n \in Nat : Low(m)[n] \in Nat
  <2>1. P \in Nat
    BY PlaceFacts
  <2> QED
    BY <2>1, LowIs
<1>2. 0 \in N
  <2>1. k + 0 = k /\ 0 * P = 0
    BY <1>1
  <2>2. Low(m)[k + 0] = Low(m)[k] + 0 * P
    BY <1>1, <2>1
  <2> QED
    BY <2>2
<1>3. ASSUME NEW n \in Nat, n \in N PROVE n + 1 \in N
  <2>1. PICK h \in Nat : Low(m)[k + n] = Low(m)[k] + h * P
    BY <1>3
  <2> DEFINE u == Word(m, k + n + 1)
             T == Place(n)
  <2>2. k + n \in Nat /\ (k + n) + 1 = k + n + 1 /\ k + n + 1 \in Nat \ {0}
        /\ k + (n + 1) = k + n + 1
    OBVIOUS
  <2>3. Low(m)[(k + n) + 1] = Low(m)[k + n] + Word(m, (k + n) + 1) * Place(k + n)
    BY <2>2, LowIs
  <2>4. Place(k + n) = P * T
    BY PlaceSum
  <2>5. u \in Nat /\ T \in Nat
    <3>1. u \in Nat
      BY <2>2, WordType
    <3>2. T \in Nat
      BY PlaceFacts
    <3> QED
      BY <3>1, <3>2
  <2>6. Low(m)[k + (n + 1)] = Low(m)[k + n] + u * (P * T)
    BY <2>2, <2>3, <2>4
  <2> HIDE DEF u, T, P
  <2>7. u * (P * T) = (u * T) * P /\ u * T \in Nat
    <3>1. P * T = T * P
      BY <1>1, <2>5, Times
    <3>2. (u * T) * P = u * (T * P)
      BY <1>1, <2>5, TimesTimes
    <3> QED
      BY <2>5, <3>1, <3>2, TimesNat
  <2>8. (h + u * T) * P = h * P + (u * T) * P
    BY <1>1, <2>5, <2>7, TimesAdd
  <2> DEFINE g == u * T
             gp == g * P
             hp == h * P
  <2>9. g \in Nat /\ gp \in Nat /\ hp \in Nat /\ (h + g) * P = hp + gp
        /\ Low(m)[k + (n + 1)] = Low(m)[k + n] + gp /\ Low(m)[k + n] = Low(m)[k] + hp
    BY <1>1, <2>1, <2>6, <2>7, <2>8, TimesNat
  <2> HIDE DEF g, gp, hp
  <2>10. Low(m)[k + (n + 1)] = Low(m)[k] + (h + g) * P /\ h + g \in Nat
    BY <1>1, <2>9
  <2> QED
    BY <2>10
<1>4. \A n \in Nat : n \in N
  <2> HIDE DEF N
  <2> QED
    BY <1>2, <1>3, AllNumbers
<1> QED
  BY <1>4

\* A value is its first k words, the next word, and a multiple of the rest.
LEMMA Split ==
    ASSUME NEW m \in Mags, NEW k \in Nat
    PROVE  \E h \in Nat : Absolute(m) = Low(m)[k] + (Word(m, k + 1) + h * Base) * Place(k)
<1> DEFINE n == Len(m)
           u == Word(m, k + 1)
           P == Place(k)
<1>1. n \in Nat /\ k + 1 \in Nat /\ (k + 1) + n >= Len(m) /\ (k + 1) + n \in Nat
  BY MagIs
<1>2. PICK h \in Nat : Low(m)[(k + 1) + n] = Low(m)[k + 1] + h * Place(k + 1)
  BY <1>1, HighWords
<1>3. Low(m)[(k + 1) + n] = Absolute(m)
  BY <1>1, AbsoluteFacts
<1>4. Low(m)[k + 1] = Low(m)[k] + u * P /\ Low(m)[k] \in Nat
  BY LowIs
<1>5. Place(k + 1) = Base * P /\ P \in Nat /\ Base \in Nat
  BY PlaceFacts, BaseFacts
<1>6. u \in Nat
  BY <1>1, WordType
<1> HIDE DEF n, u, P
<1>7. (u + h * Base) * P = u * P + h * (Base * P)
  <2>1. h * Base \in Int
    BY <1>5, Times
  <2>2. (u + h * Base) * P = u * P + (h * Base) * P
    BY <1>5, <1>6, <2>1, TimesAdd
  <2>3. (h * Base) * P = h * (Base * P)
    BY <1>5, TimesTimes
  <2> QED
    BY <2>2, <2>3
<1> DEFINE up == u * P
           hp == h * Place(k + 1)
<1>8. /\ up \in Int /\ hp \in Int
      /\ Absolute(m) = (Low(m)[k] + up) + hp /\ (u + h * Base) * P = up + hp
  <2>1. Place(k + 1) \in Int
    BY PlaceFacts
  <2> QED
    BY <1>2, <1>3, <1>4, <1>5, <1>6, <1>7, <2>1, Times
<1> HIDE DEF up, hp
<1>9. Absolute(m) = Low(m)[k] + (u + h * Base) * P
  BY <1>4, <1>8
<1> QED
  BY <1>9 DEF u, P

\* d bits of a word, from bit t of the value on.
LEMMA BitsOf ==
    ASSUME NEW m \in Mags, NEW t \in Nat, NEW d \in Nat, (t % WordBits) + d <= WordBits
    PROVE  (Word(m, t \div WordBits + 1) \div TwoTo[t % WordBits]) % TwoTo[d]
             = (Absolute(m) \div TwoTo[t]) % TwoTo[d]
<1> DEFINE k == t \div WordBits
           j == t % WordBits
           u == Word(m, k + 1)
           P == Place(k)
           J == TwoTo[j]
           D == TwoTo[d]
           E == TwoTo[WordBits - (j + d)]
           l == Low(m)[k]
           r == u % J
           q == u \div J
<1>1. k \in Nat /\ j \in Nat /\ t = k * WordBits + j /\ WordBits \in Nat /\ j + d <= WordBits
  <2>1. WordBits \in Nat \ {0}
    BY BaseFacts
  <2>2. k \in Int /\ j \in 0 .. WordBits - 1 /\ t = k * WordBits + j
    BY <2>1, Division
  <2>3. k >= 0
    BY <2>1
  <2> QED
    BY <2>1, <2>2, <2>3
<1> HIDE DEF k, j
<1>2. J \in Nat \ {0} /\ D \in Nat \ {0} /\ E \in Nat \ {0} /\ Base = J * (D * E)
  <2>1. WordBits - (j + d) \in Nat /\ j + d \in Nat /\ (j + d) + (WordBits - (j + d)) = WordBits
    BY <1>1
  <2>2. TwoTo[WordBits] = TwoTo[j + d] * E /\ TwoTo[j + d] = J * D
    <3>1. TwoTo[(j + d) + (WordBits - (j + d))] = TwoTo[j + d] * E
      BY <2>1, TwoToSum
    <3>2. TwoTo[j + d] = J * D
      BY <1>1, TwoToSum
    <3> QED
      BY <2>1, <3>1, <3>2
  <2>3. J \in Nat \ {0} /\ D \in Nat \ {0} /\ E \in Nat \ {0}
    BY <1>1, <2>1, TwoToFacts
  <2> HIDE DEF J, D, E
  <2>4. (J * D) * E = J * (D * E)
    BY <2>3, TimesTimes
  <2> QED
    BY <2>2, <2>3, <2>4 DEF Base
<1>3. TwoTo[t] = J * P
  <2>1. WordBits * k = k * WordBits /\ k * WordBits \in Nat
    BY <1>1, Times, TimesNat
  <2> DEFINE w == k * WordBits
  <2>2. w \in Nat /\ t = w + j /\ WordBits * k = w
    BY <1>1, <2>1
  <2> HIDE DEF w
  <2>3. j + w = t
    BY <1>1, <2>2
  <2>4. TwoTo[j + w] = J * TwoTo[w]
    BY <1>1, <2>2, TwoToSum
  <2> QED
    BY <2>2, <2>3, <2>4 DEF Place
<1>4. P \in Nat \ {0} /\ u \in Nat /\ l \in Nat /\ l < P
  <2>1. P \in Nat /\ P > 0
    BY <1>1, PlaceFacts
  <2>2. k + 1 \in Nat \ {0}
    BY <1>1
  <2>3. u \in Nat
    BY <2>2, WordType
  <2>4. l \in Nat
    BY <1>1, LowIs
  <2>5. l < P
    BY <1>1, LowBounded
  <2> QED
    BY <2>1, <2>3, <2>4, <2>5
<1>5. PICK h \in Nat : Absolute(m) = l + (u + h * Base) * P
  BY <1>1, Split
<1> HIDE DEF u, P, J, D, E, l
<1>6. q \in Nat /\ r \in 0 .. J - 1 /\ u = q * J + r
  <2>1. q \in Int /\ r \in 0 .. J - 1 /\ u = q * J + r
    BY <1>2, <1>4, Division
  <2>2. q >= 0
    BY <1>2, <1>4
  <2> QED
    BY <2>1, <2>2
<1> HIDE DEF q, r
<1> DEFINE g == h * E
           f == q + g * D
           JP == J * P
           z == r * P + l
<1>7. g \in Nat /\ g * D \in Nat /\ f \in Nat
  <2>1. g \in Nat
    BY <1>2, TimesNat
  <2> HIDE DEF g
  <2>2. g * D \in Nat
    BY <1>2, <2>1, TimesNat
  <2> QED
    BY <1>6, <2>1, <2>2
<1>8. (u + h * Base) * P = f * JP + r * P
  <2>1. h * Base = (g * D) * J
    <3>1. /\ (h * E) * D = h * (E * D) /\ E * D = D * E
          /\ (h * (D * E)) * J = h * ((D * E) * J) /\ (D * E) * J = J * (D * E)
      <4>1. D * E \in Int
        BY <1>2, Times
      <4> QED
        BY <1>2, <4>1, TimesTimes, Times
    <3> QED
      BY <1>2, <3>1
  <2>2. u + h * Base = f * J + r
    <3> HIDE DEF g
    <3>1. (q + g * D) * J = q * J + (g * D) * J
      BY <1>2, <1>6, <1>7, TimesAdd
    <3> DEFINE qj == q * J
               gj == (g * D) * J
    <3>2. qj \in Int /\ gj \in Int /\ u = qj + r /\ f * J = qj + gj /\ h * Base = gj
      BY <1>2, <1>6, <1>7, <2>1, <3>1, Times
    <3> HIDE DEF qj, gj, f
    <3> QED
      BY <1>6, <3>2
  <2>3. (f * J + r) * P = (f * J) * P + r * P
    <3> HIDE DEF f
    <3>1. f * J \in Int /\ r \in Int /\ P \in Int
      BY <1>2, <1>4, <1>6, <1>7, Times
    <3> QED
      BY <3>1, TimesAdd
  <2>4. (f * J) * P = f * (J * P)
    <3> HIDE DEF f
    <3> QED
      BY <1>2, <1>4, <1>7, TimesTimes
  <2> QED
    BY <2>2, <2>3, <2>4
<1>9. JP \in Nat \ {0} /\ z \in 0 .. JP - 1 /\ r * P \in Nat
  <2>1. JP \in Nat \ {0}
    BY <1>2, <1>4
  <2>2. r * P <= (J - 1) * P /\ (J - 1) * P = J * P - 1 * P
    <3>1. r \in Int /\ r <= J - 1 /\ J - 1 \in Int /\ P \in Nat /\ J \in Int /\ 1 \in Int
      BY <1>2, <1>4, <1>6
    <3> QED
      BY <3>1, TimesOrder, TimesMinus
  <2>3. r * P \in Nat /\ 1 * P = P
    <3>1. r \in Nat
      BY <1>6
    <3> QED
      BY <1>4, <3>1, TimesNat
  <2> DEFINE rp == r * P
  <2>4. rp \in Nat /\ rp <= JP - P /\ z = rp + l
    BY <2>2, <2>3
  <2> HIDE DEF rp, JP, z
  <2>5. z \in 0 .. JP - 1
    BY <1>4, <2>1, <2>4
  <2> QED
    BY <2>1, <2>3, <2>5
<1>10. Absolute(m) = f * JP + z
  <2> DEFINE fj == f * JP
             rp == r * P
  <2>1. fj \in Int /\ rp \in Int /\ Absolute(m) = l + (fj + rp) /\ z = rp + l
    <3>1. fj \in Int
      <4> HIDE DEF f, JP
      <4> QED
        BY <1>7, <1>9, Times
    <3> QED
      BY <1>5, <1>8, <1>9, <3>1
  <2> HIDE DEF fj, rp, z
  <2>2. Absolute(m) = fj + z
    BY <1>4, <2>1
  <2> QED
    BY <2>2 DEF fj
<1>11. Absolute(m) \div TwoTo[t] = f
  <2> HIDE DEF f, JP, z
  <2>0. f \in Int /\ JP \in Nat \ {0} /\ z \in 0 .. JP - 1
    BY <1>7, <1>9
  <2>1. (f * JP + z) \div JP = f
    BY <2>0, DivisionIs
  <2> QED
    BY <1>3, <1>10, <2>1 DEF JP
<1>12. f % D = q % D
  <2> DEFINE a == q \div D
             b == q % D
  <2>1. a \in Int /\ b \in 0 .. D - 1 /\ q = a * D + b
    BY <1>2, <1>6, Division
  <2> HIDE DEF a, b, g
  <2>2. f = (a + g) * D + b
    <3>1. (a + g) * D = a * D + g * D
      BY <1>2, <1>7, <2>1, TimesAdd
    <3> DEFINE ad == a * D
               gd == g * D
    <3>2. ad \in Int /\ gd \in Int /\ q = ad + b /\ f = q + gd /\ (a + g) * D = ad + gd
      BY <1>2, <1>7, <2>1, <3>1, Times
    <3> HIDE DEF ad, gd, f
    <3> QED
      BY <2>1, <3>2
  <2>3. ((a + g) * D + b) % D = b
    <3>1. a + g \in Int
      BY <1>7, <2>1
    <3> QED
      BY <1>2, <2>1, <3>1, DivisionIs
  <2> QED
    BY <2>2, <2>3 DEF b
<1> QED
  BY <1>11, <1>12 DEF q, u, J, D, k, j

LEMMA BitsExact ==
    ASSUME NEW v \in BigInts, NEW n \in Nat
    PROVE  IsBitSet(v, n) <=> (Absolute(v.magnitude) \div TwoTo[n]) % 2 = 1
<1> DEFINE m == v.magnitude
<1>1. m \in Mags
  BY BigIs
<1>2. (n % WordBits) + 1 <= WordBits
  <2>1. n % WordBits \in 0 .. WordBits - 1 /\ WordBits \in Nat
    BY BaseFacts
  <2> QED
    BY <2>1
<1>3. TwoTo[1] = 2
  <2>1. TwoTo[0 + 1] = 2 * TwoTo[0] /\ TwoTo[0] = 1
    BY TwoToFacts
  <2> QED
    BY <2>1
<1> HIDE DEF m
<1>4. (Word(m, n \div WordBits + 1) \div TwoTo[n % WordBits]) % TwoTo[1]
        = (Absolute(m) \div TwoTo[n]) % TwoTo[1]
  <2>1. 1 \in Nat
    OBVIOUS
  <2> QED
    BY <1>1, <1>2, <2>1, BitsOf
<1> QED
  BY <1>3, <1>4 DEF IsBitSet, m

LEMMA NestedDivision ==
    ASSUME NEW a \in Nat, NEW p \in Nat \ {0}, NEW q \in Nat \ {0}
    PROVE  (a \div p) \div q = a \div (p * q) /\ a \div p \in Nat
<1> DEFINE b == a \div p
           r == a % p
           c == b \div q
           s == b % q
           pq == p * q
           z == s * p + r
<1>1. b \in Int /\ r \in 0 .. p - 1 /\ a = b * p + r
  BY Division
<1>2. b >= 0
  OBVIOUS
<1> HIDE DEF b, r
<1>3. c \in Int /\ s \in 0 .. q - 1 /\ b = c * q + s
  BY <1>1, Division
<1> HIDE DEF c, s
<1>4. pq \in Nat \ {0}
  OBVIOUS
<1>5. z \in 0 .. pq - 1
  <2>1. s \in Nat /\ s <= q - 1 /\ q - 1 \in Int
    BY <1>3
  <2>2. s * p <= (q - 1) * p /\ (q - 1) * p = q * p - 1 * p /\ q * p = p * q /\ s * p \in Nat
    BY <2>1, TimesOrder, TimesMinus, Times, TimesNat
  <2> DEFINE sp == s * p
             one == 1 * p
  <2>3. sp \in Nat /\ sp <= pq - one /\ one = p /\ z = sp + r
    BY <2>2
  <2> HIDE DEF sp, pq, z, one
  <2> QED
    BY <1>1, <1>4, <2>3
<1>6. a = c * pq + z
  <2>1. (c * q + s) * p = (c * q) * p + s * p
    <3>1. c * q \in Int /\ s \in Int
      BY <1>3, Times
    <3> QED
      BY <3>1, TimesAdd
  <2>2. (c * q) * p = c * (q * p) /\ q * p = pq
    BY <1>3, TimesTimes, Times
  <2> DEFINE cp == c * pq
             sp == s * p
  <2>3. cp \in Int /\ sp \in Int /\ b * p = cp + sp /\ z = sp + r /\ a = b * p + r
    BY <1>1, <1>3, <1>4, <2>1, <2>2, Times
  <2> HIDE DEF cp, sp, z
  <2>4. a = cp + z
    BY <1>1, <2>3
  <2> QED
    BY <2>4 DEF cp
<1>7. a \div pq = c
  <2> HIDE DEF pq, z
  <2>1. (c * pq + z) \div pq = c
    BY <1>3, <1>4, <1>5, DivisionIs
  <2> QED
    BY <1>6, <2>1
<1> QED
  BY <1>1, <1>2, <1>7 DEF b, c

\* The numbers that digits stand for, up to each of them.
Numbers(digits, radix) ==
    LET number[n \in 0 .. Len(digits)] ==
          IF n = 0 THEN 0 ELSE number[n - 1] * radix + digits[n]
    IN  number

LEMMA NumbersIs ==
    ASSUME NEW s \in Seq(Nat), NEW r \in Nat
    PROVE  LET f == Numbers(s, r)
           IN  /\ f[0] = 0
               /\ \A n \in 1 .. Len(s) : f[n] = f[n - 1] * r + s[n]
               /\ \A n \in 0 .. Len(s) : f[n] \in Nat
               /\ Horner(s, r) = f[Len(s)]
<1> DEFINE N == 0 .. Len(s)
           F == Numbers(s, r)
           t(j, c) == c * r + s[j]
           Is(f) == f = [n \in N |-> IF n = 0 THEN 0 ELSE f[n - 1] * r + s[n]]
           step == [p \in N \X Nat |-> IF p[1] = 0 THEN 0 ELSE t(p[1], p[2])]
<1>0. Len(s) \in Nat /\ \A j \in 1 .. Len(s) : s[j] \in Nat
  OBVIOUS
<1>1. \A j \in N \ {0}, c \in Nat : t(j, c) \in Nat
  <2> SUFFICES ASSUME NEW j \in N \ {0}, NEW c \in Nat PROVE t(j, c) \in Nat
    OBVIOUS
  <2>1. s[j] \in Nat
    BY <1>0
  <2>2. c * r \in Nat
    BY TimesNat
  <2> QED
    BY <2>1, <2>2
<1>2. PICK f \in [N -> Nat] : \A j \in N : f[j] = IF j = 0 THEN 0 ELSE step[<<j, f[j - 1]>>]
  <2>1. step \in [N \X Nat -> Nat]
    <3> HIDE DEF t
    <3> QED
      BY <1>0, <1>1
  <2> HIDE DEF step
  <2>2. Counts(Nat, N, 0, step)
    BY <1>0, <2>1 DEF Counts
  <2> HIDE DEF N
  <2> QED
    BY <2>2, Counting
<1>3. \A j \in N : f[j] = IF j = 0 THEN 0 ELSE t(j, f[j - 1])
  <2> HIDE DEF t
  <2> SUFFICES ASSUME NEW j \in N, j # 0
               PROVE  f[j] = t(j, f[j - 1])
    BY <1>2
  <2>1. j - 1 \in N /\ f[j - 1] \in Nat
    BY <1>0
  <2>2. <<j, f[j - 1]>> \in N \X Nat /\ f[j] = step[<<j, f[j - 1]>>]
    BY <1>2, <2>1
  <2> QED
    BY <2>2
<1>4. Is(f)
  <2>1. f = [j \in N |-> f[j]]
    OBVIOUS
  <2> QED
    BY <1>3, <2>1
<1>5. F = CHOOSE g : Is(g)
  BY DEF Numbers
<1>6. Is(F)
  <2> HIDE DEF Is, F
  <2> QED
    BY <1>4, <1>5
<1>7. Horner(s, r) = F[Len(s)]
  BY DEF Horner, Numbers
<1> HIDE DEF F
<1>8. /\ F[0] = 0
      /\ \A j \in N \ {0} : F[j] = t(j, F[j - 1])
  <2>1. 0 \in N
    BY <1>0
  <2> HIDE DEF N
  <2> QED
    BY <1>6, <2>1
<1> HIDE DEF t
<1> DEFINE S == {n \in Nat : n \in N => F[n] \in Nat}
<1>9. \A n \in Nat : n \in S
  <2>1. 0 \in S
    BY <1>0, <1>8
  <2>2. ASSUME NEW n \in Nat, n \in S PROVE n + 1 \in S
    <3> SUFFICES ASSUME n + 1 \in N PROVE F[n + 1] \in Nat
      OBVIOUS
    <3>1. n \in N /\ n + 1 \in N \ {0} /\ (n + 1) - 1 = n
      BY <1>0
    <3>2. F[n] \in Nat
      BY <2>2, <3>1
    <3>3. F[n + 1] = t(n + 1, F[n])
      <4> HIDE DEF N
      <4> QED
        BY <1>8, <3>1
    <3> HIDE DEF N
    <3> QED
      BY <1>1, <3>1, <3>2, <3>3
  <2> HIDE DEF S
  <2> QED
    BY <2>1, <2>2, AllNumbers
<1>10. \A j \in N : F[j] \in Nat
  BY <1>0, <1>9
<1>11. 1 .. Len(s) = N \ {0}
  BY <1>0
<1> HIDE DEF N
<1>12. \A j \in 1 .. Len(s) : F[j] = t(j, F[j - 1])
  BY <1>8, <1>11
<1> QED
  BY <1>7, <1>8, <1>10, <1>12 DEF N, F, t

\* Whatever starts at 0 and takes one digit after another gets there.
LEMMA HornerIs ==
    ASSUME NEW s \in Seq(Nat), NEW r \in Nat, NEW A,
           A[0] = 0, \A n \in 1 .. Len(s) : A[n] = A[n - 1] * r + s[n]
    PROVE  Horner(s, r) = A[Len(s)]
<1> DEFINE F == Numbers(s, r)
           N == {n \in Nat : n <= Len(s) => F[n] = A[n]}
<1>1. /\ F[0] = 0 /\ Len(s) \in Nat
      /\ \A n \in 1 .. Len(s) : F[n] = F[n - 1] * r + s[n]
      /\ Horner(s, r) = F[Len(s)]
  BY NumbersIs
<1> HIDE DEF F
<1>2. 0 \in N
  BY <1>1
<1>3. ASSUME NEW n \in Nat, n \in N PROVE n + 1 \in N
  <2> SUFFICES ASSUME n + 1 <= Len(s) PROVE F[n + 1] = A[n + 1]
    OBVIOUS
  <2>1. n <= Len(s) /\ n + 1 \in 1 .. Len(s) /\ (n + 1) - 1 = n
    BY <1>1
  <2>2. F[n + 1] = F[n] * r + s[n + 1] /\ A[n + 1] = A[n] * r + s[n + 1] /\ F[n] = A[n]
    BY <1>1, <1>3, <2>1
  <2> QED
    BY <2>2, Zenon
<1>4. \A n \in Nat : n \in N
  <2> HIDE DEF N
  <2> QED
    BY <1>2, <1>3, AllNumbers
<1> QED
  BY <1>1, <1>4

LEMMA HornerAppend ==
    ASSUME NEW s \in Seq(Nat), NEW r \in Nat, NEW d \in Nat
    PROVE  Horner(Append(s, d), r) = Horner(s, r) * r + d
<1> DEFINE n == Len(s)
           t == Append(s, d)
           F == Numbers(s, r)
           A == [j \in 0 .. n + 1 |-> IF j <= n THEN F[j] ELSE F[n] * r + d]
<1>1. /\ F[0] = 0 /\ n \in Nat
      /\ \A j \in 1 .. n : F[j] = F[j - 1] * r + s[j]
      /\ Horner(s, r) = F[n]
  BY NumbersIs
<1>2. t \in Seq(Nat) /\ Len(t) = n + 1 /\ \A j \in 1 .. n + 1 : t[j] = IF j <= n THEN s[j] ELSE d
  OBVIOUS
<1> HIDE DEF t, F, n
<1>3. A[0] = 0
  BY <1>1
<1>4. ASSUME NEW j \in 1 .. n + 1 PROVE A[j] = A[j - 1] * r + t[j]
  <2>1. CASE j <= n
    <3>1. j \in 1 .. n /\ j - 1 \in 0 .. n + 1 /\ j \in 0 .. n + 1 /\ j - 1 <= n
      BY <1>1, <2>1
    <3> QED
      BY <1>1, <1>2, <2>1, <3>1
  <2>2. CASE ~ (j <= n)
    <3>1. j = n + 1 /\ j - 1 = n /\ n \in 0 .. n + 1 /\ j \in 0 .. n + 1
      BY <1>1, <2>2
    <3>2. A[j] = F[n] * r + d /\ A[n] = F[n] /\ t[j] = d
      BY <1>1, <1>2, <2>2, <3>1
    <3> QED
      BY <3>1, <3>2
  <2> QED
    BY <2>1, <2>2
<1>5. Horner(t, r) = A[n + 1]
  <2> HIDE DEF A
  <2>1. t \in Seq(Nat)
    BY <1>2
  <2>2. Len(t) = n + 1
    BY <1>2
  <2>3. \A j \in 1 .. Len(t) : A[j] = A[j - 1] * r + t[j]
    BY <1>4, <2>2
  <2>4. Horner(t, r) = A[Len(t)]
    BY <1>3, <2>1, <2>3, HornerIs
  <2> QED
    BY <2>2, <2>4
<1>6. A[n + 1] = F[n] * r + d
  <2>1. n + 1 \in 0 .. n + 1 /\ ~ (n + 1 <= n)
    BY <1>1
  <2> QED
    BY <2>1
<1> QED
  BY <1>1, <1>5, <1>6 DEF t

LEMMA HornerNone ==
    ASSUME NEW r \in Nat
    PROVE  Horner(<<>>, r) = 0 /\ Horner(<<0>>, r) = 0
<1>1. Horner(<<>>, r) = 0
  <2>1. <<>> \in Seq(Nat) /\ Len(<<>>) = 0
    OBVIOUS
  <2> QED
    BY <2>1, NumbersIs
<1>2. Horner(<<0>>, r) = 0
  <2> DEFINE e == <<>>
  <2>1. <<0>> = Append(e, 0) /\ e \in Seq(Nat) /\ 0 \in Nat
    OBVIOUS
  <2>2. Horner(e, r) = 0
    BY <1>1
  <2> HIDE DEF e
  <2>3. Horner(Append(e, 0), r) = Horner(e, r) * r + 0
    BY <2>1, HornerAppend
  <2>4. 0 * r + 0 = 0
    OBVIOUS
  <2>5. Horner(Append(e, 0), r) = 0
    BY <2>2, <2>3, <2>4, Zenon
  <2> QED
    BY <2>1, <2>5, Zenon
<1> QED
  BY <1>1, <1>2, Zenon

LEMMA AsDigits ==
    ASSUME NEW n \in Nat, NEW f \in [1 .. n -> Nat]
    PROVE  f \in Seq(Nat) /\ Len(f) = n
<1>1. f \in Seq(Nat)
  BY SeqDef
<1>2. Len(f) = n
  <2>1. DOMAIN f = 1 .. n /\ DOMAIN f = 1 .. Len(f) /\ Len(f) \in Nat
    BY <1>1, LenProperties
  <2> QED
    BY <2>1
<1> QED
  BY <1>1, <1>2

\* The digits of to_hex(), the highest first, leading zeros included; and
\* what the first n of them should be worth.
PerWord == WordBits \div DigitBits
HexSize(m) == Len(m) * PerWord
HexDigit(m, n) ==
    (m[Len(m) - n \div PerWord] \div TwoTo[WordBits - DigitBits - ((n * DigitBits) % WordBits)])
        % TwoTo[DigitBits]
Above(m, n) == Absolute(m) \div TwoTo[DigitBits * (HexSize(m) - n)]

LEMMA PerWordIs ==
    /\ PerWord \in Nat \ {0} /\ DigitBits \in Nat \ {0} /\ WordBits = PerWord * DigitBits
<1>1. DigitBits \in Nat \ {0} /\ WordBits \in Nat \ {0} /\ WordBits % DigitBits = 0
  BY SizesAssumption
<1>2. PerWord \in Int /\ WordBits = PerWord * DigitBits + 0
  BY <1>1, Division DEF PerWord
<1> DEFINE p == PerWord * DigitBits
<1>3. p \in Int /\ WordBits = p
  BY <1>1, <1>2, Times
<1>4. PerWord > 0
  <2> SUFFICES ASSUME PerWord <= 0 PROVE FALSE
    BY <1>2
  <2>1. PerWord * DigitBits <= 0 * DigitBits /\ 0 * DigitBits = 0
    BY <1>1, <1>2, TimesOrder
  <2> QED
    BY <1>1, <1>3, <2>1
<1> QED
  BY <1>1, <1>2, <1>3, <1>4

\* Where in its word the digit is.
LEMMA HexPlace ==
    ASSUME NEW l \in Nat, NEW n \in 0 .. l * PerWord - 1
    PROVE  LET i == n \div PerWord
               k == WordBits - DigitBits - ((n * DigitBits) % WordBits)
               t == DigitBits * (l * PerWord - (n + 1))
           IN  /\ i \in 0 .. l - 1 /\ k \in Nat /\ t \in Nat
               /\ t \div WordBits = l - i - 1 /\ t % WordBits = k /\ k + DigitBits <= WordBits
<1> DEFINE W == WordBits
           D == DigitBits
           C == PerWord
           i == n \div C
           j == n % C
           jd == j * D
           iw == i * W
           k == W - D - jd
           t == D * (l * C - (n + 1))
<1>1. C \in Nat \ {0} /\ D \in Nat \ {0} /\ W \in Nat \ {0} /\ W = C * D
  BY PerWordIs, BaseFacts
<1>0. l * C \in Nat /\ n \in Nat /\ n < l * C
  <2>1. l * C \in Nat
    BY <1>1, TimesNat
  <2> DEFINE lc == l * C
  <2>2. lc \in Nat /\ n \in 0 .. lc - 1
    BY <2>1
  <2> HIDE DEF lc
  <2>3. n \in Nat /\ n < lc
    BY <2>2
  <2> QED
    BY <2>1, <2>3 DEF lc
<1> HIDE DEF C, D, W
<1>2. i \in Int /\ j \in 0 .. C - 1 /\ n = i * C + j
  BY <1>0, <1>1, Division
<1>3. i >= 0
  BY <1>0, <1>1
<1> HIDE DEF i, j
<1>4. jd \in Nat /\ jd <= W - D
  <2>1. j \in Nat /\ j <= C - 1 /\ C - 1 \in Int
    BY <1>1, <1>2
  <2>2. j * D <= (C - 1) * D /\ (C - 1) * D = C * D - 1 * D
    BY <1>1, <2>1, TimesOrder, TimesMinus
  <2>3. j * D \in Nat /\ 1 * D = D
    BY <1>1, <2>1, TimesNat
  <2> DEFINE c == C * D
             d == (C - 1) * D
  <2>4. c = W /\ d = c - D /\ jd <= d
    BY <1>1, <2>2, <2>3
  <2>5. jd \in Nat
    BY <2>3
  <2> HIDE DEF c, d, jd
  <2> QED
    BY <1>1, <2>4, <2>5
<1>5. n * D = iw + jd
  <2>1. (i * C + j) * D = (i * C) * D + j * D
    <3>1. i * C \in Int /\ j \in Int
      BY <1>1, <1>2, Times
    <3> QED
      BY <1>1, <3>1, TimesAdd
  <2>2. (i * C) * D = i * (C * D)
    BY <1>1, <1>2, TimesTimes
  <2> QED
    BY <1>1, <1>2, <2>1, <2>2
<1>6. (n * D) % W = jd
  <2>1. jd \in 0 .. W - 1
    <3> HIDE DEF jd
    <3> QED
      BY <1>1, <1>4
  <2> HIDE DEF jd
  <2>2. (i * W + jd) % W = jd
    BY <1>1, <1>2, <2>1, DivisionIs
  <2> QED
    BY <1>5, <2>2
<1>7. i <= l - 1
  <2> SUFFICES ASSUME i > l - 1 PROVE FALSE
    BY <1>2
  <2>0. l <= i
    BY <1>2
  <2>1. l * C <= i * C
    BY <1>1, <1>2, <2>0, TimesOrder
  <2> DEFINE lc == l * C
             ic == i * C
  <2>2. lc \in Nat /\ ic \in Int /\ lc <= ic /\ n = ic + j /\ n < lc
    BY <1>0, <1>1, <1>2, <2>1, Times
  <2> HIDE DEF lc, ic
  <2> QED
    BY <1>1, <1>2, <2>2
<1>8. t = (l - i - 1) * W + k /\ t \in Nat
  <2> DEFINE lc == l * C
             ic == i * C
             ld == l * W
             w1 == 1 * W
             nd == n * D
             d1 == 1 * D
  <2>1. D * (lc - (n + 1)) = (lc - (n + 1)) * D /\ (lc - (n + 1)) * D = lc * D - (n + 1) * D
        /\ (n + 1) * D = nd + d1 /\ d1 = D /\ nd = iw + jd
    <3>1. lc \in Int /\ n + 1 \in Int /\ n \in Int /\ D \in Int /\ lc - (n + 1) \in Int /\ 1 \in Int
      BY <1>0, <1>1
    <3> HIDE DEF lc
    <3>2. (lc - (n + 1)) * D = lc * D - (n + 1) * D
      BY <3>1, TimesMinus
    <3>3. (n + 1) * D = n * D + 1 * D
      BY <3>1, TimesAdd
    <3>4. D * (lc - (n + 1)) = (lc - (n + 1)) * D
      BY <3>1, Times
    <3> QED
      BY <1>1, <1>5, <3>2, <3>3, <3>4
  <2>2. lc * D = ld
    BY <1>1, TimesTimes
  <2>3. (l - i - 1) * W = (l - i) * W - w1 /\ (l - i) * W = ld - iw /\ w1 = W
    <3>1. l - i \in Int /\ l \in Int /\ 1 \in Int /\ W \in Int /\ (l - i) - 1 = l - i - 1
      BY <1>1, <1>2
    <3> QED
      BY <1>1, <1>2, <3>1, TimesMinus
  <2>4. ld \in Nat /\ iw \in Int /\ nd \in Int
    <3>1. l \in Nat /\ W \in Nat /\ i \in Int /\ n \in Int /\ D \in Int
      BY <1>0, <1>1, <1>2
    <3> QED
      BY <3>1, TimesNat, Times
  <2> DEFINE a == (n + 1) * D
             b == (l - i) * W
             c == (l - i - 1) * W
  <2>5. t = ld - a /\ a = nd + d1 /\ d1 = D /\ nd = iw + jd /\ c = b - w1 /\ b = ld - iw /\ w1 = W
    BY <2>1, <2>2, <2>3
  <2>6. c \in Nat
    <3>1. l - i - 1 \in Nat
      BY <1>2, <1>7
    <3> QED
      BY <1>1, <3>1, TimesNat
  <2> HIDE DEF lc, ic, ld, w1, nd, d1, a, b, c, t, jd, iw
  <2>7. t = c + k /\ t \in Nat
    BY <1>1, <1>4, <2>4, <2>5, <2>6
  <2> QED
    BY <2>7 DEF c
<1>9. k \in 0 .. W - 1 /\ k + D <= W
  <2> HIDE DEF jd
  <2> QED
    BY <1>1, <1>4
<1>10. t \div W = l - i - 1 /\ t % W = k
  <2> HIDE DEF k, t
  <2>1. l - i - 1 \in Int
    BY <1>2
  <2> DEFINE h == l - i - 1
  <2>2. h \in Int /\ t = h * W + k
    BY <1>8, <2>1
  <2> HIDE DEF h
  <2>3. (h * W + k) \div W = h /\ (h * W + k) % W = k
    BY <1>1, <1>9, <2>2, DivisionIs
  <2>4. t \div W = h /\ t % W = k
    BY <2>2, <2>3
  <2> QED
    BY <2>4 DEF h
<1>11. i \in 0 .. l - 1
  BY <1>2, <1>3, <1>7
<1>12. k \in Nat
  <2> HIDE DEF k
  <2> QED
    BY <1>1, <1>9
<1>13. k = W - D - ((n * D) % W)
  BY <1>6
<1> HIDE DEF k, t
<1>14. LET kk == W - D - ((n * D) % W)
       IN  /\ i \in 0 .. l - 1 /\ kk \in Nat /\ t \in Nat
           /\ t \div W = l - i - 1 /\ t % W = kk /\ kk + D <= W
  BY <1>8, <1>9, <1>10, <1>11, <1>12, <1>13
<1> QED
  BY <1>14 DEF t, i, C, D, W

LEMMA HexDigitIs ==
    ASSUME NEW m \in Mags, NEW n \in 0 .. HexSize(m) - 1
    PROVE  /\ HexDigit(m, n) \in Nat
           /\ HexDigit(m, n)
                = (Absolute(m) \div TwoTo[DigitBits * (HexSize(m) - (n + 1))]) % TwoTo[DigitBits]
<1> DEFINE l == Len(m)
           i == n \div PerWord
           k == WordBits - DigitBits - ((n * DigitBits) % WordBits)
           t == DigitBits * (l * PerWord - (n + 1))
           Two == TwoTo[DigitBits]
<1>1. l \in Nat /\ n \in 0 .. l * PerWord - 1
  BY MagIs DEF HexSize
<1>2. /\ i \in 0 .. l - 1 /\ k \in Nat /\ t \in Nat
      /\ t \div WordBits = l - i - 1 /\ t % WordBits = k /\ k + DigitBits <= WordBits
  <2> HIDE DEF l
  <2> QED
    BY <1>1, HexPlace
<1> HIDE DEF t, k, i
<1>3. (Word(m, t \div WordBits + 1) \div TwoTo[t % WordBits]) % TwoTo[DigitBits]
        = (Absolute(m) \div TwoTo[t]) % TwoTo[DigitBits]
  <2>1. DigitBits \in Nat
    BY PerWordIs
  <2>2. (t % WordBits) + DigitBits <= WordBits
    BY <1>2
  <2> QED
    BY <1>2, <2>1, <2>2, BitsOf
<1>4. Word(m, t \div WordBits + 1) = m[l - i]
  <2>1. t \div WordBits + 1 = l - i /\ l - i \in 1 .. l
    BY <1>1, <1>2
  <2> QED
    BY <2>1, MagIs
<1>5. HexDigit(m, n) = (Absolute(m) \div TwoTo[t]) % TwoTo[DigitBits]
  <2>1. HexDigit(m, n) = (m[l - i] \div TwoTo[k]) % TwoTo[DigitBits]
    BY DEF HexDigit, i, k
  <2> QED
    BY <1>2, <1>3, <1>4, <2>1
<1>6. (Absolute(m) \div TwoTo[t]) % Two \in Nat
  <2>1. Absolute(m) \in Nat
    BY AbsoluteFacts
  <2>2. TwoTo[t] \in Nat \ {0}
    BY <1>2, TwoToFacts
  <2>3. Two \in Nat \ {0}
    BY PerWordIs, TwoToFacts
  <2> DEFINE q == Absolute(m) \div TwoTo[t]
  <2>4. q \in Int
    <3>1. q \in Nat
      BY <2>1, <2>2, NestedDivision
    <3> QED
      BY <3>1
  <2> HIDE DEF q, Two
  <2>5. q % Two \in 0 .. Two - 1
    BY <2>3, <2>4, Division
  <2>6. q % Two \in Nat
    BY <2>3, <2>5
  <2> QED
    BY <2>6 DEF q
<1> QED
  BY <1>5, <1>6 DEF HexSize, t

LEMMA AboveIs ==
    ASSUME NEW m \in Mags
    PROVE  /\ HexSize(m) \in Nat
           /\ \A n \in 0 .. HexSize(m) : Above(m, n) \in Nat
           /\ Above(m, 0) = 0 /\ Above(m, HexSize(m)) = Absolute(m)
           /\ \A n \in 0 .. HexSize(m) - 1 :
                 Above(m, n + 1) = Above(m, n) * TwoTo[DigitBits] + HexDigit(m, n)
<1> DEFINE size == HexSize(m)
           A == Absolute(m)
           D == DigitBits
           l == Len(m)
<1>1. size \in Nat /\ l \in Nat
  <2>1. l \in Nat
    BY MagIs
  <2> HIDE DEF l
  <2>2. l * PerWord \in Nat
    BY <2>1, PerWordIs, TimesNat
  <2> QED
    BY <2>1, <2>2 DEF HexSize, l
<1>2. A \in Nat /\ A < Place(l)
  BY AbsoluteFacts
<1>3. D \in Nat \ {0}
  BY PerWordIs
<1>4. \A e \in Nat : D * e \in Nat /\ TwoTo[D * e] \in Nat \ {0}
  <2> SUFFICES ASSUME NEW e \in Nat PROVE D * e \in Nat /\ TwoTo[D * e] \in Nat \ {0}
    OBVIOUS
  <2>1. D * e \in Nat
    BY <1>3, TimesNat
  <2> QED
    BY <2>1, TwoToFacts
<1>5. D * size = WordBits * l
  <2>1. WordBits = PerWord * D /\ PerWord \in Int /\ D \in Int /\ l \in Int
    BY <1>1, PerWordIs
  <2>2. (PerWord * D) * l = PerWord * (D * l) /\ D * l = l * D
        /\ (l * PerWord) * D = l * (PerWord * D) /\ D * (l * PerWord) = (l * PerWord) * D
        /\ l * (PerWord * D) = (PerWord * D) * l
    <3>1. l * PerWord \in Int /\ PerWord * D \in Int
      BY <2>1, Times
    <3> QED
      BY <2>1, <3>1, Times, TimesTimes
  <2> QED
    BY <2>1, <2>2 DEF HexSize
<1>6. \A n \in 0 .. size : Above(m, n) \in Nat
  <2> SUFFICES ASSUME NEW n \in 0 .. size PROVE Above(m, n) \in Nat
    OBVIOUS
  <2>1. size - n \in Nat
    BY <1>1
  <2>2. TwoTo[D * (size - n)] \in Nat \ {0}
    BY <1>4, <2>1
  <2> DEFINE q == TwoTo[D * (size - n)]
  <2> HIDE DEF q, A
  <2>3. A \div q \in Nat
    BY <1>2, <2>2, NestedDivision DEF q
  <2> QED
    BY <2>3 DEF Above, q, A
<1>7. Above(m, 0) = 0
  <2> DEFINE P == Place(l)
  <2>1. Above(m, 0) = A \div P
    <3>1. size - 0 = size
      BY <1>1
    <3> QED
      BY <1>5, <3>1 DEF Above, Place
  <2>2. P \in Nat \ {0}
    BY <1>1, PlaceFacts
  <2> HIDE DEF P, A
  <2>3. (0 * P + A) \div P = 0
    <3>1. A \in 0 .. P - 1 /\ 0 \in Int
      BY <1>2, <2>2 DEF P
    <3> QED
      BY <2>2, <3>1, DivisionIs
  <2>4. 0 * P + A = A
    BY <1>2, <2>2
  <2> QED
    BY <2>1, <2>3, <2>4
<1>8. Above(m, size) = A
  <2>1. size - size = 0 /\ D * 0 = 0
    BY <1>1, <1>3
  <2>2. TwoTo[0] = 1
    BY TwoToFacts
  <2>3. A \div 1 = A
    <3> HIDE DEF A
    <3> QED
      BY <1>2
  <2> QED
    BY <2>1, <2>2, <2>3 DEF Above
<1>9. ASSUME NEW n \in 0 .. size - 1
      PROVE  Above(m, n + 1) = Above(m, n) * TwoTo[D] + HexDigit(m, n)
  <2> DEFINE e == size - (n + 1)
             E == TwoTo[D * e]
             T == TwoTo[D]
             q == A \div E
  <2>1. e \in Nat /\ size - n = e + 1
    BY <1>1
  <2>2. E \in Nat \ {0} /\ T \in Nat \ {0}
    BY <1>3, <1>4, <2>1, TwoToFacts
  <2>3. HexDigit(m, n) = q % T
    BY HexDigitIs
  <2>4. Above(m, n + 1) = q
    BY DEF Above
  <2>5. Above(m, n) = A \div (E * T)
    <3> HIDE DEF e
    <3>1. D * (e + 1) = D * e + D
      <4>1. (e + 1) * D = e * D + 1 * D /\ D * (e + 1) = (e + 1) * D /\ D * e = e * D /\ 1 * D = D
        <5>1. D \in Int /\ e \in Int /\ 1 \in Int /\ e + 1 \in Int
          BY <1>3, <2>1
        <5>2. 1 * D = D
          BY <1>3
        <5> HIDE DEF D
        <5> QED
          BY <5>1, <5>2, Times, TimesAdd
      <4> QED
        BY <4>1
    <3>2. TwoTo[D * e + D] = E * T
      BY <1>3, <1>4, <2>1, TwoToSum
    <3>3. Above(m, n) = A \div TwoTo[D * (e + 1)]
      BY <2>1 DEF Above
    <3> QED
      BY <3>1, <3>2, <3>3
  <2> HIDE DEF E, T, A
  <2>6. A \div (E * T) = q \div T /\ q \in Nat
    BY <1>2, <2>2, NestedDivision
  <2> HIDE DEF q
  <2>7. q = (q \div T) * T + (q % T)
    BY <2>2, <2>6, Division
  <2>8. Above(m, n + 1) = Above(m, n) * T + HexDigit(m, n)
    BY <2>3, <2>4, <2>5, <2>6, <2>7
  <2> QED
    BY <2>8 DEF T
<1> QED
  BY <1>1, <1>6, <1>7, <1>8, <1>9

\* Digits that are zero add nothing.
LEMMA NothingAbove ==
    ASSUME NEW m \in Mags, NEW k \in 0 .. HexSize(m), \A j \in 0 .. k - 1 : HexDigit(m, j) = 0
    PROVE  Above(m, k) = 0
<1> DEFINE N == {n \in Nat : n <= k => Above(m, n) = 0}
           T == TwoTo[DigitBits]
<1>1. HexSize(m) \in Nat /\ Above(m, 0) = 0
      /\ \A n \in 0 .. HexSize(m) - 1 : Above(m, n + 1) = Above(m, n) * T + HexDigit(m, n)
  BY AboveIs
<1>2. 0 \in N
  BY <1>1
<1>3. ASSUME NEW n \in Nat, n \in N PROVE n + 1 \in N
  <2> SUFFICES ASSUME n + 1 <= k PROVE Above(m, n + 1) = 0
    OBVIOUS
  <2>1. n <= k /\ n \in 0 .. k - 1 /\ n \in 0 .. HexSize(m) - 1
    BY <1>1
  <2>2. T \in Nat
    BY PerWordIs, TwoToFacts
  <2>3. Above(m, n) = 0 /\ HexDigit(m, n) = 0
    BY <1>3, <2>1
  <2>4. Above(m, n + 1) = Above(m, n) * T + HexDigit(m, n)
    BY <1>1, <2>1
  <2> HIDE DEF T
  <2>5. 0 * T + 0 = 0
    BY <2>2
  <2> QED
    BY <2>3, <2>4, <2>5
<1>4. k \in N
  <2>1. k \in Nat
    BY <1>1
  <2> HIDE DEF N
  <2> QED
    BY <1>2, <1>3, <2>1, AllNumbers
<1> QED
  BY <1>1, <1>4

LEMMA HexExact ==
    ASSUME NEW v \in BigInts
    PROVE  Horner(ToHex(v), TwoTo[DigitBits]) = Absolute(v.magnitude)
<1> DEFINE m == v.magnitude
           size == HexSize(m)
           T == TwoTo[DigitBits]
           S == {n \in 0 .. size - 1 : HexDigit(m, n) # 0}
           first == Min(S)
           digits == [d \in 1 .. size - first |-> HexDigit(m, first + d - 1)]
<1>1. m \in Mags /\ T \in Nat
  <2>1. m \in Mags
    BY BigIs
  <2>2. T \in Nat
    BY PerWordIs, TwoToFacts
  <2> QED
    BY <2>1, <2>2
<1>2. CASE IsZero(v)
  <2>1. ToHex(v) = <<0>>
    BY <1>2 DEF ToHex
  <2>2. Absolute(m) = 0
    BY <1>2, BigIs
  <2>3. Horner(<<0>>, T) = 0
    <3> HIDE DEF T
    <3> QED
      BY <1>1, HornerNone
  <2> QED
    BY <2>1, <2>2, <2>3
<1>3. CASE ~ IsZero(v)
  <2>1. Absolute(m) # 0
    BY <1>3, BigIs
  <2>2. ToHex(v) = digits
    BY <1>3 DEF ToHex, HexSize, HexDigit, PerWord
  <2> HIDE DEF m, T
  <2>3. /\ size \in Nat /\ Above(m, size) = Absolute(m)
        /\ \A n \in 0 .. size : Above(m, n) \in Nat
        /\ \A n \in 0 .. size - 1 : Above(m, n + 1) = Above(m, n) * T + HexDigit(m, n)
    BY <1>1, AboveIs DEF T
  <2> HIDE DEF size
  <2>4. S # {}
    <3> SUFFICES ASSUME S = {} PROVE FALSE
      OBVIOUS
    <3>1. \A j \in 0 .. size - 1 : HexDigit(m, j) = 0
      OBVIOUS
    <3>2. size \in 0 .. HexSize(m)
      BY <2>3 DEF size
    <3>3. Above(m, size) = 0
      BY <1>1, <3>1, <3>2, NothingAbove
    <3> QED
      BY <2>1, <2>3, <3>3
  <2>5. S \subseteq 0 .. size
    BY <2>3
  <2>6. first \in S /\ \A j \in S : first <= j
    <3> HIDE DEF S
    <3> QED
      BY <2>3, <2>4, <2>5, MinIn
  <2> HIDE DEF first
  <2>7. Above(m, first) = 0
    <3>1. \A j \in 0 .. first - 1 : HexDigit(m, j) = 0
      BY <2>3, <2>6
    <3>2. first \in 0 .. HexSize(m)
      BY <2>3, <2>6 DEF size
    <3> QED
      BY <1>1, <3>1, <3>2, NothingAbove
  <2> DEFINE n == size - first
             U == [d \in 0 .. n |-> Above(m, first + d)]
  <2>8. n \in Nat /\ first \in Nat
    BY <2>3, <2>6
  <2>9. \A d \in 1 .. n : HexDigit(m, first + d - 1) \in Nat
    <3> SUFFICES ASSUME NEW d \in 1 .. n PROVE HexDigit(m, first + d - 1) \in Nat
      OBVIOUS
    <3>1. first + d - 1 \in 0 .. HexSize(m) - 1
      BY <2>3, <2>6 DEF size
    <3> QED
      BY <1>1, <3>1, HexDigitIs
  <2>10. digits \in Seq(Nat) /\ Len(digits) = n
         /\ \A d \in 1 .. n : digits[d] = HexDigit(m, first + d - 1)
    <3>1. digits \in [1 .. n -> Nat]
      BY <2>9
    <3>2. \A d \in 1 .. n : digits[d] = HexDigit(m, first + d - 1)
      OBVIOUS
    <3> HIDE DEF digits, n
    <3> QED
      BY <2>8, <3>1, <3>2, AsDigits
  <2> HIDE DEF digits
  <2>11. U[0] = 0
    BY <2>7, <2>8
  <2>12. \A d \in 1 .. Len(digits) : U[d] = U[d - 1] * T + digits[d]
    <3> SUFFICES ASSUME NEW d \in 1 .. n PROVE U[d] = U[d - 1] * T + digits[d]
      BY <2>10
    <3> DEFINE j == first + d - 1
    <3>1. j \in 0 .. size - 1 /\ j + 1 = first + d /\ first + (d - 1) = j
          /\ d \in 0 .. n /\ d - 1 \in 0 .. n
      BY <2>3, <2>6, <2>8
    <3>2. U[d] = Above(m, j + 1) /\ U[d - 1] = Above(m, j) /\ digits[d] = HexDigit(m, j)
      BY <2>10, <3>1
    <3> HIDE DEF j, U
    <3> QED
      BY <2>3, <3>1, <3>2
  <2>13. Horner(digits, T) = U[n]
    <3> HIDE DEF U
    <3>1. digits \in Seq(Nat)
      BY <2>10
    <3>2. Horner(digits, T) = U[Len(digits)]
      BY <1>1, <2>11, <2>12, <3>1, HornerIs
    <3> QED
      BY <2>10, <3>2
  <2>14. U[n] = Absolute(m)
    <3>1. n \in 0 .. n /\ first + n = size
      BY <2>3, <2>8
    <3> QED
      BY <2>3, <3>1
  <2> QED
    BY <2>2, <2>13, <2>14 DEF m, T
<1> QED
  BY <1>2, <1>3

\* What a step of to_dec() divides and what it takes for the digit.
Ten == Big(Radix)
Tenth(v) == Quotient(v, Ten)
Digit(v) == Head(Difference(v, Product(Tenth(v), Ten)).magnitude)

LEMMA TenIs ==
    /\ Radix \in Nat \ {0} /\ Radix >= 2 /\ Radix < Base
    /\ Ten \in Unsigned /\ Absolute(Ten.magnitude) = Radix /\ ~ IsZero(Ten)
<1>1. Radix \in 2 .. Base - 1 /\ Base \in Nat
  BY SizesAssumption, BaseFacts
<1>2. Radix \in Words
  BY <1>1 DEF Words
<1>3. Ten \in Unsigned /\ Absolute(Ten.magnitude) = Radix
  BY <1>2, SmallIs DEF Ten
<1>4. ~ IsZero(Ten)
  <2>1. Ten \in BigInts
    BY <1>3, UnsignedIs
  <2> QED
    BY <1>1, <1>3, <2>1, BigIs
<1> QED
  BY <1>1, <1>3, <1>4

LEMMA TenthIs ==
    ASSUME NEW v \in Unsigned
    PROVE  /\ Tenth(v) \in Unsigned
           /\ Absolute(Tenth(v).magnitude) = Absolute(v.magnitude) \div Radix
           /\ Absolute(v.magnitude) < Radix => Tenth(v) = Big(0)
<1> DEFINE q == Tenth(v)
<1>1. v \in BigInts /\ v.sign = FALSE /\ Ten \in BigInts /\ Ten.sign = FALSE
  BY TenIs, UnsignedIs
<1>2. /\ q \in BigInts
      /\ Absolute(q.magnitude) = Absolute(v.magnitude) \div Radix
      /\ Absolute(v.magnitude) < Radix => q = Big(0)
  BY <1>1, TenIs, QuotientIs DEF Tenth
<1>3. q.sign = FALSE
  <2>1. CASE CompareMagnitudes(v.magnitude, Ten.magnitude) < 0
    <3>1. q = Big(0)
      BY <2>1 DEF Quotient, Tenth
    <3> QED
      BY <3>1 DEF Big
  <2>2. CASE ~ (CompareMagnitudes(v.magnitude, Ten.magnitude) < 0)
    <3> DEFINE top == [v EXCEPT !.sign = FALSE]
               bottom == [Ten EXCEPT !.sign = FALSE]
               r == Search(top, bottom)[<<Big(0), top>>]
    <3>1. q = [r EXCEPT !.sign = v.sign # Ten.sign]
      BY <2>2 DEF Quotient, Tenth
    <3> HIDE DEF r
    <3>2. "sign" \in DOMAIN q
      <4>1. DOMAIN q = {"magnitude", "sign"}
        BY <1>2 DEF BigInts
      <4> QED
        BY <4>1
    <3>3. DOMAIN q = DOMAIN r
      BY <3>1
    <3> QED
      BY <1>1, <3>1, <3>2, <3>3
  <2> QED
    BY <2>1, <2>2
<1> QED
  BY <1>2, <1>3, UnsignedIs

\* The lowest word of a value.
LEMMA Lowest ==
    ASSUME NEW m \in Mags, Absolute(m) > 0
    PROVE  /\ Len(m) > 0 /\ Head(m) = Word(m, 1) /\ m[1] = Word(m, 1)
           /\ Word(m, 1) \in Nat /\ Word(m, 1) < Base
           /\ \E h \in Nat : Absolute(m) = Word(m, 1) + h * Base
<1>1. Len(m) \in Nat /\ Absolute(m) \in Nat
  BY MagIs, AbsoluteFacts
<1>2. Len(m) > 0
  <2> SUFFICES ASSUME Len(m) = 0 PROVE FALSE
    BY <1>1
  <2>1. Absolute(m) < Place(0)
    BY AbsoluteFacts
  <2>2. Place(0) = 1
    BY PlaceFacts
  <2> QED
    BY <1>1, <2>1, <2>2
<1>3. Head(m) = m[1] /\ m[1] = Word(m, 1)
  <2>1. 1 \in 1 .. Len(m)
    BY <1>1, <1>2
  <2>2. Word(m, 1) = m[1]
    BY <2>1, MagIs
  <2>3. Head(m) = m[1]
    BY <1>2 DEF Mags
  <2> QED
    BY <2>2, <2>3
<1>4. Word(m, 1) \in Nat /\ Word(m, 1) < Base
  <2>1. 1 \in Nat \ {0}
    OBVIOUS
  <2> QED
    BY <2>1, WordType
<1>5. PICK h \in Nat : Absolute(m) = Low(m)[0] + (Word(m, 0 + 1) + h * Base) * Place(0)
  <2>1. 0 \in Nat
    OBVIOUS
  <2> QED
    BY <2>1, Split
<1>6. Absolute(m) = Word(m, 1) + h * Base
  <2>1. Low(m)[0] = 0 /\ 0 + 1 = 1
    BY LowIs
  <2>2. Place(0) = 1
    BY PlaceFacts
  <2> DEFINE u == Word(m, 1)
             hb == h * Base
             a == Absolute(m)
  <2>3. hb \in Nat
    BY BaseFacts, TimesNat
  <2>4. u \in Nat /\ a = 0 + (u + hb) * 1
    BY <1>4, <1>5, <2>1, <2>2
  <2> HIDE DEF u, hb, a
  <2>5. a = u + hb
    BY <2>3, <2>4
  <2> QED
    BY <2>5 DEF u, hb, a
<1> QED
  BY <1>2, <1>3, <1>4, <1>6

\* The remainder is less than a word, and its lowest word is right even where
\* a borrow is lost.
LEMMA DigitIs ==
    ASSUME NEW v \in Unsigned, ~ IsZero(v)
    PROVE  Digit(v) \in Nat /\ Digit(v) = Absolute(v.magnitude) % Radix
<1> DEFINE m == v.magnitude
           a == Absolute(m)
           t == Tenth(v)
           p == Product(t, Ten)
           R == Radix
           d == Difference(v, p)
<1>1. v \in BigInts /\ v.sign = FALSE /\ Ten \in BigInts /\ Ten.sign = FALSE
      /\ R \in Nat \ {0} /\ R < Base /\ ~ IsZero(Ten)
  BY TenIs, UnsignedIs
<1>2. m \in Mags /\ a \in Nat /\ a > 0
  BY <1>1, BigIs
<1>3. t \in BigInts /\ t.sign = FALSE /\ Absolute(t.magnitude) = a \div R
      /\ (a < R => t = Big(0))
  BY TenthIs, UnsignedIs
<1>4. p \in BigInts /\ Absolute(p.magnitude) = (a \div R) * R
      /\ (IsZero(t) => p = Big(0)) /\ (~ IsZero(t) => p.sign = FALSE)
  <2> HIDE DEF t
  <2>1. /\ p \in BigInts
        /\ Absolute(p.magnitude) = Absolute(t.magnitude) * Absolute(Ten.magnitude)
        /\ IsZero(t) \/ IsZero(Ten) => p = Big(0)
        /\ ~ IsZero(t) /\ ~ IsZero(Ten) => p.sign = (t.sign # Ten.sign)
    BY <1>1, <1>3, ProductIs
  <2> HIDE DEF p
  <2>2. Absolute(Ten.magnitude) = R
    BY TenIs
  <2>3. p.sign = (t.sign # Ten.sign) => p.sign = FALSE
    BY <1>1, <1>3
  <2> QED
    BY <1>1, <1>3, <2>1, <2>2, <2>3
<1>5. /\ Len(m) > 0 /\ Head(m) = Word(m, 1) /\ m[1] = Word(m, 1)
      /\ Word(m, 1) \in Nat /\ Word(m, 1) < Base
      /\ \E h \in Nat : a = Word(m, 1) + h * Base
  BY <1>2, Lowest
<1>6. PICK h \in Nat : a = Word(m, 1) + h * Base
  BY <1>5
<1>7. Digit(v) = Head(d.magnitude)
  BY DEF Digit
<1> HIDE DEF t, p, R, a, m
<1>8. Base \in Nat \ {0}
  BY BaseFacts
<1>9. a % R \in 0 .. R - 1 /\ a \div R \in Int /\ a = (a \div R) * R + (a % R)
  BY <1>1, <1>2, Division
<1>10. CASE a < R
  <2>1. t = Big(0) /\ Big(0) \in BigInts /\ IsZero(Big(0))
    <3>1. 0 \in Words
      BY <1>8 DEF Words
    <3>2. Big(0) \in BigInts /\ Absolute(Big(0).magnitude) = 0
      BY <3>1, SmallIs, UnsignedIs
    <3> QED
      BY <1>3, <1>10, <3>2, BigIs
  <2>2. d = v
    BY <1>4, <2>1 DEF Difference
  <2>3. Digit(v) = Word(m, 1)
    BY <1>5, <1>7, <2>2 DEF m
  <2>4. a % R = a
    <3>1. (0 * R + a) % R = a
      <4>1. a \in 0 .. R - 1 /\ 0 \in Int
        BY <1>1, <1>2, <1>10
      <4> QED
        BY <1>1, <4>1, DivisionIs
    <3>2. 0 * R + a = a
      BY <1>1, <1>2
    <3> QED
      BY <3>1, <3>2
  <2>5. Word(m, 1) = a
    <3>1. a < Base /\ a \in 0 .. Base - 1 /\ 0 \in Int /\ h \in Int /\ Word(m, 1) \in 0 .. Base - 1
      BY <1>1, <1>2, <1>5, <1>8, <1>10
    <3> DEFINE u == Word(m, 1)
    <3>2. u \in 0 .. Base - 1
      BY <3>1
    <3> HIDE DEF u
    <3>3. (h * Base + u) % Base = u
      BY <1>8, <3>1, <3>2, DivisionIs
    <3>4. (0 * Base + a) % Base = a
      BY <1>8, <3>1, DivisionIs
    <3> DEFINE hb == h * Base
    <3>5. hb \in Int /\ a = u + hb
      BY <1>6, <1>8, <3>1, Times DEF u
    <3>6. 0 * Base + a = a
      BY <1>2, <1>8
    <3>7. a = hb + u
      <4> HIDE DEF hb
      <4> QED
        BY <3>2, <3>5
    <3>8. a = h * Base + u
      BY <3>7
    <3> QED
      BY <3>3, <3>4, <3>6, <3>8 DEF u
  <2> QED
    BY <1>2, <2>3, <2>4, <2>5 DEF a, m, R
<1>11. CASE ~ (a < R)
  <2> DEFINE b == (a \div R) * R
             pm == p.magnitude
             s == SubtractedMagnitudes(m, pm)
  <2>1. b \in Nat /\ b > 0 /\ b <= a /\ b = a - (a % R)
    <3> DEFINE r == a % R
               q == a \div R
    <3>1. r \in 0 .. R - 1 /\ q \in Int /\ a = b + r
      BY <1>9
    <3>2. b \in Int
      BY <1>1, <1>9, Times
    <3> HIDE DEF b, r, q
    <3> QED
      BY <1>1, <1>2, <1>11, <3>1, <3>2 DEF r
  <2>2. ~ IsZero(t) /\ ~ IsZero(p) /\ p.sign = FALSE /\ pm \in Mags /\ Absolute(pm) = b
    <3>1. ~ IsZero(t)
      <4> SUFFICES ASSUME IsZero(t) PROVE FALSE
        OBVIOUS
      <4>1. a \div R = 0
        BY <1>3, BigIs
      <4>2. 0 * R = 0
        BY <1>1
      <4> QED
        BY <2>1, <4>1, <4>2
    <3>2. Absolute(pm) = b
      BY <1>4
    <3> HIDE DEF b
    <3>3. ~ IsZero(p) /\ pm \in Mags
      BY <1>4, <2>1, <3>2, BigIs
    <3> QED
      BY <1>4, <3>1, <3>2, <3>3
  <2> HIDE DEF b
  <2>3. d = SameSignDifference(v, p)
    BY <1>1, <2>2 DEF Difference
  <2>4. d.magnitude = s
    <3>1. ~ (Absolute(v.magnitude) < Absolute(p.magnitude))
      BY <1>2, <2>1, <2>2 DEF a, m
    <3> QED
      BY <1>1, <1>4, <2>3, <3>1, SameSignDifferenceIs DEF m
  <2>5. s \in Mags /\ Len(s) > 0 /\ Word(s, 1) = (m[1] - Word(pm, 1)) % Base
    BY <1>2, <1>5, <2>2, SubtractedType
  <2>6. Digit(v) = Word(s, 1)
    <3> HIDE DEF s
    <3>1. 1 \in 1 .. Len(s)
      BY <2>5, MagIs
    <3>2. Word(s, 1) = s[1]
      BY <2>5, <3>1, MagIs
    <3>3. Head(s) = s[1]
      BY <2>5 DEF Mags
    <3> QED
      BY <1>7, <2>4, <3>2, <3>3
  <2>7. PICK k \in Nat : b = Word(pm, 1) + k * Base
    BY <2>1, <2>2, Lowest
  <2>8. Word(pm, 1) \in Nat
    BY <2>1, <2>2, Lowest
  <2> DEFINE u == Word(m, 1)
             w == Word(pm, 1)
             r == a % R
  <2>9. u - w = (k - h) * Base + r
    <3>1. (k - h) * Base = k * Base - h * Base
      <4>1. k \in Int /\ h \in Int /\ Base \in Int
        BY <1>8
      <4> QED
        BY <4>1, TimesMinus
    <3> DEFINE kb == k * Base
               hb == h * Base
    <3>2. kb \in Int /\ hb \in Int /\ u \in Int /\ w \in Int /\ r \in Int
      <4>1. kb \in Int /\ hb \in Int
        BY <1>8, Times
      <4>2. r \in Int
        BY <1>9
      <4> HIDE DEF kb, hb, r
      <4> QED
        BY <1>5, <2>8, <4>1, <4>2
    <3>3. a = u + hb /\ b = w + kb /\ b = a - r /\ (k - h) * Base = kb - hb
      BY <1>6, <2>1, <2>7, <3>1
    <3> HIDE DEF kb, hb, u, w, r
    <3>4. u - w = (kb - hb) + r
      BY <1>2, <2>1, <3>2, <3>3
    <3> QED
      BY <3>3, <3>4
  <2>10. r \in 0 .. Base - 1 /\ r \in Nat
    <3>1. r \in 0 .. R - 1
      BY <1>9
    <3> HIDE DEF r
    <3> QED
      BY <1>1, <1>8, <3>1
  <2>11. (u - w) % Base = r
    <3> HIDE DEF r, u, w
    <3>1. k - h \in Int
      OBVIOUS
    <3> DEFINE g == k - h
    <3>2. g \in Int /\ u - w = g * Base + r
      BY <2>9, <3>1
    <3> HIDE DEF g
    <3>3. (g * Base + r) % Base = r
      BY <1>8, <2>10, <3>2, DivisionIs
    <3> QED
      BY <3>2, <3>3
  <2>12. Digit(v) = r
    BY <1>5, <2>5, <2>6, <2>11
  <2> QED
    BY <2>10, <2>12 DEF a, m, R
<1> QED
  BY <1>10, <1>11

LEMMA TenthLess == \A n \in Nat : n > 0 => n \div Radix < n
<1> SUFFICES ASSUME NEW n \in Nat, n > 0 PROVE n \div Radix < n
  OBVIOUS
<1> DEFINE q == n \div Radix
           r == n % Radix
<1>1. Radix \in Nat \ {0} /\ Radix >= 2
  BY TenIs
<1>2. q \in Int /\ r \in 0 .. Radix - 1 /\ n = q * Radix + r
  BY <1>1, Division
<1> HIDE DEF q, r
<1> SUFFICES ASSUME q >= n PROVE FALSE
  BY <1>2 DEF q
<1>3. n * Radix <= q * Radix /\ 2 * n <= Radix * n /\ n * Radix = Radix * n
  <2>1. n \in Int /\ q \in Int /\ Radix \in Nat /\ n \in Nat /\ n <= q /\ 2 <= Radix
    BY <1>1, <1>2
  <2> QED
    BY <2>1, TimesOrder, Times
<1> DEFINE nr == n * Radix
           qr == q * Radix
<1>4. nr \in Int /\ qr \in Int /\ n = qr + r /\ nr <= qr /\ 2 * n <= nr
  <2>1. nr \in Int /\ qr \in Int
    BY <1>1, <1>2, Times
  <2> QED
    BY <1>2, <1>3, <2>1
<1> HIDE DEF nr, qr
<1> QED
  BY <1>1, <1>2, <1>4

LEMMA DecDigitsIs ==
    \A v \in Unsigned :
        /\ DecDigits[v] \in Seq(Nat)
        /\ DecDigits[v] = IF IsZero(v) THEN <<>> ELSE Append(DecDigits[Tenth(v)], Digit(v))
<1> DEFINE S == Seq(Nat)
           U == Unsigned
           F == DecDigits
           none == <<>>
           zero(v) == IsZero(v)
           tenth(v) == Tenth(v)
           digit(v) == Digit(v)
           a(v) == Absolute(v.magnitude)
           Is(f) == f = [v \in U |->
                LET ans == Quotient(v, Big(Radix))
                    remainder == Difference(v, Product(ans, Big(Radix)))
                IN  IF IsZero(v) THEN <<>> ELSE Append(f[ans], Head(remainder.magnitude))]
           Does(f) == f = [v \in U |-> IF zero(v) THEN none ELSE Append(f[tenth(v)], digit(v))]
           size == [v \in U |-> a(v)]
           stop == {v \in U : zero(v)}
           next == [v \in U |-> IF zero(v) THEN v ELSE tenth(v)]
           out == [v \in U |-> none]
           step == [p \in U \X S |-> IF zero(p[1]) THEN none ELSE Append(p[2], digit(p[1]))]
<1>1. \A v \in U : /\ a(v) \in Nat /\ tenth(v) \in U
                   /\ ~ zero(v) => digit(v) \in Nat /\ a(tenth(v)) < a(v)
  <2> SUFFICES ASSUME NEW v \in Unsigned
      PROVE  /\ a(v) \in Nat /\ tenth(v) \in U
             /\ ~ zero(v) => digit(v) \in Nat /\ a(tenth(v)) < a(v)
    OBVIOUS
  <2>1. a(v) \in Nat /\ (zero(v) <=> a(v) = 0)
    BY UnsignedIs, BigIs
  <2>2. tenth(v) \in U /\ a(tenth(v)) = a(v) \div Radix
    BY TenthIs
  <2>3. ~ zero(v) => digit(v) \in Nat
    BY DigitIs
  <2> QED
    BY <2>1, <2>2, <2>3, TenthLess
<1>2. none \in S
  OBVIOUS
<1> HIDE DEF zero, tenth, digit, a, none, U
<1>3. PICK f \in [U -> S] : \A v \in U : f[v] = Unfolded(f, v, stop, next, out, step)
  <2>1. size \in [U -> Nat] /\ stop \in SUBSET U
    BY <1>1
  <2>2. next \in [U -> U] /\ out \in [U -> S]
    BY <1>1, <1>2
  <2>3. step \in [U \X S -> S]
    <3>1. \A p \in U \X S : (IF zero(p[1]) THEN none ELSE Append(p[2], digit(p[1]))) \in S
      <4> SUFFICES ASSUME NEW v \in U, NEW s \in S
                   PROVE  (IF zero(v) THEN none ELSE Append(s, digit(v))) \in S
        OBVIOUS
      <4>1. ~ zero(v) => Append(s, digit(v)) \in S
        BY <1>1, AppendProperties
      <4> QED
        BY <1>2, <4>1
    <3> QED
      BY <3>1
  <2>4. \A v \in U \ stop : size[next[v]] < size[v]
    BY <1>1
  <2>5. Shrinks(U, S, size, stop, next, out, step)
    <3> HIDE DEF size, stop, next, out, step
    <3> QED
      BY <2>1, <2>2, <2>3, <2>4 DEF Shrinks
  <2> HIDE DEF size, stop, next, out, step, S
  <2> QED
    BY <2>5, Recursion
<1>4. \A v \in U : f[v] = IF zero(v) THEN none ELSE Append(f[tenth(v)], digit(v))
  <2> SUFFICES ASSUME NEW v \in U
               PROVE  f[v] = IF zero(v) THEN none ELSE Append(f[tenth(v)], digit(v))
    OBVIOUS
  <2>1. CASE ~ zero(v)
    <3>1. v \notin stop /\ next[v] = tenth(v) /\ tenth(v) \in U
      BY <1>1, <2>1
    <3>2. <<v, f[tenth(v)]>> \in U \X S
      BY <3>1
    <3>3. step[<<v, f[tenth(v)]>>] = Append(f[tenth(v)], digit(v))
      BY <2>1, <3>2
    <3>4. f[v] = step[<<v, f[next[v]]>>]
      BY <1>3, <3>1 DEF Unfolded
    <3> QED
      BY <2>1, <3>1, <3>3, <3>4
  <2>2. CASE zero(v)
    <3>1. v \in stop /\ out[v] = none
      BY <2>2
    <3>2. f[v] = out[v]
      BY <1>3, <3>1 DEF Unfolded
    <3> QED
      BY <2>2, <3>1, <3>2
  <2> QED
    BY <2>1, <2>2
<1>5. Does(f)
  <2>1. f = [v \in U |-> f[v]]
    OBVIOUS
  <2> QED
    BY <1>4, <2>1
<1>6. F = CHOOSE g : Is(g)
  BY DEF DecDigits, U
<1>7. \A g : Is(g) <=> Does(g)
  BY DEF zero, tenth, digit, none, Tenth, Digit, Ten
<1>8. Is(f)
  <2> HIDE DEF Is, Does
  <2> QED
    BY <1>5, <1>7
<1>9. Is(F)
  <2> HIDE DEF Is, F
  <2> QED
    BY <1>6, <1>8
<1>10. Does(F)
  <2> HIDE DEF Is, F, Does
  <2> QED
    BY <1>7, <1>9
<1> HIDE DEF F
<1>11. \A v \in U : F[v] = IF zero(v) THEN none ELSE Append(F[tenth(v)], digit(v))
  BY <1>10
<1> DEFINE N == {k \in Nat : \A v \in U : a(v) <= k => F[v] \in S}
<1>12. ASSUME NEW v \in U, zero(v) \/ F[tenth(v)] \in S PROVE F[v] \in S
  <2>1. CASE zero(v)
    <3> HIDE DEF S
    <3> QED
      BY <1>2, <1>11, <2>1
  <2>2. CASE ~ zero(v)
    <3>1. F[tenth(v)] \in Seq(Nat) /\ digit(v) \in Nat
      BY <1>1, <1>12, <2>2
    <3>2. Append(F[tenth(v)], digit(v)) \in Seq(Nat)
      BY <3>1, AppendProperties
    <3> QED
      BY <1>11, <2>2, <3>2
  <2> QED
    BY <2>1, <2>2
<1> HIDE DEF S
<1>13. 0 \in N
  BY <1>1, <1>12
<1>14. ASSUME NEW k \in Nat, k \in N PROVE k + 1 \in N
  <2> SUFFICES ASSUME NEW v \in U, a(v) <= k + 1 PROVE F[v] \in S
    OBVIOUS
  <2>1. ~ zero(v) => a(tenth(v)) <= k /\ tenth(v) \in U
    BY <1>1
  <2> QED
    BY <1>12, <1>14, <2>1
<1>15. \A k \in Nat : k \in N
  <2> HIDE DEF N
  <2> QED
    BY <1>13, <1>14, AllNumbers
<1>16. \A v \in U : F[v] \in S
  BY <1>1, <1>15
<1> QED
  BY <1>11, <1>16 DEF F, S, U, zero, tenth, digit, none

LEMMA DecDigitsExact ==
    \A v \in Unsigned : Horner(DecDigits[v], Radix) = Absolute(v.magnitude)
<1> DEFINE a(v) == Absolute(v.magnitude)
           Ok(v) == Horner(DecDigits[v], Radix) = a(v)
           N == {k \in Nat : \A v \in Unsigned : a(v) <= k => Ok(v)}
<1>1. \A v \in Unsigned : a(v) \in Nat /\ (IsZero(v) <=> a(v) = 0)
  BY UnsignedIs, BigIs
<1>2. ASSUME NEW v \in Unsigned, ~ IsZero(v) => Ok(Tenth(v)) PROVE Ok(v)
  <2>1. CASE IsZero(v)
    <3>1. DecDigits[v] = <<>>
      BY <2>1, DecDigitsIs
    <3>2. Horner(<<>>, Radix) = 0
      BY TenIs, HornerNone
    <3> QED
      BY <1>1, <2>1, <3>1, <3>2
  <2>2. CASE ~ IsZero(v)
    <3> DEFINE s == DecDigits[Tenth(v)]
               d == Digit(v)
    <3>1. DecDigits[v] = Append(s, d)
      BY <2>2, DecDigitsIs
    <3>2. s \in Seq(Nat)
      BY TenthIs, DecDigitsIs
    <3>3. d \in Nat /\ d = a(v) % Radix
      BY <2>2, DigitIs
    <3>4. Horner(s, Radix) = a(v) \div Radix
      BY <1>2, <2>2, TenthIs
    <3>5. Radix \in Nat \ {0} /\ a(v) \in Nat
      BY <1>1, TenIs
    <3> HIDE DEF s, d
    <3>6. Horner(Append(s, d), Radix) = Horner(s, Radix) * Radix + d
      BY <3>2, <3>3, <3>5, HornerAppend
    <3>7. a(v) = (a(v) \div Radix) * Radix + (a(v) % Radix)
      <4> DEFINE n == a(v)
                 r == Radix
      <4>1. n \in Int /\ r \in Nat \ {0}
        BY <3>5
      <4> HIDE DEF n, r
      <4>2. n = (n \div r) * r + (n % r)
        BY <4>1, Division
      <4> QED
        BY <4>2 DEF n, r
    <3> HIDE DEF a
    <3> QED
      BY <3>1, <3>3, <3>4, <3>6, <3>7
  <2> QED
    BY <2>1, <2>2
<1>3. \A v \in Unsigned : ~ IsZero(v) => Tenth(v) \in Unsigned /\ a(Tenth(v)) < a(v)
  <2> SUFFICES ASSUME NEW v \in Unsigned, ~ IsZero(v)
               PROVE  Tenth(v) \in Unsigned /\ a(Tenth(v)) < a(v)
    OBVIOUS
  <2>1. Tenth(v) \in Unsigned /\ a(Tenth(v)) = a(v) \div Radix
    BY TenthIs
  <2>2. a(v) \in Nat /\ a(v) > 0
    BY <1>1
  <2> QED
    BY <2>1, <2>2, TenthLess
<1> HIDE DEF a
<1>4. 0 \in N
  BY <1>1, <1>2
<1>5. ASSUME NEW k \in Nat, k \in N PROVE k + 1 \in N
  <2> SUFFICES ASSUME NEW v \in Unsigned, a(v) <= k + 1 PROVE Ok(v)
    OBVIOUS
  <2>1. ~ IsZero(v) => Tenth(v) \in Unsigned /\ a(Tenth(v)) <= k
    <3>1. ~ IsZero(v) => Tenth(v) \in Unsigned /\ a(Tenth(v)) < a(v) /\ a(Tenth(v)) \in Nat
      BY <1>1, <1>3
    <3> QED
      BY <1>1, <3>1
  <2>2. ~ IsZero(v) => Ok(Tenth(v))
    BY <1>5, <2>1
  <2> QED
    BY <1>2, <2>2
<1>6. \A k \in Nat : k \in N
  <2> HIDE DEF N
  <2> QED
    BY <1>4, <1>5, AllNumbers
<1> QED
  BY <1>1, <1>6 DEF a

LEMMA DecExact ==
    ASSUME NEW v \in BigInts
    PROVE  Horner(ToDec(v), Radix) = Absolute(v.magnitude)
<1>1. CASE IsZero(v)
  <2>1. ToDec(v) = <<0>> /\ Absolute(v.magnitude) = 0
    BY <1>1, BigIs DEF ToDec
  <2>2. Horner(<<0>>, Radix) = 0
    BY TenIs, HornerNone
  <2> QED
    BY <2>1, <2>2
<1>2. CASE ~ IsZero(v)
  <2>1. ToDec(v) = DecDigits[Positive(v)]
    BY <1>2 DEF ToDec, Positive
  <2>2. Positive(v) \in Unsigned /\ Positive(v).magnitude = v.magnitude
    BY PositiveIs
  <2> QED
    BY <2>1, <2>2, DecDigitsExact
<1> QED
  BY <1>1, <1>2

LEMMA NumeralsAre ==
    ASSUME NEW v \in BigInts
    PROVE  NumeralsExact(v)
<1>1. \A n \in 0 .. WordBits * MaxWords :
         IsBitSet(v, n) <=> (Absolute(v.magnitude) \div TwoTo[n]) % 2 = 1
  <2> SUFFICES ASSUME NEW n \in 0 .. WordBits * MaxWords
      PROVE  IsBitSet(v, n) <=> (Absolute(v.magnitude) \div TwoTo[n]) % 2 = 1
    OBVIOUS
  <2>1. n \in Nat
    OBVIOUS
  <2> QED
    BY <2>1, BitsExact
<1> QED
  BY <1>1, DecExact, HexExact DEF NumeralsExact

\* The representations of one integer cannot be told apart: decimal and
\* hexadecimal digits and bits are those of the absolute value, compare() is
\* the order of the integers, and no operation makes a negative zero.
THEOREM RepresentationsCorrect == Spec => []RepresentationsAgree
<1>1. ASSUME TypeInv PROVE RepresentationsAgree
  <2>1. x \in BigInts /\ \A y \in Operands : y \in BigInts
    BY <1>1, OperandsAre
  <2>2. NumeralsExact(x)
    BY <2>1, NumeralsAre
  <2>3. \A y \in Operands : OrderExact(x, y) /\ NoNewNegativeZero(x, y)
    BY <2>1, CompareExact, NoneNegative
  <2> QED
    BY <2>2, <2>3 DEF RepresentationsAgree
<1> QED
  BY <1>1, TypeInit, TypeNext, PTL DEF Spec

=============================================================================
