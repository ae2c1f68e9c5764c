---------------------------- MODULE DrawingProofs ----------------------------
(***************************************************************************)
(* Theorems about DrawingDriver, for components and words of any width and *)
(* for any images, shapes and places with which nothing overflows: in both *)
(* versions of the drawing functions, what is drawn and copied is what the *)
(* shapes, tiles and sprites say, and pixels survive files.                *)
(***************************************************************************)
EXTENDS DrawingDriver, TLAPS

-----------------------------------------------------------------------------
(* Products and quotients *)

LEMMA Times == \A a, b \in Int : a * b \in Int /\ a * b = b * a
OBVIOUS
LEMMA TimesNat == \A a, b \in Nat : a * b \in Nat
OBVIOUS
LEMMA TimesAdd == \A a, b, c \in Int : (a + b) * c = a * c + b * c
OBVIOUS
LEMMA TimesMinus == \A a, b, c \in Int : (a - b) * c = a * c - b * c
OBVIOUS
LEMMA TimesTimes == \A a, b, c \in Int : (a * b) * c = a * (b * c)
OBVIOUS
LEMMA TimesOrder == \A a, b \in Int, c \in Nat : a <= b => a * c <= b * c
<1> SUFFICES ASSUME NEW a \in Int, NEW b \in Int, NEW c \in Nat, a <= b PROVE a * c <= b * c
  OBVIOUS
<1>1. (b - a) * c = b * c - a * c /\ b - a \in Nat
  BY TimesMinus
<1>2. (b - a) * c \in Nat
  BY <1>1, TimesNat
<1> QED
  BY <1>1, <1>2, Times

LEMMA Division ==
    ASSUME NEW n \in Nat \ {0}, NEW a \in Int
    PROVE  /\ a \div n \in Int /\ a % n \in 0 .. n - 1
           /\ a = (a \div n) * n + (a % n)
<1>1. a \div n \in Int /\ a % n \in 0 .. n - 1 /\ a % n = a - n * (a \div n)
  OBVIOUS
<1>2. n * (a \div n) = (a \div n) * n /\ n * (a \div n) \in Int
  BY <1>1, Times
<1> DEFINE q == a \div n
           p == q * n
           s == a % n
<1>3. q \in Int /\ s \in 0 .. n - 1 /\ s = a - p /\ p \in Int
  BY <1>1, <1>2
<1>4. a = p + s
  <2> HIDE DEF p, q, s
  <2> QED
    BY <1>3
<1> QED
  BY <1>1, <1>4, Zenon

LEMMA DivisionIs ==
    ASSUME NEW n \in Nat \ {0}, NEW t \in Int, NEW s \in 0 .. n - 1
    PROVE  (t * n + s) \div n = t /\ (t * n + s) % n = s
<1>1. t * n \in Int /\ (t + 1) * n = t * n + n
  OBVIOUS
<1> DEFINE a == t * n + s
           q == a \div n
           m == a % n
<1>2. a \in Int /\ q \in Int /\ m \in 0 .. n - 1 /\ a = q * n + m
  BY <1>1, Division
<1>3. q = t
  <2>1. CASE q < t
    <3>1. q + 1 <= t
      BY <1>2, <2>1
    <3>2. (q + 1) * n <= t * n
      BY <1>2, <3>1, TimesOrder
    <3>3. (q + 1) * n = q * n + n /\ q * n \in Int
      BY <1>2
    <3> DEFINE u == q * n
               y == t * n
               z == (q + 1) * n
               w == (t + 1) * n
    <3>4. /\ u \in Int /\ y \in Int /\ a = y + s /\ a = u + m /\ w = y + n
          /\ z = u + n
      BY <1>1, <1>2
    <3>5. z <= y
      BY <3>2
    <3> HIDE DEF q, m, a, u, y, z, w
    <3> QED
      BY <1>2, <3>4, <3>5
  <2>2. CASE q > t
    <3>1. t + 1 <= q
      BY <1>2, <2>2
    <3>2. (t + 1) * n <= q * n
      BY <1>2, <3>1, TimesOrder
    <3>3. (q + 1) * n = q * n + n /\ q * n \in Int
      BY <1>2
    <3> DEFINE u == q * n
               y == t * n
               z == (q + 1) * n
               w == (t + 1) * n
    <3>4. /\ u \in Int /\ y \in Int /\ a = y + s /\ a = u + m /\ w = y + n
          /\ z = u + n
      BY <1>1, <1>2
    <3>5. w <= u
      BY <3>2
    <3> HIDE DEF q, m, a, u, y, z, w
    <3> QED
      BY <1>2, <3>4, <3>5
  <2> QED
    BY <1>2, <2>1, <2>2
<1>4. m = s
  <2> DEFINE y == t * n
  <2>1. y \in Int /\ a = y + s /\ a = y + m
    BY <1>1, <1>2, <1>3
  <2> HIDE DEF y, m, a
  <2> QED
    BY <1>2, <2>1
<1> QED
  BY <1>3, <1>4


LEMMA SmallRemainder == \A n \in Nat \ {0} : \A a \in 0 .. n - 1 : a % n = a /\ a \div n = 0
OBVIOUS

-----------------------------------------------------------------------------
(* Colors.  A word is taken apart as the getters take it apart.            *)

Component == 0 .. Byte - 1

LEMMA ByteFacts == Byte \in Nat /\ Byte >= 2 /\ Opaque \in Nat /\ Opaque >= 1 /\ Opaque = Byte - 1
BY ByteAssumption DEF Opaque

\* Two digits make a number below the product of their radixes.
LEMMA TwoDigits ==
    ASSUME NEW m \in Nat \ {0}, NEW n \in Nat \ {0}, NEW t \in 0 .. m - 1, NEW s \in 0 .. n - 1
    PROVE  t * n + s \in 0 .. (m * n) - 1 /\ m * n \in Nat \ {0}
<1>1. (t + 1) * n <= m * n
  <2>1. t + 1 \in Int /\ m \in Int /\ n \in Nat /\ t + 1 <= m
    OBVIOUS
  <2> QED
    BY <2>1, TimesOrder
<1>2. (t + 1) * n = t * n + n
  OBVIOUS
<1>3. t * n \in Nat /\ m * n \in Nat
  BY TimesNat
<1> DEFINE u == t * n
           v == m * n
           w == (t + 1) * n
<1>4. u \in Nat /\ v \in Nat /\ w = u + n /\ w <= v
  BY <1>1, <1>2, <1>3
<1>5. u + s \in 0 .. v - 1 /\ v # 0
  <2> HIDE DEF u, v, w
  <2> QED
    BY <1>4
<1> QED
  BY <1>3, <1>5

LEMMA PackedFacts ==
    ASSUME NEW r \in Component, NEW g \in Component, NEW b \in Component,
           NEW a \in Component
    PROVE  /\ Packed(r, g, b, a) \in Colors
           /\ GetR(Packed(r, g, b, a)) = r /\ GetG(Packed(r, g, b, a)) = g
           /\ GetB(Packed(r, g, b, a)) = b /\ GetA(Packed(r, g, b, a)) = a
<1> DEFINE B == Byte
           two == B * B
           three == two * B
           rg == r * B + g
           gb == g * B + b
           ba == b * B + a
           rgb == rg * B + b
           gba == gb * B + a
           all == rgb * B + a
<1>1. /\ B \in Nat \ {0} /\ r \in 0 .. B - 1 /\ g \in 0 .. B - 1
      /\ b \in 0 .. B - 1 /\ a \in 0 .. B - 1
  BY ByteFacts DEF Component
<1>2. two \in Nat \ {0} /\ rg \in 0 .. two - 1 /\ gb \in 0 .. two - 1 /\ ba \in 0 .. two - 1
  BY <1>1, TwoDigits
<1>3. three \in Nat \ {0} /\ rgb \in 0 .. three - 1 /\ gba \in 0 .. three - 1
  <2> HIDE DEF two, rg, gb, ba
  <2> QED
    BY <1>1, <1>2, TwoDigits
<1>4. all \in 0 .. (three * B) - 1
  <2> HIDE DEF three, rgb, gba
  <2> QED
    BY <1>1, <1>3, TwoDigits
<1>5. all = rg * two + ba
  <2>1. rg \in Int /\ B \in Int /\ rg * B \in Int
    BY <1>1, <1>2
  <2>2. (rg * B + b) * B = (rg * B) * B + b * B
    BY <1>1, <2>1, TimesAdd
  <2>3. (rg * B) * B = rg * two
    BY <2>1, TimesTimes
  <2>4. rg * two \in Int /\ b * B \in Int
    BY <1>1, <1>2, <2>1, Times
  <2> DEFINE u == rg * two
             v == b * B
  <2>5. rgb * B = u + v /\ u \in Int /\ v \in Int
    BY <2>2, <2>3, <2>4
  <2> HIDE DEF u, rg, two, rgb
  <2>6. all = (u + v) + a
    BY <2>5
  <2> HIDE DEF v, all
  <2>7. all = u + (v + a)
    BY <1>1, <2>5, <2>6
  <2> QED
    BY <2>7 DEF u, v
<1>6. all = r * three + gba
  <2>1. r \in Int /\ B \in Int /\ g \in Int /\ b \in Int /\ two \in Int /\ gb \in Int
    BY <1>1, <1>2
  <2>2. rgb = r * two + gb
    <3>1. (r * B + g) * B = (r * B) * B + g * B
      BY <2>1, TimesAdd, Times
    <3>2. (r * B) * B = r * two
      BY <2>1, TimesTimes
    <3> DEFINE u == r * two
               v == g * B
    <3>3. u \in Int /\ v \in Int
      BY <2>1, Times
    <3>4. rg * B = u + v
      BY <3>1, <3>2
    <3> HIDE DEF u, v, rg
    <3>5. rgb = u + (v + b)
      BY <2>1, <3>3, <3>4
    <3> QED
      BY <3>5 DEF u, v
  <2>3. (r * two + gb) * B = (r * two) * B + gb * B
    <3>1. r * two \in Int
      BY <2>1, Times
    <3> HIDE DEF two, gb
    <3> QED
      BY <2>1, <3>1, TimesAdd
  <2>4. (r * two) * B = r * three
    <3> HIDE DEF two
    <3> QED
      BY <2>1, TimesTimes
  <2>5. three \in Int /\ r * three \in Int /\ gb * B \in Int
    <3>1. three \in Int
      BY <1>3
    <3> HIDE DEF three, gb
    <3> QED
      BY <2>1, <3>1, Times
  <2> DEFINE u == r * three
             v == gb * B
  <2>6. u \in Int /\ v \in Int /\ rgb * B = u + v
    BY <2>2, <2>3, <2>4, <2>5
  <2> HIDE DEF u, v, rgb, three, gb
  <2>7. all = u + (v + a)
    BY <1>1, <2>6
  <2> QED
    BY <2>7 DEF u, v
<1>7. all = Packed(r, g, b, a)
  BY DEF Packed
<1>8. Packed(r, g, b, a) \in Colors
  BY <1>4, <1>7 DEF Colors
<1> HIDE DEF two, three, gb, ba, gba
<1>9. GetA(all) = a /\ GetB(all) = b
  <2>1. rgb \in Int /\ rg \in Int
    BY <1>2, <1>3
  <2>2. (rgb * B + a) \div B = rgb /\ (rgb * B + a) % B = a
    <3> HIDE DEF rgb
    <3> QED
      BY <1>1, <2>1, DivisionIs
  <2>3. (rg * B + b) % B = b
    <3> HIDE DEF rg
    <3> QED
      BY <1>1, <2>1, DivisionIs
  <2> QED
    BY <2>2, <2>3 DEF GetA, GetB
<1>10. GetG(all) = g
  <2>1. (rg * two + ba) \div two = rg
    <3>1. rg \in Int
      BY <1>2
    <3> HIDE DEF rg
    <3> QED
      BY <1>2, <3>1, DivisionIs
  <2>2. rg % B = g
    <3>1. r \in Int
      BY <1>1
    <3> QED
      BY <1>1, <3>1, DivisionIs
  <2> HIDE DEF all, rg
  <2> QED
    BY <1>5, <2>1, <2>2, Zenon DEF GetG, two
<1>11. GetR(all) = r
  <2>1. (r * three + gba) \div three = r
    <3>1. r \in Int
      BY <1>1
    <3> QED
      BY <1>3, <3>1, DivisionIs
  <2>2. r % B = r
    BY <1>1, SmallRemainder
  <2> QED
    BY <1>6, <2>1, <2>2 DEF GetR, three, two
<1> QED
  BY <1>7, <1>8, <1>9, <1>10, <1>11

\* Every color is packed from its components.
LEMMA QuotientBelow ==
    ASSUME NEW m \in Nat \ {0}, NEW n \in Nat \ {0}, NEW c \in 0 .. (m * n) - 1
    PROVE  c \div n \in 0 .. m - 1
<1> DEFINE q == c \div n
           s == c % n
<1>1. q \in Int /\ s \in 0 .. n - 1 /\ c = q * n + s
  BY Division, TimesNat
<1>2. m * n \in Nat /\ c < m * n /\ c >= 0 /\ c \in Int
  BY TimesNat
<1> HIDE DEF q, s
<1>3. q < m
  <2> SUFFICES ASSUME m <= q PROVE FALSE
    BY <1>1
  <2>1. m * n <= q * n
    BY <1>1, TimesOrder
  <2>2. q * n \in Int
    BY <1>1, Times
  <2> DEFINE u == q * n
             v == m * n
  <2>3. u \in Int /\ v \in Nat /\ v <= u /\ c < v /\ c = u + s
    BY <1>1, <1>2, <2>1, <2>2
  <2> HIDE DEF u, v
  <2> QED
    BY <1>1, <1>2, <2>3
<1>4. q >= 0
  <2> SUFFICES ASSUME q + 1 <= 0 PROVE FALSE
    BY <1>1
  <2>1. (q + 1) * n <= 0 * n
    BY <1>1, TimesOrder
  <2>2. q * n \in Int /\ (q + 1) * n = q * n + n /\ 0 * n = 0
    BY <1>1, TimesAdd, Times
  <2> DEFINE u == q * n
  <2>3. u \in Int /\ u + n <= 0 /\ c = u + s
    BY <1>1, <2>1, <2>2
  <2> HIDE DEF u
  <2> QED
    BY <1>1, <1>2, <2>3
<1> QED
  BY <1>1, <1>3, <1>4 DEF q

LEMMA ColorFacts ==
    ASSUME NEW c \in Colors
    PROVE  /\ GetR(c) \in Component /\ GetG(c) \in Component
           /\ GetB(c) \in Component /\ GetA(c) \in Component
           /\ Packed(GetR(c), GetG(c), GetB(c), GetA(c)) = c
<1> DEFINE B == Byte
           two == B * B
           three == two * B
           rgb == c \div B
           rg == rgb \div B
           r == rg \div B
           g == rg % B
           b == rgb % B
           a == c % B
<1>1. B \in Nat \ {0}
  BY ByteFacts
<1>2. two \in Nat \ {0} /\ three \in Nat \ {0}
  BY <1>1, Times, TimesNat
<1>3. c \in 0 .. (three * B) - 1
  BY DEF Colors
<1>4. rgb \in 0 .. three - 1
  <2> HIDE DEF three
  <2> QED
    BY <1>1, <1>2, <1>3, QuotientBelow
<1>5. rg \in 0 .. two - 1
  <2> HIDE DEF two, rgb
  <2> QED
    BY <1>1, <1>2, <1>4, QuotientBelow DEF three
<1>6. r \in 0 .. B - 1
  <2> HIDE DEF rg
  <2> QED
    BY <1>1, <1>5, QuotientBelow DEF two
<1>7. /\ a \in 0 .. B - 1 /\ b \in 0 .. B - 1 /\ g \in 0 .. B - 1
      /\ c = rgb * B + a /\ rgb = rg * B + b /\ rg = r * B + g
  <2>1. c \in Int /\ rgb \in Int /\ rg \in Int
    BY <1>3, <1>4, <1>5 DEF Colors
  <2>2. a \in 0 .. B - 1 /\ c = rgb * B + a
    BY <1>1, <2>1, Division
  <2>3. b \in 0 .. B - 1 /\ rgb = rg * B + b
    <3> HIDE DEF rgb
    <3> QED
      BY <1>1, <2>1, Division
  <2>4. g \in 0 .. B - 1 /\ rg = r * B + g
    <3> HIDE DEF rg
    <3> QED
      BY <1>1, <2>1, Division
  <2> QED
    BY <2>2, <2>3, <2>4
<1> HIDE DEF r, g, b, a, rgb, rg
<1>8. c = Packed(r, g, b, a)
  BY <1>7 DEF Packed
<1>9. GetR(c) = r /\ GetG(c) = g /\ GetB(c) = b /\ GetA(c) = a
  BY <1>6, <1>7, <1>8, PackedFacts DEF Component
<1> QED
  BY <1>6, <1>7, <1>8, <1>9 DEF Component

-----------------------------------------------------------------------------
(* Blending *)

\* A weighted mean of two components, rounded down, is a component.
LEMMA BlendIsMix ==
    ASSUME NEW fg \in Component, NEW bg \in Component, NEW a \in Component
    PROVE  /\ BlendComponents(fg, bg, a) \in Component
           /\ IsMix(BlendComponents(fg, bg, a), fg, bg, a)
           /\ AsmBlendComponents(fg, bg, a) = BlendComponents(fg, bg, a)
<1> DEFINE O == Opaque
           af == a * fg
           ab == (O - a) * bg
           exact == af + ab
           q == exact \div O
           s == exact % O
           p == q * O
           top == O * O
<1>1. /\ O \in Nat \ {0} /\ a \in Nat /\ O - a \in Nat /\ fg \in Nat /\ bg \in Nat
      /\ fg <= O /\ bg <= O /\ Component = 0 .. O
  BY ByteFacts DEF Component
<1>2. af \in Nat /\ ab \in Nat /\ bg * (O - a) = ab /\ top \in Nat
  <2>1. af \in Nat /\ ab \in Nat /\ top \in Nat
    BY <1>1, TimesNat
  <2>2. bg * (O - a) = ab
    BY <1>1, Times
  <2> QED
    BY <2>1, <2>2
<1>3. exact <= top
  <2>1. fg * a <= O * a /\ bg * (O - a) <= O * (O - a)
    BY <1>1, TimesOrder
  <2>2. fg * a = af /\ O * a \in Int /\ O * (O - a) = (O - a) * O
    BY <1>1, Times
  <2>3. (O - a) * O = O * O - a * O /\ a * O = O * a
    BY <1>1, TimesMinus, Times
  <2> DEFINE u == O * a
             v == O * (O - a)
  <2>4. u \in Int /\ af <= u /\ ab <= v /\ v = top - u
    BY <1>2, <2>1, <2>2, <2>3
  <2> HIDE DEF u, v, af, ab, top, O
  <2> QED
    BY <1>2, <2>4
<1>4. exact \in Int
  BY <1>2
<1>5. q \in Int /\ s \in 0 .. O - 1 /\ exact = p + s
  <2> HIDE DEF exact
  <2> QED
    BY <1>1, <1>4, Division
<1>6. p \in Int /\ (q + 1) * O = p + O /\ p = O * q /\ O * (q + 1) = p + O
  <2>1. q \in Int
    BY <1>5
  <2> HIDE DEF q, O
  <2>2. p \in Int /\ p = O * q
    BY <1>1, <2>1, Times
  <2>3. (q + 1) * O = q * O + O
    BY <1>1, <2>1, TimesAdd
  <2>4. O * (q + 1) = (q + 1) * O
    BY <1>1, <2>1, Times
  <2> QED
    BY <2>2, <2>3, <2>4
<1>7. O * q <= exact /\ exact < O * (q + 1)
  <2>1. O * q = p /\ O * (q + 1) = p + O
    BY <1>6
  <2>2. p <= exact /\ exact < p + O
    <3>1. exact = p + s /\ p \in Int /\ s \in 0 .. O - 1 /\ O \in Nat
      BY <1>1, <1>5, <1>6
    <3> HIDE DEF p, s, exact, O
    <3> QED
      BY <3>1
  <2> QED
    BY <2>1, <2>2, Zenon
<1>8. q >= 0
  <2> SUFFICES ASSUME q + 1 <= 0 PROVE FALSE
    BY <1>5
  <2>1. (q + 1) * O <= 0 * O
    <3>1. q + 1 \in Int /\ q + 1 <= 0
      BY <1>5
    <3> HIDE DEF q, O
    <3> QED
      BY <1>1, <3>1, TimesOrder
  <2>2. 0 * O = 0
    BY <1>1
  <2>3. p + O <= 0
    BY <1>6, <2>1, <2>2
  <2>4. exact = p + s /\ p \in Int /\ s \in 0 .. O - 1 /\ O \in Nat /\ exact \in Nat
    BY <1>1, <1>2, <1>5, <1>6
  <2> HIDE DEF p, s, exact, O
  <2> QED
    BY <2>3, <2>4
<1>9. q <= O
  <2> SUFFICES ASSUME O + 1 <= q PROVE FALSE
    BY <1>1, <1>5
  <2>1. (O + 1) * O <= q * O
    <3>1. q \in Int /\ O + 1 \in Int /\ O + 1 <= q
      BY <1>1, <1>5
    <3> HIDE DEF q, O
    <3> QED
      BY <1>1, <3>1, TimesOrder
  <2>2. (O + 1) * O = top + O
    BY <1>1, TimesAdd
  <2>3. top + O <= p
    BY <2>1, <2>2
  <2>4. /\ exact = p + s /\ p \in Int /\ s \in 0 .. O - 1 /\ O \in Nat \ {0}
        /\ exact \in Int /\ top \in Nat /\ exact <= top
    BY <1>1, <1>2, <1>3, <1>4, <1>5, <1>6
  <2> HIDE DEF p, s, exact, O, top
  <2> QED
    BY <2>3, <2>4
<1>10. BlendComponents(fg, bg, a) = q /\ AsmBlendComponents(fg, bg, a) = q
  <2>1. BlendComponents(fg, bg, a) = (af + bg * (O - a)) \div O
    BY DEF BlendComponents
  <2>2. AsmBlendComponents(fg, bg, a) = (ab + af) \div O
    BY DEF AsmBlendComponents
  <2>3. ab + af = af + ab
    BY <1>2
  <2> QED
    BY <1>2, <2>1, <2>2, <2>3, Zenon
<1>11. q \in Component
  BY <1>1, <1>5, <1>8, <1>9
<1>12. IsMix(q, fg, bg, a)
  BY <1>7 DEF IsMix
<1> QED
  BY <1>10, <1>11, <1>12

\* An opaque foreground hides what is behind it.
LEMMA OpaqueIsMix ==
    ASSUME NEW fg \in Component, NEW bg \in Component
    PROVE  IsMix(fg, fg, bg, Opaque)
<1> DEFINE p == Opaque * fg
<1>1. fg \in Int /\ bg \in Int /\ Opaque \in Int /\ Opaque >= 1
  BY ByteFacts DEF Component
<1>2. p \in Int /\ (Opaque - Opaque) * bg = 0 /\ Opaque * (fg + 1) = p + Opaque
  <2>1. p \in Int
    BY <1>1, Times
  <2>2. Opaque - Opaque = 0 /\ 0 * bg = 0
    BY <1>1
  <2>3. (fg + 1) * Opaque = fg * Opaque + Opaque
    BY <1>1, TimesAdd
  <2>4. (fg + 1) * Opaque = Opaque * (fg + 1) /\ fg * Opaque = p
    BY <1>1, Times
  <2> QED
    BY <2>1, <2>2, <2>3, <2>4
<1>3. p + 0 = p /\ p <= p /\ p < p + Opaque
  <2> HIDE DEF p
  <2> QED
    BY <1>1, <1>2
<1>4. p <= p + (Opaque - Opaque) * bg /\ p + (Opaque - Opaque) * bg < Opaque * (fg + 1)
  BY <1>2, <1>3, Zenon
<1> QED
  BY <1>4 DEF IsMix

\* blend_colors() and its assembly version agree, and blend.
LEMMA BlendIs ==
    ASSUME NEW fg \in Colors, NEW bg \in Colors
    PROVE  /\ BlendColors(fg, bg) \in Colors
           /\ IsBlend(BlendColors(fg, bg), fg, bg)
           /\ AsmBlendColors(fg, bg) = BlendColors(fg, bg)
<1> DEFINE a == GetA(fg)
           new == BlendColors(fg, bg)
<1>1. /\ GetR(fg) \in Component /\ GetG(fg) \in Component /\ GetB(fg) \in Component
      /\ GetR(bg) \in Component /\ GetG(bg) \in Component /\ GetB(bg) \in Component
      /\ a \in Component
  BY ColorFacts
<1>2. Opaque \in Component /\ Opaque # 0
  BY ByteFacts DEF Component
<1>3. CASE a = 0
  <2>1. new = bg /\ AsmBlendColors(fg, bg) = bg
    BY <1>2, <1>3 DEF BlendColors, AsmBlendColors
  <2> QED
    BY <1>3, <2>1 DEF IsBlend
<1>4. CASE a = Opaque
  <2> DEFINE u == Packed(GetR(fg), GetG(fg), GetB(fg), Opaque)
  <2>1. new = u /\ AsmBlendColors(fg, bg) = u
    BY <1>2, <1>4 DEF BlendColors, AsmBlendColors
  <2>2. /\ u \in Colors /\ GetR(u) = GetR(fg) /\ GetG(u) = GetG(fg)
        /\ GetB(u) = GetB(fg) /\ GetA(u) = Opaque
    BY <1>1, <1>2, PackedFacts
  <2>3. /\ IsMix(GetR(u), GetR(fg), GetR(bg), a) /\ IsMix(GetG(u), GetG(fg), GetG(bg), a)
        /\ IsMix(GetB(u), GetB(fg), GetB(bg), a)
    BY <1>1, <1>4, <2>2, OpaqueIsMix
  <2> HIDE DEF u
  <2> QED
    BY <1>2, <1>4, <2>1, <2>2, <2>3 DEF IsBlend
<1>5. CASE a # 0 /\ a # Opaque
  <2> DEFINE r == BlendComponents(GetR(fg), GetR(bg), a)
             g == BlendComponents(GetG(fg), GetG(bg), a)
             b == BlendComponents(GetB(fg), GetB(bg), a)
             u == Packed(r, g, b, Opaque)
  <2>1. r \in Component /\ g \in Component /\ b \in Component
    BY <1>1, BlendIsMix
  <2>2. /\ IsMix(r, GetR(fg), GetR(bg), a) /\ IsMix(g, GetG(fg), GetG(bg), a)
        /\ IsMix(b, GetB(fg), GetB(bg), a)
    BY <1>1, BlendIsMix
  <2>3. /\ AsmBlendComponents(GetR(fg), GetR(bg), a) = r
        /\ AsmBlendComponents(GetG(fg), GetG(bg), a) = g
        /\ AsmBlendComponents(GetB(fg), GetB(bg), a) = b
    BY <1>1, BlendIsMix
  <2>4. new = u /\ AsmBlendColors(fg, bg) = u
    BY <1>5, <2>3 DEF BlendColors, AsmBlendColors
  <2>5. u \in Colors /\ GetR(u) = r /\ GetG(u) = g /\ GetB(u) = b /\ GetA(u) = Opaque
    <3> HIDE DEF r, g, b
    <3> QED
      BY <1>2, <2>1, PackedFacts
  <2> HIDE DEF r, g, b, u
  <2> QED
    BY <1>5, <2>2, <2>4, <2>5 DEF IsBlend
<1> QED
  BY <1>3, <1>4, <1>5

-----------------------------------------------------------------------------
(* Images.  What is known of every image the program has: its size fits,   *)
(* and it has one color for each of its pixels.                            *)

Good(img) ==
    /\ img = Image(img.width, img.height, img.data)
    /\ img.width \in Lengths /\ img.height \in Lengths
    /\ img.width * img.height < Word
    /\ img.data \in [0 .. (img.width * img.height) - 1 -> Colors]

LEMMA WordFacts ==
    /\ Word \in Nat \ {0} /\ Word \div 2 \in Nat
    /\ (Word \div 2) + (Word \div 2) <= Word
    /\ Lengths \subseteq Nat /\ Coordinates \subseteq Int
<1>1. Word \in Nat \ {0} /\ Word \div 2 \in Nat /\ (Word \div 2) + (Word \div 2) <= Word
  BY WordAssumption
<1> QED
  BY <1>1 DEF Lengths, Coordinates

LEMMA GoodFacts ==
    ASSUME NEW img, Good(img)
    PROVE  /\ img.width \in Nat /\ img.height \in Nat /\ img.width * img.height \in Nat
           /\ img.width * img.height < Word
           /\ DOMAIN img.data = 0 .. (img.width * img.height) - 1
           /\ \A i \in DOMAIN img.data : img.data[i] \in Colors
           /\ IsImage(img)
<1>1. img.width \in Nat /\ img.height \in Nat
  BY WordFacts DEF Good
<1>2. img.width * img.height \in Nat
  BY <1>1, TimesNat
<1>3. /\ DOMAIN img.data = 0 .. (img.width * img.height) - 1
      /\ \A i \in DOMAIN img.data : img.data[i] \in Colors
      /\ img.width * img.height < Word
  BY DEF Good
<1> QED
  BY <1>1, <1>2, <1>3 DEF IsImage

\* The index of a place, and the place of an index.
LEMMA IndexIs ==
    ASSUME NEW w \in Nat, NEW h \in Nat, NEW x \in 0 .. w - 1, NEW y \in 0 .. h - 1
    PROVE  /\ (y * w) + x \in 0 .. (w * h) - 1
           /\ ((y * w) + x) % w = x /\ ((y * w) + x) \div w = y
<1>1. w \in Nat \ {0} /\ h \in Nat \ {0} /\ y \in Int
  OBVIOUS
<1>2. (y * w) + x \in 0 .. (h * w) - 1
  BY <1>1, TwoDigits
<1>3. h * w = w * h
  BY Times
<1>4. ((y * w) + x) % w = x /\ ((y * w) + x) \div w = y
  BY <1>1, DivisionIs
<1> QED
  BY <1>2, <1>3, <1>4

LEMMA PlaceIs ==
    ASSUME NEW w \in Nat, NEW h \in Nat, NEW i \in 0 .. (w * h) - 1
    PROVE  i % w \in 0 .. w - 1 /\ i \div w \in 0 .. h - 1 /\ i = ((i \div w) * w) + (i % w)
<1>1. w # 0 /\ h # 0
  <2>1. w = 0 => w * h = 0
    OBVIOUS
  <2>2. h = 0 => w * h = 0
    OBVIOUS
  <2>3. w * h # 0
    OBVIOUS
  <2> QED
    BY <2>1, <2>2, <2>3
<1>2. w * h = h * w
  BY Times
<1>3. i \in 0 .. (h * w) - 1
  BY <1>2
<1>4. i \div w \in 0 .. h - 1
  BY <1>1, <1>3, QuotientBelow
<1>5. i \in Int
  OBVIOUS
<1>6. i % w \in 0 .. w - 1 /\ i = ((i \div w) * w) + (i % w)
  BY <1>1, <1>5, Division
<1> QED
  BY <1>4, <1>6

LEMMA ComputeIndexIs ==
    ASSUME NEW img, Good(img), NEW x \in Int, NEW y \in Int
    PROVE  /\ AsmInBounds(img, x, y) <=> InBounds(img, x, y)
           /\ AsmComputeIndex(img, x, y) = ComputeIndex(img, x, y)
           /\ ~InBounds(img, x, y) => ComputeIndex(img, x, y) = NoIndex
           /\ InBounds(img, x, y) =>
                /\ ComputeIndex(img, x, y) \in DOMAIN img.data
                /\ ComputeIndex(img, x, y) # NoIndex
                /\ ComputeIndex(img, x, y) = (y * img.width) + x
                /\ ComputeIndex(img, x, y) % img.width = x
                /\ ComputeIndex(img, x, y) \div img.width = y
<1> DEFINE w == img.width
           h == img.height
           n == ComputeIndex(img, x, y)
<1>1. w \in Nat /\ h \in Nat
  BY GoodFacts
<1>2. AsmInBounds(img, x, y) <=> InBounds(img, x, y)
  <2> HIDE DEF w, h
  <2>1. x \in 0 .. w - 1 <=> x >= 0 /\ x < w
    BY <1>1
  <2>2. y \in 0 .. h - 1 <=> y >= 0 /\ y < h
    BY <1>1
  <2> QED
    BY <2>1, <2>2 DEF AsmInBounds, InBounds, w, h
<1>3. AsmComputeIndex(img, x, y) = n
  BY <1>2 DEF AsmComputeIndex, ComputeIndex
<1>4. ~InBounds(img, x, y) => n = NoIndex
  BY DEF ComputeIndex
<1>5. ASSUME InBounds(img, x, y)
      PROVE  /\ n \in DOMAIN img.data /\ n # NoIndex /\ n = (y * w) + x
             /\ n % w = x /\ n \div w = y
  <2>1. n = (y * w) + x /\ x \in 0 .. w - 1 /\ y \in 0 .. h - 1
    <3>1. n = (y * w) + x
      BY <1>5, Zenon DEF ComputeIndex
    <3>2. x \in 0 .. w - 1 /\ y \in 0 .. h - 1
      BY <1>5, Zenon DEF InBounds
    <3> QED
      BY <3>1, <3>2, Zenon
  <2>2. /\ (y * w) + x \in 0 .. (w * h) - 1
        /\ ((y * w) + x) % w = x /\ ((y * w) + x) \div w = y
    <3>1. x \in 0 .. w - 1 /\ y \in 0 .. h - 1
      BY <2>1
    <3> HIDE DEF w, h, n
    <3> QED
      BY <1>1, <3>1, IndexIs
  <2>3. n \in 0 .. (w * h) - 1 /\ n % w = x /\ n \div w = y
    BY <2>1, <2>2, Zenon
  <2>4. DOMAIN img.data = 0 .. (w * h) - 1 /\ w * h \in Nat /\ w * h < Word
    BY GoodFacts
  <2>5. n # NoIndex
    <3> DEFINE wh == w * h
    <3>1. wh \in Nat /\ wh < Word /\ n \in 0 .. wh - 1
      BY <2>3, <2>4
    <3> HIDE DEF wh, n
    <3> QED
      BY <3>1, WordFacts DEF NoIndex
  <2> HIDE DEF n
  <2> QED
    BY <2>1, <2>3, <2>4, <2>5
<1> QED
  BY <1>2, <1>3, <1>4, <1>5

\* The pixels of an image are the places in its bounds.
LEMMA PixelPlace ==
    ASSUME NEW img, Good(img), NEW i \in DOMAIN img.data
    PROVE  /\ i % img.width \in 0 .. img.width - 1
           /\ i \div img.width \in 0 .. img.height - 1
           /\ InBounds(img, i % img.width, i \div img.width)
           /\ ComputeIndex(img, i % img.width, i \div img.width) = i
<1>1. img.width \in Nat /\ img.height \in Nat /\ i \in 0 .. (img.width * img.height) - 1
  BY GoodFacts
<1>2. /\ i % img.width \in 0 .. img.width - 1 /\ i \div img.width \in 0 .. img.height - 1
      /\ i = ((i \div img.width) * img.width) + (i % img.width)
  BY <1>1, PlaceIs
<1> QED
  BY <1>2, Zenon DEF InBounds, ComputeIndex

LEMMA SetPixelsIs ==
    ASSUME NEW img, Good(img), NEW pixels,
           \A i \in DOMAIN img.data : i \in DOMAIN pixels => pixels[i] \in Colors
    PROVE  /\ Good(SetPixels(img, pixels))
           /\ SetPixels(img, pixels).width = img.width
           /\ SetPixels(img, pixels).height = img.height
           /\ \A i \in DOMAIN img.data :
                 SetPixels(img, pixels).data[i] =
                   IF i \in DOMAIN pixels THEN pixels[i] ELSE img.data[i]
<1> DEFINE n == img.width * img.height
           d == [i \in DOMAIN img.data |->
                   IF i \in DOMAIN pixels /\ i < n THEN pixels[i] ELSE img.data[i]]
           new == SetPixels(img, pixels)
<1>1. /\ n \in Nat /\ DOMAIN img.data = 0 .. n - 1
      /\ \A i \in DOMAIN img.data : img.data[i] \in Colors
  BY GoodFacts
<1>2. \A i \in DOMAIN img.data : i < n
  <2> HIDE DEF n
  <2> QED
    BY <1>1
<1>3. new = Image(img.width, img.height, d)
  <2>1. new = [img EXCEPT !.data = d]
    BY DEF SetPixels
  <2>2. img = [width |-> img.width, height |-> img.height, data |-> img.data]
    BY DEF Good, Image
  <2> HIDE DEF d, new
  <2> QED
    BY <2>1, <2>2 DEF Image
<1>4. \A i \in DOMAIN img.data : d[i] = IF i \in DOMAIN pixels THEN pixels[i] ELSE img.data[i]
  BY <1>2, Zenon
<1>5. d \in [0 .. n - 1 -> Colors]
  <2>1. \A i \in DOMAIN img.data : d[i] \in Colors
    BY <1>1, <1>4, Zenon
  <2>2. d = [i \in DOMAIN img.data |-> d[i]]
    OBVIOUS
  <2> HIDE DEF d, n
  <2> QED
    BY <1>1, <2>1, <2>2
<1> HIDE DEF d
<1>6. new.width = img.width /\ new.height = img.height /\ new.data = d
  BY <1>3 DEF Image
<1>7. Good(new)
  BY <1>3, <1>5, <1>6 DEF Good
<1> QED
  BY <1>4, <1>6, <1>7

\* new is old with a color blended in at the points, once each.
Drawn(new, old, points, color) ==
    /\ Good(new) /\ new.width = old.width /\ new.height = old.height
    /\ \A i \in DOMAIN old.data :
          new.data[i] = IF <<i % old.width, i \div old.width>> \in points
                          THEN BlendColors(color, old.data[i]) ELSE old.data[i]

LEMMA PointsDrawn ==
    ASSUME NEW img, Good(img), NEW color \in Colors, NEW points, NEW pixels,
           \A i \in DOMAIN img.data :
               /\ i \in DOMAIN pixels <=> <<i % img.width, i \div img.width>> \in points
               /\ i \in DOMAIN pixels => pixels[i] = BlendColors(color, img.data[i])
    PROVE  Drawn(SetPixels(img, pixels), img, points, color)
<1>1. \A i \in DOMAIN img.data : i \in DOMAIN pixels => pixels[i] \in Colors
  BY GoodFacts, BlendIs
<1>2. /\ Good(SetPixels(img, pixels))
      /\ SetPixels(img, pixels).width = img.width
      /\ SetPixels(img, pixels).height = img.height
      /\ \A i \in DOMAIN img.data :
            SetPixels(img, pixels).data[i] =
               IF i \in DOMAIN pixels THEN pixels[i] ELSE img.data[i]
  BY <1>1, SetPixelsIs
<1> QED
  BY <1>2, Zenon DEF Drawn

\* draw_pixel at the places of a loop, in C and in assembly.
LEMMA DrawPixelsIs ==
    ASSUME NEW img, Good(img), NEW color \in Colors, NEW points \in SUBSET (Int \X Int)
    PROVE  /\ Drawn(DrawPixels(img, points, color), img, points, color)
           /\ Drawn(AsmDrawPixels(img, points, color), img, points, color)
<1> DEFINE w == img.width
           inside == {q \in points : InBounds(img, q[1], q[2])}
           indices == {ComputeIndex(img, p[1], p[2]) : p \in inside}
           asm == {AsmComputeIndex(img, p[1], p[2]) : p \in points} \ {NoIndex}
           pixels == [i \in indices |-> BlendColors(color, img.data[i])]
           asmPixels == [i \in asm |-> AsmBlendColors(color, img.data[i])]
<1>1. ASSUME NEW p \in points
      PROVE  p[1] \in Int /\ p[2] \in Int /\ p = <<p[1], p[2]>>
  OBVIOUS
<1>2. ASSUME NEW i \in DOMAIN img.data
      PROVE  i \in indices <=> <<i % w, i \div w>> \in points
  <2>1. CASE i \in indices
    <3>1. PICK p \in points : InBounds(img, p[1], p[2]) /\ i = ComputeIndex(img, p[1], p[2])
      BY <2>1
    <3>2. i % w = p[1] /\ i \div w = p[2]
      BY <1>1, <3>1, ComputeIndexIs
    <3> QED
      BY <1>1, <2>1, <3>2
  <2>2. CASE <<i % w, i \div w>> \in points
    <3> DEFINE p == <<i % w, i \div w>>
    <3>1. InBounds(img, p[1], p[2]) /\ i = ComputeIndex(img, p[1], p[2])
      BY PixelPlace
    <3>2. p \in inside
      BY <2>2, <3>1
    <3>3. i \in indices
      BY <3>1, <3>2
    <3> QED
      BY <2>2, <3>3
  <2> QED
    BY <2>1, <2>2
<1>3. asm = indices
  <2>1. ASSUME NEW p \in points
        PROVE  /\ AsmComputeIndex(img, p[1], p[2]) = ComputeIndex(img, p[1], p[2])
               /\ ComputeIndex(img, p[1], p[2]) # NoIndex <=> InBounds(img, p[1], p[2])
    BY <1>1, ComputeIndexIs
  <2>2. ASSUME NEW n \in asm PROVE n \in indices
    <3>1. PICK p \in points : n = AsmComputeIndex(img, p[1], p[2])
      BY <2>2
    <3>2. n # NoIndex
      BY <2>2
    <3>3. p \in inside
      BY <2>1, <3>1, <3>2
    <3> QED
      BY <2>1, <3>1, <3>3
  <2>3. ASSUME NEW n \in indices PROVE n \in asm
    <3>1. PICK p \in inside : n = ComputeIndex(img, p[1], p[2])
      BY <2>3
    <3> QED
      BY <2>1, <3>1
  <2> QED
    BY <2>2, <2>3
<1> HIDE DEF indices, asm
<1>4. Drawn(SetPixels(img, pixels), img, points, color)
  <2>1. DOMAIN pixels = indices /\ \A i \in indices : pixels[i] = BlendColors(color, img.data[i])
    OBVIOUS
  <2> HIDE DEF pixels
  <2> QED
    BY <1>2, <2>1, PointsDrawn
<1>5. Drawn(SetPixels(img, asmPixels), img, points, color)
  <2>1. /\ DOMAIN asmPixels = indices
        /\ \A i \in indices : asmPixels[i] = AsmBlendColors(color, img.data[i])
    BY <1>3
  <2>2. \A i \in DOMAIN img.data :
           AsmBlendColors(color, img.data[i]) = BlendColors(color, img.data[i])
    BY GoodFacts, BlendIs
  <2> HIDE DEF asmPixels
  <2>3. \A i \in DOMAIN img.data :
           /\ i \in DOMAIN asmPixels <=> <<i % img.width, i \div img.width>> \in points
           /\ i \in DOMAIN asmPixels => asmPixels[i] = BlendColors(color, img.data[i])
    BY <1>2, <2>1, <2>2, Zenon
  <2> QED
    BY <2>3, PointsDrawn
<1>6. DrawPixels(img, points, color) = SetPixels(img, pixels)
  BY DEF DrawPixels, indices
<1>7. AsmDrawPixels(img, points, color) = SetPixels(img, asmPixels)
  BY DEF AsmDrawPixels, asm
<1> QED
  BY <1>4, <1>5, <1>6, <1>7

-----------------------------------------------------------------------------
(* Rectangles and circles                                                  *)

LEMMA BlendsWhere ==
    ASSUME NEW new, NEW old, Good(old), NEW points, NEW color \in Colors,
           Drawn(new, old, points, color)
    PROVE  \A i \in DOMAIN old.data :
              IF <<i % old.width, i \div old.width>> \in points
                THEN IsBlend(new.data[i], color, old.data[i])
                ELSE new.data[i] = old.data[i]
<1> SUFFICES ASSUME NEW i \in DOMAIN old.data
             PROVE  IF <<i % old.width, i \div old.width>> \in points
                      THEN IsBlend(new.data[i], color, old.data[i])
                      ELSE new.data[i] = old.data[i]
  OBVIOUS
<1>1. IsBlend(BlendColors(color, old.data[i]), color, old.data[i])
  BY GoodFacts, BlendIs
<1> QED
  BY <1>1, Zenon DEF Drawn

LEMMA NothingDrawn ==
    ASSUME NEW img, Good(img), NEW color
    PROVE  Drawn(img, img, {}, color)
  BY DEF Drawn

\* A coordinate as an unsigned word.
LEMMA UnsignedIs ==
    ASSUME NEW v \in Coordinates
    PROVE  /\ v >= 0 => Unsigned(v) = v
           /\ v < 0 => \A size \in Lengths : Unsigned(v) > size
<1>1. v \in Int /\ -(Word \div 2) <= v /\ v <= (Word \div 2) - 1
  BY WordFacts DEF Coordinates
<1>2. v >= 0 => v \in 0 .. Word - 1
  <2> DEFINE half == Word \div 2
  <2>1. half \in Nat /\ half + half <= Word /\ v <= half - 1 /\ Word \in Nat
    BY <1>1, WordFacts
  <2> HIDE DEF half
  <2> QED
    BY <1>1, <2>1
<1>3. v >= 0 => Unsigned(v) = v
  BY <1>2, WordFacts, SmallRemainder DEF Unsigned
<1>4. ASSUME v < 0 PROVE Unsigned(v) = v + Word /\ v + Word >= Word \div 2
  <2> DEFINE half == Word \div 2
             s == v + Word
  <2>1. /\ half \in Nat /\ half + half <= Word /\ -half <= v /\ Word \in Nat \ {0}
        /\ s = v + Word
    BY <1>1, WordFacts
  <2>2. s \in 0 .. Word - 1 /\ s >= half
    <3> HIDE DEF half, s
    <3> QED
      BY <1>1, <1>4, <2>1
  <2> DEFINE t == 0 - 1
             p == t * Word
  <2>3. t \in Int /\ p = -Word
    BY <2>1
  <2> HIDE DEF half, s, t
  <2>4. (t * Word + s) % Word = s
    BY <2>1, <2>2, <2>3, DivisionIs
  <2>5. t * Word + s = v
    <3>1. p + s = v
      <4> HIDE DEF p
      <4> QED
        BY <1>1, <2>1, <2>3
    <3> QED
      BY <3>1 DEF p
  <2>6. v % Word = s
    BY <2>4, <2>5, Zenon
  <2> QED
    BY <2>1, <2>2, <2>6 DEF Unsigned, half
<1>5. ASSUME v < 0, NEW size \in Lengths PROVE Unsigned(v) > size
  <2> DEFINE half == Word \div 2
  <2>1. half \in Nat /\ Unsigned(v) >= half /\ size \in 0 .. half - 1 /\ Unsigned(v) \in Int
    BY <1>1, <1>4, <1>5, WordFacts DEF Lengths
  <2> HIDE DEF half
  <2> QED
    BY <2>1
<1> QED
  BY <1>3, <1>5

LEMMA RectColumns ==
    ASSUME NEW v \in Coordinates, NEW e \in Coordinates, NEW size \in Lengths,
           NEW n \in 0 .. size - 1
    PROVE  n \in FromZero(v) .. RectEnd(e, size) - 1
             <=> v <= n /\ n < (IF e < 0 THEN size ELSE e)
<1>1. v \in Int /\ e \in Int /\ size \in Nat /\ n \in Nat
  BY WordFacts
<1>2. CASE e < 0
  <2>1. RectEnd(e, size) = size
    BY <1>2, UnsignedIs DEF RectEnd
  <2> QED
    BY <1>1, <1>2, <2>1 DEF FromZero
<1>3. CASE e >= 0
  <2>1. RectEnd(e, size) = IF e > size THEN size ELSE e
    BY <1>3, UnsignedIs DEF RectEnd
  <2> QED
    BY <1>1, <1>3, <2>1 DEF FromZero
<1> QED
  BY <1>1, <1>2, <1>3

LEMMA RectFacts ==
    ASSUME NEW rect \in Rects
    PROVE  /\ rect.x \in Coordinates /\ rect.y \in Coordinates
           /\ rect.width \in Coordinates /\ rect.height \in Coordinates
           /\ rect.x + rect.width \in Coordinates
           /\ rect.y + rect.height \in Coordinates
           /\ rect.x \in Int /\ rect.y \in Int /\ rect.width \in Int /\ rect.height \in Int
  BY RectsAssumption, WordFacts

\* Any rectangle, drawn in C or in assembly.
LEMMA RectangleIs ==
    ASSUME Good(canvas), version \in {"c", "asm"}, NEW rect \in Rects, NEW color \in Colors
    PROVE  Good(RectDrawn(rect, color)) /\ RectExact(rect, color)
<1> DEFINE w == canvas.width
           h == canvas.height
           new == RectDrawn(rect, color)
           Inside(x, y) == /\ rect.width > 0 /\ rect.height > 0
                           /\ rect.x <= x /\ x < FarEdge(rect.x, rect.width, w)
                           /\ rect.y <= y /\ y < FarEdge(rect.y, rect.height, h)
<1>1. w \in Lengths /\ h \in Lengths
  BY DEF Good
<1>2. \E points \in SUBSET (Int \X Int) :
         /\ Drawn(new, canvas, points, color)
         /\ \A x \in 0 .. w - 1, y \in 0 .. h - 1 : <<x, y>> \in points <=> Inside(x, y)
  <2>1. CASE version = "c" /\ (rect.width <= 0 \/ rect.height <= 0)
    <3>1. new = canvas
      BY <2>1 DEF RectDrawn, DrawRect
    <3>2. Drawn(new, canvas, {}, color)
      BY <3>1, NothingDrawn
    <3>3. \A x, y : ~Inside(x, y)
      BY <2>1, RectFacts
    <3> QED
      BY <3>2, <3>3
  <2>2. CASE version = "c" /\ ~(rect.width <= 0 \/ rect.height <= 0)
    <3> DEFINE columns == FromZero(rect.x) .. RectEnd(rect.x + rect.width, w) - 1
               rows == FromZero(rect.y) .. RectEnd(rect.y + rect.height, h) - 1
    <3>1. new = DrawPixels(canvas, columns \X rows, color)
      BY <2>2 DEF RectDrawn, DrawRect
    <3>2. columns \X rows \in SUBSET (Int \X Int)
      OBVIOUS
    <3>3. ASSUME NEW x \in 0 .. w - 1 PROVE x \in columns <=>
                   rect.x <= x /\ x < FarEdge(rect.x, rect.width, w)
      BY <1>1, <2>2, RectFacts, RectColumns DEF FarEdge
    <3>4. ASSUME NEW y \in 0 .. h - 1 PROVE y \in rows <=>
                   rect.y <= y /\ y < FarEdge(rect.y, rect.height, h)
      BY <1>1, <2>2, RectFacts, RectColumns DEF FarEdge
    <3>5. rect.width > 0 /\ rect.height > 0
      BY <2>2, RectFacts
    <3> HIDE DEF columns, rows, new
    <3>6. Drawn(new, canvas, columns \X rows, color)
      BY <3>1, <3>2, DrawPixelsIs
    <3> QED
      BY <3>2, <3>3, <3>4, <3>5, <3>6
  <2>3. CASE version = "asm"
    <3> DEFINE columns == rect.x .. rect.x + rect.width - 1
               rows == rect.y .. rect.y + rect.height - 1
    <3>1. new = AsmDrawPixels(canvas, columns \X rows, color)
      BY <2>3 DEF RectDrawn, AsmDrawRect
    <3>2. columns \X rows \in SUBSET (Int \X Int)
      OBVIOUS
    <3>3. ASSUME NEW x \in Int, NEW y \in Int
          PROVE <<x, y>> \in columns \X rows <=> Inside(x, y)
      <4>1. /\ FarEdge(rect.x, rect.width, w) = rect.x + rect.width
            /\ FarEdge(rect.y, rect.height, h) = rect.y + rect.height
        BY <2>3 DEF FarEdge
      <4>2. x \in columns <=> rect.x <= x /\ x < rect.x + rect.width
        BY RectFacts
      <4>3. y \in rows <=> rect.y <= y /\ y < rect.y + rect.height
        BY RectFacts
      <4>4. rect.x <= x /\ x < rect.x + rect.width => rect.width > 0
        BY RectFacts
      <4>5. rect.y <= y /\ y < rect.y + rect.height => rect.height > 0
        BY RectFacts
      <4> HIDE DEF columns, rows
      <4> QED
        BY <4>1, <4>2, <4>3, <4>4, <4>5
    <3> HIDE DEF columns, rows, new, Inside
    <3>4. Drawn(new, canvas, columns \X rows, color)
      BY <3>1, <3>2, DrawPixelsIs
    <3>5. \A x \in 0 .. w - 1, y \in 0 .. h - 1 :
             <<x, y>> \in columns \X rows <=> Inside(x, y)
      <4> SUFFICES ASSUME NEW x \in 0 .. w - 1, NEW y \in 0 .. h - 1
                   PROVE  <<x, y>> \in columns \X rows <=> Inside(x, y)
        OBVIOUS
      <4>1. x \in Int /\ y \in Int
        OBVIOUS
      <4> QED
        BY <3>3, <4>1, Zenon
    <3> QED
      BY <3>2, <3>4, <3>5
  <2> QED
    BY <2>1, <2>2, <2>3
<1>3. PICK points \in SUBSET (Int \X Int) :
         /\ Drawn(new, canvas, points, color)
         /\ \A x \in 0 .. w - 1, y \in 0 .. h - 1 : <<x, y>> \in points <=> Inside(x, y)
  BY <1>2
<1> HIDE DEF new
<1>4. Good(new) /\ new.width = w /\ new.height = h
  BY <1>3 DEF Drawn
<1>5. ASSUME NEW i \in DOMAIN canvas.data
      PROVE  IF Inside(i % w, i \div w) THEN IsBlend(new.data[i], color, canvas.data[i])
                                        ELSE new.data[i] = canvas.data[i]
  <2>1. i % w \in 0 .. w - 1 /\ i \div w \in 0 .. h - 1
    BY PixelPlace
  <2>2. <<i % w, i \div w>> \in points <=> Inside(i % w, i \div w)
    BY <1>3, <2>1
  <2>3. IF <<i % w, i \div w>> \in points THEN IsBlend(new.data[i], color, canvas.data[i])
                                          ELSE new.data[i] = canvas.data[i]
    BY <1>3, BlendsWhere
  <2> HIDE DEF Inside
  <2> QED
    BY <2>2, <2>3
<1> QED
  BY <1>4, <1>5 DEF RectExact, IsDrawn, new

LEMMA MinOfTwo == \A a, b \in Int : Min({a, b}) = IF a <= b THEN a ELSE b
BY DEF Min

LEMMA Squares ==
    ASSUME NEW a \in Int, NEW r \in Nat
    PROVE  a * a \in Nat /\ (a * a <= r * r => -r <= a /\ a <= r)
<1>1. CASE a >= 0
  <2>1. a * a \in Nat
    BY <1>1, TimesNat
  <2>2. ASSUME a > r PROVE a * a > r * r
    <3>1. (r + 1) * a <= a * a /\ a * r <= a * a
      BY <1>1, <2>2, TimesOrder
    <3>2. (r + 1) * a = r * a + a /\ r * a = a * r
      BY TimesAdd, Times
    <3>3. r * r <= a * r
      BY <2>2, TimesOrder
    <3>4. r * r \in Int /\ a * r \in Int
      BY Times
    <3> DEFINE aa == a * a
               rr == r * r
               ar == a * r
    <3>5. ar + a <= aa /\ rr <= ar /\ aa \in Nat /\ rr \in Int /\ ar \in Int
      BY <2>1, <3>1, <3>2, <3>3, <3>4
    <3> HIDE DEF aa, rr, ar
    <3>6. aa > rr
      BY <2>2, <3>5
    <3> QED
      BY <3>6 DEF aa, rr
  <2>3. a > r \/ a <= r
    OBVIOUS
  <2>4. r * r \in Nat
    BY TimesNat
  <2>5. a * a > r * r => ~(a * a <= r * r)
    BY <2>1, <2>4
  <2>6. -r <= a
    BY <1>1
  <2> QED
    BY <2>1, <2>2, <2>3, <2>5, <2>6
<1>2. CASE a < 0
  <2> DEFINE b == -a
  <2>1. b \in Nat /\ b > 0 /\ b * b = a * a
    BY <1>2
  <2>2. b * b \in Nat
    BY <2>1, TimesNat
  <2>3. ASSUME b > r PROVE b * b > r * r
    <3>1. (r + 1) * b <= b * b
      BY <2>1, <2>3, TimesOrder
    <3>2. (r + 1) * b = r * b + b /\ r * b = b * r
      BY <2>1, TimesAdd, Times
    <3>3. r * r <= b * r
      BY <2>1, <2>3, TimesOrder
    <3>4. r * r \in Int /\ b * r \in Int
      BY <2>1, Times
    <3> DEFINE bb == b * b
               rr == r * r
               br == b * r
    <3>5. br + b <= bb /\ rr <= br /\ bb \in Nat /\ rr \in Int /\ br \in Int
      BY <2>2, <3>1, <3>2, <3>3, <3>4
    <3> HIDE DEF bb, rr, br
    <3>6. bb > rr
      BY <2>1, <2>3, <3>5
    <3> QED
      BY <3>6 DEF bb, rr
  <2>4. r * r \in Nat
    BY TimesNat
  <2>5. a * a > r * r => ~(a * a <= r * r)
    BY <2>1, <2>2, <2>4
  <2>6. b > r \/ (-r <= a /\ a <= r)
    BY <1>2
  <2> HIDE DEF b
  <2> QED
    BY <2>1, <2>2, <2>3, <2>5, <2>6
<1> QED
  BY <1>1, <1>2

LEMMA Opposite == \A a, b \in Int : (a - b) * (a - b) = (b - a) * (b - a) /\ a - b \in Int
OBVIOUS

LEMMA CircleColumns ==
    ASSUME NEW v \in Int, NEW r \in Nat, v + r \in Coordinates, NEW size \in Lengths,
           NEW n \in 0 .. size - 1, -r <= v - n, v - n <= r
    PROVE  /\ n \in FromZero(v - r) .. CircleEnd(v + r, size)
           /\ n \in (IF r > v THEN 0 ELSE v - r) .. Min({v + r, size - 1})
<1>1. size \in Nat /\ n \in Nat /\ v + r \in Int /\ v + r >= n /\ v + r >= 0 /\ v - r <= n
  BY WordFacts
<1>2. Unsigned(v + r) = v + r
  BY <1>1, UnsignedIs
<1>3. CircleEnd(v + r, size) = IF v + r >= size THEN size - 1 ELSE v + r
  BY <1>2 DEF CircleEnd
<1>4. n \in FromZero(v - r) .. CircleEnd(v + r, size)
  BY <1>1, <1>3 DEF FromZero
<1>5. Min({v + r, size - 1}) = IF v + r <= size - 1 THEN v + r ELSE size - 1
  BY <1>1, MinOfTwo
<1>6. n \in (IF r > v THEN 0 ELSE v - r) .. Min({v + r, size - 1})
  BY <1>1, <1>5
<1> QED
  BY <1>4, <1>6

LEMMA PointFacts ==
    ASSUME NEW p \in Points
    PROVE  /\ p[1] \in Coordinates /\ p[2] \in Coordinates /\ p[1] \in Int /\ p[2] \in Int
           /\ \A r \in Rects : /\ p[1] + r.width \in Coordinates
                               /\ p[2] + r.height \in Coordinates
           /\ \A r \in Radii : p[1] + r \in Coordinates /\ p[2] + r \in Coordinates
  BY PointsAssumption, WordFacts

\* Any circle, drawn in C or in assembly.
LEMMA CircleIs ==
    ASSUME Good(canvas), version \in {"c", "asm"}, NEW p \in Points, NEW r \in Radii,
           NEW color \in Colors
    PROVE  Good(CircleDrawn(p, r, color)) /\ CircleExact(p, r, color)
<1> DEFINE w == canvas.width
           h == canvas.height
           new == CircleDrawn(p, r, color)
           Inside(x, y) ==
              /\ r >= 0
              /\ ((x - p[1]) * (x - p[1])) + ((y - p[2]) * (y - p[2])) <= r * r
           Near(q) ==
              ((p[1] - q[1]) * (p[1] - q[1])) + ((p[2] - q[2]) * (p[2] - q[2])) <= r * r
<1>1. w \in Lengths /\ h \in Lengths /\ w \in Nat /\ h \in Nat
  BY WordFacts DEF Good
<1>2. r \in Int /\ p[1] \in Int /\ p[2] \in Int
  BY RadiiAssumption, PointFacts, WordFacts
<1>3. ASSUME NEW x \in Int, NEW y \in Int, r >= 0
      PROVE  Near(<<x, y>>) <=> Inside(x, y)
  BY <1>2, <1>3, Opposite
<1>4. ASSUME NEW x \in Int, NEW y \in Int, r >= 0, Near(<<x, y>>)
      PROVE  /\ -r <= p[1] - x /\ p[1] - x <= r
             /\ -r <= p[2] - y /\ p[2] - y <= r
  <2> DEFINE a == p[1] - x
             b == p[2] - y
             aa == a * a
             bb == b * b
             rr == r * r
  <2>1. a \in Int /\ b \in Int /\ r \in Nat
    BY <1>2, <1>4
  <2>2. aa \in Nat /\ bb \in Nat /\ rr \in Nat /\ aa + bb <= rr
    <3>1. aa \in Nat /\ bb \in Nat /\ rr \in Nat
      <4> HIDE DEF a, b
      <4> QED
        BY <2>1, Squares
    <3>2. aa + bb <= rr
      BY <1>4
    <3> QED
      BY <3>1, <3>2, Zenon
  <2>3. aa <= rr /\ bb <= rr
    <3> HIDE DEF aa, bb, rr
    <3> QED
      BY <2>2
  <2>4. -r <= a /\ a <= r /\ -r <= b /\ b <= r
    <3> HIDE DEF a, b
    <3> QED
      BY <2>1, <2>3, Squares
  <2> QED
    BY <2>4
<1>5. \E points \in SUBSET (Int \X Int) :
         /\ Drawn(new, canvas, points, color)
         /\ \A x \in 0 .. w - 1, y \in 0 .. h - 1 : <<x, y>> \in points <=> Inside(x, y)
  <2>1. CASE r < 0
    <3>1. new = canvas
      BY <2>1 DEF CircleDrawn, DrawCircle, AsmDrawCircle
    <3>2. Drawn(new, canvas, {}, color)
      BY <3>1, NothingDrawn
    <3>3. ~(r >= 0)
      BY <1>2, <2>1
    <3> QED
      BY <3>2, <3>3
  <2>2. CASE r >= 0
    <3> DEFINE columns == FromZero(p[1] - r) .. CircleEnd(p[1] + r, w)
               rows == FromZero(p[2] - r) .. CircleEnd(p[2] + r, h)
               asmColumns == (IF r > p[1] THEN 0 ELSE p[1] - r) .. Min({p[1] + r, w - 1})
               asmRows == (IF r > p[2] THEN 0 ELSE p[2] - r) .. Min({p[2] + r, h - 1})
               points == {q \in columns \X rows : Near(q)}
               asmPoints == {q \in asmColumns \X asmRows : Near(q)}
    <3>1. points \in SUBSET (Int \X Int) /\ asmPoints \in SUBSET (Int \X Int)
      <4>1. /\ columns \subseteq Int /\ rows \subseteq Int
            /\ asmColumns \subseteq Int /\ asmRows \subseteq Int
        OBVIOUS
      <4> HIDE DEF columns, rows, asmColumns, asmRows, Near
      <4> QED
        BY <4>1
    <3>2. new = IF version = "c" THEN DrawPixels(canvas, points, color)
                                 ELSE AsmDrawPixels(canvas, asmPoints, color)
      <4>1. ~(r < 0)
        BY <1>2, <2>2
      <4> QED
        BY <4>1 DEF CircleDrawn, DrawCircle, AsmDrawCircle
    <3>3. ASSUME NEW x \in 0 .. w - 1, NEW y \in 0 .. h - 1
          PROVE  /\ <<x, y>> \in points <=> Inside(x, y)
                 /\ <<x, y>> \in asmPoints <=> Inside(x, y)
      <4>1. x \in Int /\ y \in Int /\ r \in Nat
        BY <1>2, <2>2
      <4>2. Near(<<x, y>>) <=> Inside(x, y)
        BY <1>3, <2>2, <4>1
      <4>3. ASSUME Near(<<x, y>>)
            PROVE  /\ x \in columns /\ x \in asmColumns /\ y \in rows /\ y \in asmRows
        <5>1. /\ -r <= p[1] - x /\ p[1] - x <= r
              /\ -r <= p[2] - y /\ p[2] - y <= r
          BY <1>4, <2>2, <4>1, <4>3
        <5>2. p[1] + r \in Coordinates /\ p[2] + r \in Coordinates
          BY PointFacts
        <5> QED
          BY <1>1, <1>2, <4>1, <5>1, <5>2, CircleColumns
      <4> HIDE DEF columns, rows, asmColumns, asmRows, Near, Inside
      <4> QED
        BY <4>2, <4>3
    <3>4. Drawn(new, canvas, IF version = "c" THEN points ELSE asmPoints, color)
      <4> HIDE DEF points, asmPoints, new
      <4> QED
        BY <3>1, <3>2, DrawPixelsIs
    <3> HIDE DEF points, asmPoints, new, Inside
    <3> QED
      BY <3>1, <3>3, <3>4
  <2> QED
    BY <1>2, <2>1, <2>2
<1>6. PICK points \in SUBSET (Int \X Int) :
         /\ Drawn(new, canvas, points, color)
         /\ \A x \in 0 .. w - 1, y \in 0 .. h - 1 : <<x, y>> \in points <=> Inside(x, y)
  <2> HIDE DEF new, Inside
  <2> QED
    BY <1>5
<1> HIDE DEF new
<1>7. Good(new) /\ new.width = w /\ new.height = h
  BY <1>6 DEF Drawn
<1>8. ASSUME NEW i \in DOMAIN canvas.data
      PROVE  IF Inside(i % w, i \div w) THEN IsBlend(new.data[i], color, canvas.data[i])
                                        ELSE new.data[i] = canvas.data[i]
  <2>1. i % w \in 0 .. w - 1 /\ i \div w \in 0 .. h - 1
    BY PixelPlace
  <2> HIDE DEF Inside
  <2>2. <<i % w, i \div w>> \in points <=> Inside(i % w, i \div w)
    BY <1>6, <2>1
  <2>3. IF <<i % w, i \div w>> \in points THEN IsBlend(new.data[i], color, canvas.data[i])
                                          ELSE new.data[i] = canvas.data[i]
    BY <1>6, BlendsWhere
  <2> QED
    BY <2>2, <2>3
<1> QED
  BY <1>7, <1>8 DEF CircleExact, IsDrawn, new

-----------------------------------------------------------------------------
(* Tiles                                                                   *)

LEMMA MinOfThree ==
    ASSUME NEW a \in Int, NEW b \in Int, NEW c \in Int
    PROVE  /\ Min({a, b, c}) \in {a, b, c}
           /\ Min({a, b, c}) <= a /\ Min({a, b, c}) <= b /\ Min({a, b, c}) <= c
<1>1. \E m \in {a, b, c} : \A y \in {a, b, c} : m <= y
  <2>1. \E m \in {a, b, c} : m <= a /\ m <= b /\ m <= c
    OBVIOUS
  <2> QED
    BY <2>1
<1>2. Min({a, b, c}) \in {a, b, c} /\ \A y \in {a, b, c} : Min({a, b, c}) <= y
  BY <1>1, Zenon DEF Min
<1> QED
  BY <1>2

\* The copies that take each of some places of an image from the place that
\* lies a given way off in the map.
Moves(img, map, places, dx, dy) ==
    {<<ComputeIndex(img, q[1], q[2]), ComputeIndex(map, q[1] + dx, q[2] + dy)>> :
        q \in places}

LEMMA MovesCrash ==
    ASSUME NEW img, Good(img), NEW map, Good(map), NEW places \in SUBSET (Int \X Int),
           NEW dx \in Int, NEW dy \in Int
    PROVE  ~TileCrashes(Moves(img, map, places, dx, dy))
             <=> \A q \in places : /\ InBounds(img, q[1], q[2])
                                   /\ InBounds(map, q[1] + dx, q[2] + dy)
<1>1. ASSUME NEW q \in places
      PROVE  /\ ComputeIndex(img, q[1], q[2]) # NoIndex <=> InBounds(img, q[1], q[2])
             /\ ComputeIndex(map, q[1] + dx, q[2] + dy) # NoIndex
                  <=> InBounds(map, q[1] + dx, q[2] + dy)
  <2>1. q[1] \in Int /\ q[2] \in Int /\ q[1] + dx \in Int /\ q[2] + dy \in Int
    OBVIOUS
  <2> QED
    BY <2>1, ComputeIndexIs
<1>2. TileCrashes(Moves(img, map, places, dx, dy))
        <=> \E q \in places : \/ ComputeIndex(img, q[1], q[2]) = NoIndex
                              \/ ComputeIndex(map, q[1] + dx, q[2] + dy) = NoIndex
  <2> DEFINE Copy(q) == <<ComputeIndex(img, q[1], q[2]),
                          ComputeIndex(map, q[1] + dx, q[2] + dy)>>
  <2>1. \A c : c \in Moves(img, map, places, dx, dy) <=> \E q \in places : c = Copy(q)
    BY Zenon DEF Moves
  <2>2. \A q \in places : /\ Copy(q)[1] = ComputeIndex(img, q[1], q[2])
                          /\ Copy(q)[2] = ComputeIndex(map, q[1] + dx, q[2] + dy)
    OBVIOUS
  <2> HIDE DEF Copy
  <2>3. TileCrashes(Moves(img, map, places, dx, dy))
          <=> \E q \in places : Copy(q)[1] = NoIndex \/ Copy(q)[2] = NoIndex
    BY <2>1, Zenon DEF TileCrashes
  <2> QED
    BY <2>2, <2>3
<1> QED
  BY <1>1, <1>2

\* new is img with each of the places taken from the map.
Moved(new, img, map, places, dx, dy) ==
    /\ Good(new) /\ new.width = img.width /\ new.height = img.height
    /\ \A i \in DOMAIN img.data :
          new.data[i] =
            IF <<i % img.width, i \div img.width>> \in places
              THEN map.data[(((i \div img.width) + dy) * map.width)
                              + ((i % img.width) + dx)]
              ELSE img.data[i]

LEMMA MovesDrawn ==
    ASSUME NEW img, Good(img), NEW map, Good(map), NEW places \in SUBSET (Int \X Int),
           NEW dx \in Int, NEW dy \in Int,
           ~TileCrashes(Moves(img, map, places, dx, dy))
    PROVE  Moved(DrawTile(img, Moves(img, map, places, dx, dy), map),
                 img, map, places, dx, dy)
<1> DEFINE w == img.width
           copies == Moves(img, map, places, dx, dy)
           targets == {c[1] : c \in copies}
           pixels == [i \in targets |-> map.data[(CHOOSE c \in copies : c[1] = i)[2]]]
           Source(i) == (((i \div w) + dy) * map.width) + ((i % w) + dx)
<1>1. ASSUME NEW q \in places
      PROVE  /\ q[1] \in Int /\ q[2] \in Int /\ q = <<q[1], q[2]>>
             /\ InBounds(img, q[1], q[2]) /\ InBounds(map, q[1] + dx, q[2] + dy)
             /\ ComputeIndex(img, q[1], q[2]) \in DOMAIN img.data
             /\ ComputeIndex(img, q[1], q[2]) % w = q[1]
             /\ ComputeIndex(img, q[1], q[2]) \div w = q[2]
             /\ ComputeIndex(map, q[1] + dx, q[2] + dy) \in DOMAIN map.data
             /\ ComputeIndex(map, q[1] + dx, q[2] + dy)
                  = ((q[2] + dy) * map.width) + (q[1] + dx)
  <2>1. q[1] \in Int /\ q[2] \in Int /\ q = <<q[1], q[2]>>
    OBVIOUS
  <2>2. InBounds(img, q[1], q[2]) /\ InBounds(map, q[1] + dx, q[2] + dy)
    BY MovesCrash
  <2>3. q[1] + dx \in Int /\ q[2] + dy \in Int
    BY <2>1
  <2>4. /\ ComputeIndex(img, q[1], q[2]) \in DOMAIN img.data
        /\ ComputeIndex(img, q[1], q[2]) % w = q[1]
        /\ ComputeIndex(img, q[1], q[2]) \div w = q[2]
    BY <2>1, <2>2, ComputeIndexIs
  <2>5. /\ ComputeIndex(map, q[1] + dx, q[2] + dy) \in DOMAIN map.data
        /\ ComputeIndex(map, q[1] + dx, q[2] + dy)
             = ((q[2] + dy) * map.width) + (q[1] + dx)
    BY <2>2, <2>3, ComputeIndexIs
  <2> QED
    BY <2>1, <2>2, <2>4, <2>5
<1>2. ASSUME NEW c \in copies
      PROVE  /\ c[1] \in DOMAIN img.data
             /\ <<c[1] % w, c[1] \div w>> \in places
             /\ c[2] = Source(c[1]) /\ c[2] \in DOMAIN map.data
  <2>1. PICK q \in places :
           c = <<ComputeIndex(img, q[1], q[2]), ComputeIndex(map, q[1] + dx, q[2] + dy)>>
    BY DEF Moves
  <2>2. c[1] = ComputeIndex(img, q[1], q[2]) /\ c[2] = ComputeIndex(map, q[1] + dx, q[2] + dy)
    BY <2>1
  <2>3. c[1] % w = q[1] /\ c[1] \div w = q[2]
    BY <1>1, <2>2
  <2>4. c[2] = Source(c[1])
    BY <1>1, <2>2, <2>3, Zenon
  <2>5. <<c[1] % w, c[1] \div w>> \in places
    BY <1>1, <2>3, Zenon
  <2> HIDE DEF Source
  <2> QED
    BY <1>1, <2>2, <2>4, <2>5
<1>3. ASSUME NEW i \in DOMAIN img.data
      PROVE  i \in targets <=> <<i % w, i \div w>> \in places
  <2>1. ASSUME <<i % w, i \div w>> \in places PROVE i \in targets
    <3> DEFINE q == <<i % w, i \div w>>
               c == <<ComputeIndex(img, q[1], q[2]), ComputeIndex(map, q[1] + dx, q[2] + dy)>>
    <3>1. c \in copies
      BY <2>1, Zenon DEF Moves
    <3>2. c[1] = i
      BY PixelPlace
    <3> HIDE DEF c, copies
    <3> QED
      BY <3>1, <3>2
  <2>2. ASSUME i \in targets PROVE <<i % w, i \div w>> \in places
    BY <1>2, <2>2
  <2> QED
    BY <2>1, <2>2
<1>4. ASSUME NEW i \in targets
      PROVE  pixels[i] = map.data[Source(i)] /\ Source(i) \in DOMAIN map.data
  <2> DEFINE c == CHOOSE c \in copies : c[1] = i
  <2>1. \E k \in copies : k[1] = i
    OBVIOUS
  <2> HIDE DEF copies
  <2>2. c \in copies /\ c[1] = i
    BY <2>1, Zenon
  <2>3. pixels[i] = map.data[c[2]]
    OBVIOUS
  <2>4. c[2] = Source(i) /\ c[2] \in DOMAIN map.data
    BY <1>2, <2>2, Zenon
  <2> HIDE DEF c, pixels, Source
  <2> QED
    BY <2>3, <2>4
<1>5. \A i \in DOMAIN img.data : i \in DOMAIN pixels => pixels[i] \in Colors
  <2>1. DOMAIN pixels = targets
    OBVIOUS
  <2> HIDE DEF pixels, targets, Source
  <2> QED
    BY <1>4, <2>1, GoodFacts
<1>6. DOMAIN pixels = targets /\ DrawTile(img, copies, map) = SetPixels(img, pixels)
  BY DEF DrawTile
<1> HIDE DEF pixels, targets, copies
<1>7. LET new == SetPixels(img, pixels)
      IN  /\ Good(new) /\ new.width = img.width /\ new.height = img.height
          /\ \A i \in DOMAIN img.data :
                new.data[i] = IF i \in targets THEN pixels[i] ELSE img.data[i]
  BY <1>5, <1>6, SetPixelsIs
<1>8. ASSUME NEW i \in DOMAIN img.data
      PROVE  SetPixels(img, pixels).data[i] =
               IF <<i % w, i \div w>> \in places THEN map.data[Source(i)] ELSE img.data[i]
  <2> HIDE DEF Source
  <2> QED
    BY <1>3, <1>4, <1>7
<1>9. /\ Good(DrawTile(img, copies, map))
      /\ DrawTile(img, copies, map).width = img.width
      /\ DrawTile(img, copies, map).height = img.height
      /\ \A i \in DOMAIN img.data :
            DrawTile(img, copies, map).data[i] =
               IF <<i % w, i \div w>> \in places THEN map.data[Source(i)] ELSE img.data[i]
  <2> HIDE DEF Source
  <2> QED
    BY <1>6, <1>7, <1>8
<1> QED
  BY <1>9, Zenon DEF copies, Moved

\* What draw_tile does to one axis: the columns or rows it copies to are
\* those of the tile that are in the image.
Spans(s, at, size, from, imgSize, mapSize) ==
    /\ s.skip \in Int /\ s.to \in Int /\ s.count \in Int /\ s.to - s.skip = at
    /\ from >= 0 /\ from + size <= mapSize /\ at + size >= 0 =>
         \A n \in Int : n \in s.to .. s.to + s.count - 1 <=>
                          n \in 0 .. imgSize - 1 /\ at <= n /\ n < at + size

LEMMA SpanIs ==
    ASSUME NEW at \in Coordinates, NEW size \in Coordinates, at + size \in Coordinates,
           NEW from \in Coordinates, NEW imgSize \in Lengths, NEW mapSize \in Lengths
    PROVE  Spans(TileSpan(at, size, from, imgSize, mapSize),
                 at, size, from, imgSize, mapSize)
<1> DEFINE skip == IF at < 0 THEN -at ELSE 0
           to == FromZero(at)
           clipped == IF Unsigned(to + size - skip) > imgSize
                        THEN imgSize - to ELSE size - skip
           least == Min({clipped, mapSize - from, imgSize - to})
           count == IF clipped <= 0 THEN 0 ELSE least
<1>1. at \in Int /\ size \in Int /\ from \in Int /\ imgSize \in Nat /\ mapSize \in Nat
  BY WordFacts
<1>2. skip \in Int /\ to \in Int /\ to - skip = at /\ to + size - skip = at + size /\ to >= 0
      /\ (at >= 0 => to = at) /\ (at < 0 => to = 0)
  BY <1>1 DEF FromZero
<1>3. clipped = IF Unsigned(at + size) > imgSize THEN imgSize - to ELSE size - skip
  BY <1>2
<1> HIDE DEF skip, to
<1>4. clipped \in Int
  BY <1>1, <1>2, <1>3
<1> HIDE DEF clipped
<1>5. /\ least \in {clipped, mapSize - from, imgSize - to}
      /\ least <= clipped /\ least <= mapSize - from /\ least <= imgSize - to
  <2>1. mapSize - from \in Int /\ imgSize - to \in Int
    BY <1>1, <1>2
  <2> QED
    BY <1>4, <2>1, MinOfThree
<1> HIDE DEF least
<1>6. least \in Int
  BY <1>1, <1>2, <1>4, <1>5
<1>7. count \in Int
  BY <1>6
<1>8. ASSUME from >= 0, from + size <= mapSize, at + size >= 0, NEW n \in Int
      PROVE  n \in to .. to + count - 1 <=> n \in 0 .. imgSize - 1 /\ at <= n /\ n < at + size
  <2>1. Unsigned(at + size) = at + size
    BY <1>8, UnsignedIs
  <2>2. clipped = IF at + size > imgSize THEN imgSize - to ELSE size - skip
    BY <1>3, <2>1
  <2>3. size - skip = (at + size) - to /\ size - skip <= size
    BY <1>1, <1>2 DEF skip
  <2>4. clipped > 0 => least = clipped
    BY <1>1, <1>2, <1>5, <1>8, <2>2, <2>3
  <2>5. n \in to .. to + count - 1 <=> to <= n /\ n < to + clipped
    BY <1>2, <1>4, <1>6, <2>4
  <2>6. to <= n <=> 0 <= n /\ at <= n
    BY <1>1, <1>2
  <2>7. n < to + clipped <=> n < imgSize /\ n < at + size
    BY <1>1, <1>2, <1>4, <2>2, <2>3
  <2> QED
    BY <1>1, <2>5, <2>6, <2>7
<1>9. TileSpan(at, size, from, imgSize, mapSize)
        = [skip |-> skip, to |-> to, count |-> count]
  BY DEF TileSpan, skip, to, clipped, least
<1> HIDE DEF count
<1> QED
  BY <1>2, <1>7, <1>8, <1>9 DEF Spans

\* The copies of draw_tile are moves to the places of a rectangle.
TilePlaces(places, img, map, p, tile) ==
    /\ TileCopies(img, p[1], p[2], map, tile)
         = Moves(img, map, places, tile.x - p[1], tile.y - p[2])
    /\ EndsOnImage(p, tile) =>
         \A x, y \in Int :
            <<x, y>> \in places <=> /\ InBounds(img, x, y) /\ Within(map, tile, 0)
                                    /\ Covers(p, tile, x, y)

LEMMA TileMoves ==
    ASSUME NEW img, Good(img), NEW map, Good(map), NEW p \in Points, NEW tile \in Rects
    PROVE  \E places \in SUBSET (Int \X Int) : TilePlaces(places, img, map, p, tile)
<1> DEFINE h == TileSpan(p[1], tile.width, tile.x, img.width, map.width)
           v == TileSpan(p[2], tile.height, tile.y, img.height, map.height)
           columns == h.to .. h.to + h.count - 1
           rows == v.to .. v.to + v.count - 1
           dx == tile.x - p[1]
           dy == tile.y - p[2]
           copies == TileCopies(img, p[1], p[2], map, tile)
<1>1. /\ p[1] \in Coordinates /\ p[2] \in Coordinates
      /\ p[1] + tile.width \in Coordinates /\ p[2] + tile.height \in Coordinates
      /\ p[1] \in Int /\ p[2] \in Int
  BY PointFacts
<1>2. /\ tile.x \in Coordinates /\ tile.y \in Coordinates
      /\ tile.width \in Coordinates /\ tile.height \in Coordinates
      /\ tile.x + tile.width \in Coordinates /\ tile.y + tile.height \in Coordinates
      /\ tile.x \in Int /\ tile.y \in Int /\ tile.width \in Int /\ tile.height \in Int
  BY RectFacts
<1>3. /\ img.width \in Lengths /\ img.height \in Lengths
      /\ map.width \in Lengths /\ map.height \in Lengths
      /\ img.width \in Nat /\ img.height \in Nat /\ map.width \in Nat /\ map.height \in Nat
  BY GoodFacts DEF Good
<1>4. /\ h.skip \in Int /\ h.to \in Int /\ h.count \in Int /\ h.to - h.skip = p[1]
      /\ tile.x >= 0 /\ tile.x + tile.width <= map.width /\ p[1] + tile.width >= 0 =>
           \A n \in Int : n \in columns <=> /\ n \in 0 .. img.width - 1
                                            /\ p[1] <= n /\ n < p[1] + tile.width
  <2>1. Spans(h, p[1], tile.width, tile.x, img.width, map.width)
    BY <1>1, <1>2, <1>3, SpanIs
  <2> HIDE DEF h
  <2> QED
    BY <2>1 DEF Spans
<1>5. /\ v.skip \in Int /\ v.to \in Int /\ v.count \in Int /\ v.to - v.skip = p[2]
      /\ tile.y >= 0 /\ tile.y + tile.height <= map.height /\ p[2] + tile.height >= 0 =>
           \A n \in Int : n \in rows <=> /\ n \in 0 .. img.height - 1
                                         /\ p[2] <= n /\ n < p[2] + tile.height
  <2>1. Spans(v, p[2], tile.height, tile.y, img.height, map.height)
    BY <1>1, <1>2, <1>3, SpanIs
  <2> HIDE DEF v
  <2> QED
    BY <2>1 DEF Spans
<1> HIDE DEF h, v
<1>6. TileRefused(map, tile) <=>
        \/ tile.x < 0 \/ tile.x + tile.width < 0 \/ tile.x + tile.width > map.width
        \/ tile.y < 0 \/ tile.y + tile.height < 0 \/ tile.y + tile.height > map.height
  <2>1. Unsigned(tile.x + tile.width) > map.width
          <=> tile.x + tile.width < 0 \/ tile.x + tile.width > map.width
    BY <1>2, <1>3, UnsignedIs
  <2>2. Unsigned(tile.y + tile.height) > map.height
          <=> tile.y + tile.height < 0 \/ tile.y + tile.height > map.height
    BY <1>2, <1>3, UnsignedIs
  <2> QED
    BY <2>1, <2>2 DEF TileRefused
<1>7. CASE TileRefused(map, tile)
  <2>1. copies = {} /\ Moves(img, map, {}, dx, dy) = {}
    BY <1>7 DEF TileCopies, Moves
  <2>2. ASSUME NEW x \in Int, NEW y \in Int
        PROVE  ~(Within(map, tile, 0) /\ Covers(p, tile, x, y))
    BY <1>1, <1>2, <1>3, <1>6, <1>7 DEF Within, Covers
  <2>3. TilePlaces({}, img, map, p, tile)
    BY <2>1, <2>2 DEF TilePlaces
  <2> QED
    BY <2>3
<1>8. CASE ~TileRefused(map, tile)
  <2> DEFINE places == columns \X rows
             steps == (0 .. h.count - 1) \X (0 .. v.count - 1)
             Copy(q) == <<ComputeIndex(img, h.to + q[1], v.to + q[2]),
                          ComputeIndex(map, tile.x + h.skip + q[1],
                                            tile.y + v.skip + q[2])>>
             Move(q) == <<ComputeIndex(img, q[1], q[2]),
                          ComputeIndex(map, q[1] + dx, q[2] + dy)>>
  <2>1. copies = {Copy(q) : q \in steps}
    BY <1>8 DEF TileCopies, h, v
  <2>2. Moves(img, map, places, dx, dy) = {Move(q) : q \in places}
    BY DEF Moves
  <2>3. ASSUME NEW q \in steps
        PROVE  \E r \in places : Copy(q) = Move(r)
    <3> DEFINE r == <<h.to + q[1], v.to + q[2]>>
    <3>1. q[1] \in 0 .. h.count - 1 /\ q[2] \in 0 .. v.count - 1
      OBVIOUS
    <3>2. r \in places
      BY <1>4, <1>5, <3>1
    <3>3. /\ r[1] = h.to + q[1] /\ r[2] = v.to + q[2]
          /\ r[1] + dx = tile.x + h.skip + q[1] /\ r[2] + dy = tile.y + v.skip + q[2]
      BY <1>1, <1>2, <1>4, <1>5, <3>1
    <3>4. Copy(q) = Move(r)
      BY <3>3, Zenon
    <3> HIDE DEF places, Copy, Move, r
    <3> QED
      BY <3>2, <3>4
  <2>4. ASSUME NEW r \in places
        PROVE  \E q \in steps : Move(r) = Copy(q)
    <3> DEFINE q == <<r[1] - h.to, r[2] - v.to>>
    <3>1. r[1] \in columns /\ r[2] \in rows
      OBVIOUS
    <3>2. q \in steps
      BY <1>4, <1>5, <3>1
    <3>3. r[1] \in Int /\ r[2] \in Int
      BY <3>1
    <3>4. /\ h.to + q[1] = r[1] /\ v.to + q[2] = r[2]
          /\ tile.x + h.skip + q[1] = r[1] + dx /\ tile.y + v.skip + q[2] = r[2] + dy
      BY <1>1, <1>2, <1>4, <1>5, <3>3
    <3>5. Move(r) = Copy(q)
      BY <3>4, Zenon
    <3> HIDE DEF steps, Copy, Move, q
    <3> QED
      BY <3>2, <3>5
  <2>5. copies = Moves(img, map, places, dx, dy)
    <3> HIDE DEF copies, steps, places, Copy, Move
    <3> QED
      BY <2>1, <2>2, <2>3, <2>4
  <2>6. places \in SUBSET (Int \X Int)
    BY <1>4, <1>5
  <2>7. ASSUME EndsOnImage(p, tile), NEW x \in Int, NEW y \in Int
        PROVE  <<x, y>> \in places <=> /\ InBounds(img, x, y)
                                       /\ Within(map, tile, 0) /\ Covers(p, tile, x, y)
    <3>1. /\ tile.x >= 0 /\ tile.x + tile.width <= map.width
          /\ tile.y >= 0 /\ tile.y + tile.height <= map.height
      BY <1>2, <1>3, <1>6, <1>8
    <3>2. p[1] + tile.width >= 0 /\ p[2] + tile.height >= 0
      BY <2>7 DEF EndsOnImage
    <3>3. Within(map, tile, 0)
      BY <1>3, <3>1 DEF Within
    <3>4. x \in columns <=> x \in 0 .. img.width - 1 /\ p[1] <= x /\ x < p[1] + tile.width
      BY <1>4, <3>1, <3>2
    <3>5. y \in rows <=> y \in 0 .. img.height - 1 /\ p[2] <= y /\ y < p[2] + tile.height
      BY <1>5, <3>1, <3>2
    <3> HIDE DEF columns, rows
    <3> QED
      BY <3>3, <3>4, <3>5 DEF InBounds, Covers
  <2>8. EndsOnImage(p, tile) =>
          \A x, y \in Int : <<x, y>> \in places <=> /\ InBounds(img, x, y)
                                                  /\ Within(map, tile, 0)
                                                  /\ Covers(p, tile, x, y)
    BY <2>7
  <2> HIDE DEF places
  <2>9. TilePlaces(places, img, map, p, tile)
    BY <2>5, <2>8, Zenon DEF TilePlaces
  <2> QED
    BY <2>6, <2>9
<1> QED
  BY <1>7, <1>8

\* So are those of the assembly version, which leaves out what is not on the
\* image or in the map.
AsmTilePlaces(places, img, map, p, tile) ==
    /\ AsmTileCopies(img, p[1], p[2], map, tile)
         = Moves(img, map, places, tile.x - p[1], tile.y - p[2])
    /\ \A x, y \in Int :
          <<x, y>> \in places <=>
             /\ InBounds(img, x, y)
             /\ InBounds(map, x + (tile.x - p[1]), y + (tile.y - p[2]))
             /\ ~AsmTileRefused(map, tile) /\ Covers(p, tile, x, y)

LEMMA AsmTileMoves ==
    ASSUME NEW img, Good(img), NEW map, Good(map), NEW p \in Points, NEW tile \in Rects
    PROVE  \E places \in SUBSET (Int \X Int) : AsmTilePlaces(places, img, map, p, tile)
<1> DEFINE dx == tile.x - p[1]
           dy == tile.y - p[2]
           copies == AsmTileCopies(img, p[1], p[2], map, tile)
           places == {q \in Int \X Int : /\ InBounds(img, q[1], q[2])
                                         /\ InBounds(map, q[1] + dx, q[2] + dy)
                                         /\ Covers(p, tile, q[1], q[2])}
<1>1. /\ p[1] \in Int /\ p[2] \in Int /\ tile.x \in Int /\ tile.y \in Int
      /\ tile.width \in Int /\ tile.height \in Int
  BY PointFacts, RectFacts
<1>2. CASE AsmTileRefused(map, tile)
  <2>1. copies = {} /\ Moves(img, map, {}, dx, dy) = {}
    BY <1>2 DEF AsmTileCopies, Moves
  <2>2. AsmTilePlaces({}, img, map, p, tile)
    BY <1>2, <2>1 DEF AsmTilePlaces
  <2> QED
    BY <2>2
<1>3. CASE ~AsmTileRefused(map, tile)
  <2> DEFINE pixels == (0 .. tile.width - 1) \X (0 .. tile.height - 1)
             Copy(q) == <<AsmComputeIndex(img, p[1] + q[1], p[2] + q[2]),
                          AsmComputeIndex(map, tile.x + q[1], tile.y + q[2])>>
             Move(q) == <<ComputeIndex(img, q[1], q[2]),
                          ComputeIndex(map, q[1] + dx, q[2] + dy)>>
  <2>1. copies = {c \in {Copy(q) : q \in pixels} : NoIndex \notin {c[1], c[2]}}
    BY <1>3 DEF AsmTileCopies
  <2>2. Moves(img, map, places, dx, dy) = {Move(q) : q \in places}
    BY DEF Moves
  <2>3. ASSUME NEW q \in pixels
        PROVE  LET r == <<p[1] + q[1], p[2] + q[2]>>
               IN  Copy(q) = Move(r) /\ r \in Int \X Int /\ Covers(p, tile, r[1], r[2])
    <3> DEFINE r == <<p[1] + q[1], p[2] + q[2]>>
    <3>1. q[1] \in 0 .. tile.width - 1 /\ q[2] \in 0 .. tile.height - 1
      OBVIOUS
    <3>2. /\ r[1] = p[1] + q[1] /\ r[2] = p[2] + q[2] /\ r[1] \in Int /\ r[2] \in Int
          /\ r[1] + dx = tile.x + q[1] /\ r[2] + dy = tile.y + q[2]
          /\ r[1] + dx \in Int /\ r[2] + dy \in Int
      BY <1>1, <3>1
    <3>3. /\ AsmComputeIndex(img, r[1], r[2]) = ComputeIndex(img, r[1], r[2])
          /\ AsmComputeIndex(map, r[1] + dx, r[2] + dy)
               = ComputeIndex(map, r[1] + dx, r[2] + dy)
      <4> HIDE DEF r, dx, dy
      <4> QED
        BY <3>2, ComputeIndexIs
    <3>4. Copy(q) = Move(r)
      BY <3>2, <3>3, Zenon
    <3>5. Covers(p, tile, r[1], r[2])
      BY <1>1, <3>1 DEF Covers
    <3> QED
      BY <3>2, <3>4, <3>5, Zenon
  <2>4. ASSUME NEW r \in Int \X Int
        PROVE  /\ Move(r)[1] # NoIndex <=> InBounds(img, r[1], r[2])
               /\ Move(r)[2] # NoIndex <=> InBounds(map, r[1] + dx, r[2] + dy)
    <3>1. r[1] \in Int /\ r[2] \in Int /\ r[1] + dx \in Int /\ r[2] + dy \in Int
      BY <1>1
    <3> HIDE DEF dx, dy
    <3> QED
      BY <3>1, ComputeIndexIs
  <2>5. ASSUME NEW c \in copies PROVE \E r \in places : c = Move(r)
    <3>1. PICK q \in pixels : c = Copy(q) /\ c[1] # NoIndex /\ c[2] # NoIndex
      BY <2>1
    <3> DEFINE r == <<p[1] + q[1], p[2] + q[2]>>
    <3>2. c = Move(r) /\ r \in Int \X Int /\ Covers(p, tile, r[1], r[2])
      BY <2>3, <3>1
    <3> HIDE DEF r, Move
    <3>3. r \in places
      BY <2>4, <3>1, <3>2
    <3> QED
      BY <3>2, <3>3
  <2>6. ASSUME NEW r \in places PROVE Move(r) \in copies
    <3> DEFINE q == <<r[1] - p[1], r[2] - p[2]>>
    <3>1. /\ r \in Int \X Int /\ r[1] \in Int /\ r[2] \in Int
          /\ Covers(p, tile, r[1], r[2])
          /\ InBounds(img, r[1], r[2]) /\ InBounds(map, r[1] + dx, r[2] + dy)
      OBVIOUS
    <3>2. q \in pixels
      BY <1>1, <3>1 DEF Covers
    <3>3. <<p[1] + q[1], p[2] + q[2]>> = r
      BY <1>1, <3>1
    <3> HIDE DEF q, Copy, Move, pixels, places
    <3>4. Copy(q) = Move(r)
      BY <2>3, <3>2, <3>3
    <3>5. Move(r)[1] # NoIndex /\ Move(r)[2] # NoIndex
      BY <2>4, <3>1
    <3>6. Move(r) \in {Copy(k) : k \in pixels}
      BY <3>2, <3>4
    <3> QED
      BY <2>1, <3>5, <3>6
  <2>7. copies = Moves(img, map, places, dx, dy)
    <3> HIDE DEF copies, places, Move
    <3> QED
      BY <2>2, <2>5, <2>6
  <2>8. places \in SUBSET (Int \X Int)
    OBVIOUS
  <2>9. ASSUME NEW x \in Int, NEW y \in Int
        PROVE  <<x, y>> \in places <=>
                 /\ InBounds(img, x, y) /\ InBounds(map, x + dx, y + dy)
                 /\ ~AsmTileRefused(map, tile) /\ Covers(p, tile, x, y)
    BY <1>3
  <2>10. \A x, y \in Int :
            <<x, y>> \in places <=> /\ InBounds(img, x, y) /\ InBounds(map, x + dx, y + dy)
                                    /\ ~AsmTileRefused(map, tile)
                                    /\ Covers(p, tile, x, y)
    BY <2>9, Zenon
  <2> HIDE DEF places
  <2>11. AsmTilePlaces(places, img, map, p, tile)
    BY <2>7, <2>10, Zenon DEF AsmTilePlaces
  <2> QED
    BY <2>8, <2>11
<1> QED
  BY <1>2, <1>3

\* The pixel of the map that the moves take to a place.
LEMMA PixelMoved ==
    ASSUME NEW map, NEW p \in Points, NEW part \in Rects, NEW x \in Int, NEW y \in Int
    PROVE  PixelAt(map, p, part, x, y)
             = map.data[((y + (part.y - p[2])) * map.width) + (x + (part.x - p[1]))]
<1>1. /\ p[1] \in Int /\ p[2] \in Int /\ part.x \in Int /\ part.y \in Int
  BY PointFacts, RectFacts
<1>2. part.y + y - p[2] = y + (part.y - p[2]) /\ part.x + x - p[1] = x + (part.x - p[1])
  BY <1>1
<1> QED
  BY <1>2, Zenon DEF PixelAt

\* What becomes of a pixel when a tile is moved to some places.
TileAtPlaces(copies, places, map, p, tile) ==
    /\ Good(DrawTile(canvas, copies, map))
    /\ \A i \in DOMAIN canvas.data :
          DrawTile(canvas, copies, map).data[i] =
            IF <<i % canvas.width, i \div canvas.width>> \in places
              THEN PixelAt(map, p, tile, i % canvas.width, i \div canvas.width)
              ELSE canvas.data[i]

LEMMA TileDrawn ==
    ASSUME Good(canvas), NEW map, Good(map), NEW p \in Points, NEW tile \in Rects,
           NEW places \in SUBSET (Int \X Int), NEW copies,
           copies = Moves(canvas, map, places, tile.x - p[1], tile.y - p[2]),
           ~TileCrashes(copies)
    PROVE  TileAtPlaces(copies, places, map, p, tile)
<1> DEFINE dx == tile.x - p[1]
           dy == tile.y - p[2]
           new == DrawTile(canvas, copies, map)
           X(i) == i % canvas.width
           Y(i) == i \div canvas.width
<1>1. dx \in Int /\ dy \in Int
  BY PointFacts, RectFacts
<1>2. /\ Good(new)
      /\ \A i \in DOMAIN canvas.data :
            new.data[i] = IF <<X(i), Y(i)>> \in places
                            THEN map.data[((Y(i) + dy) * map.width) + (X(i) + dx)]
                            ELSE canvas.data[i]
  <2> DEFINE moves == Moves(canvas, map, places, dx, dy)
  <2>1. moves = copies /\ ~TileCrashes(moves)
    OBVIOUS
  <2> HIDE DEF dx, dy
  <2>2. Moved(DrawTile(canvas, moves, map), canvas, map, places, dx, dy)
    BY <1>1, <2>1, MovesDrawn
  <2>3. Moved(new, canvas, map, places, dx, dy)
    BY <2>1, <2>2
  <2> HIDE DEF new
  <2> QED
    BY <2>3, Zenon DEF Moved
<1>3. ASSUME NEW i \in DOMAIN canvas.data
      PROVE  PixelAt(map, p, tile, X(i), Y(i))
               = map.data[((Y(i) + dy) * map.width) + (X(i) + dx)]
  <2>1. X(i) \in Int /\ Y(i) \in Int
    BY PixelPlace
  <2> HIDE DEF X, Y
  <2> QED
    BY <2>1, PixelMoved
<1> HIDE DEF new, dx, dy
<1> QED
  BY <1>2, <1>3, Zenon DEF new, TileAtPlaces

\* A tile that is not refused has all of its pixels in the map.
LEMMA TileInMap ==
    ASSUME NEW map, Good(map), NEW p \in Points, NEW tile \in Rects, NEW x \in Int,
           NEW y \in Int, Within(map, tile, 0), Covers(p, tile, x, y)
    PROVE  /\ InBounds(map, x + (tile.x - p[1]), y + (tile.y - p[2]))
           /\ HasPixel(map, p, tile, x, y)
<1>1. /\ p[1] \in Int /\ p[2] \in Int /\ tile.x \in Int /\ tile.y \in Int
      /\ tile.width \in Int /\ tile.height \in Int
      /\ map.width \in Nat /\ map.height \in Nat
  BY PointFacts, RectFacts, GoodFacts
<1>2. /\ x + (tile.x - p[1]) \in 0 .. map.width - 1
      /\ y + (tile.y - p[2]) \in 0 .. map.height - 1
  BY <1>1 DEF Within, Covers
<1>3. tile.x + x - p[1] >= 0 /\ tile.y + y - p[2] >= 0
  BY <1>1, <1>2
<1> QED
  BY <1>2, <1>3 DEF InBounds, HasPixel

LEMMA AsmTileTaken ==
    ASSUME NEW map, Good(map), version = "asm", NEW p \in Points, NEW tile \in Rects,
           NEW x \in Int, NEW y \in Int, Covers(p, tile, x, y)
    PROVE  TileTaken(map, tile) /\ HasPixel(map, p, tile, x, y)
             <=> /\ InBounds(map, x + (tile.x - p[1]), y + (tile.y - p[2]))
                 /\ ~AsmTileRefused(map, tile)
<1>1. /\ p[1] \in Int /\ p[2] \in Int /\ tile.x \in Int /\ tile.y \in Int
      /\ tile.width \in Int /\ tile.height \in Int
      /\ map.width \in Nat /\ map.height \in Nat
  BY PointFacts, RectFacts, GoodFacts
<1>2. /\ p[1] <= x /\ x < p[1] + tile.width /\ p[2] <= y /\ y < p[2] + tile.height
      /\ tile.width > 0 /\ tile.height > 0
  BY <1>1 DEF Covers
<1>3. ~AsmTileRefused(map, tile) <=>
        /\ tile.width < map.width /\ tile.height < map.height
        /\ tile.x + tile.width >= 1 /\ tile.x + tile.width <= map.width
        /\ tile.y + tile.height >= 1 /\ tile.y + tile.height <= map.height
  BY <1>1, <1>2 DEF AsmTileRefused, AsmInBounds
<1>4. TileTaken(map, tile) <=>
        /\ tile.width < map.width /\ tile.height < map.height
        /\ tile.x + tile.width >= 1 /\ tile.x + tile.width <= map.width
        /\ tile.y + tile.height >= 1 /\ tile.y + tile.height <= map.height
  BY <1>1 DEF TileTaken
<1>5. /\ InBounds(map, x + (tile.x - p[1]), y + (tile.y - p[2])) => HasPixel(map, p, tile, x, y)
      /\ HasPixel(map, p, tile, x, y) /\ ~AsmTileRefused(map, tile)
           => InBounds(map, x + (tile.x - p[1]), y + (tile.y - p[2]))
  BY <1>1, <1>2, <1>3 DEF InBounds, HasPixel
<1> QED
  BY <1>3, <1>4, <1>5

\* Any tile, copied in C or in assembly.
LEMMA TileIs ==
    ASSUME canvas # None, Good(canvas), version \in {"c", "asm"}, NEW map, Good(map),
           NEW p \in Points, NEW tile \in Rects
    PROVE  /\ TileExact(map, p, tile)
           /\ ~TileCrashes(Copied(map, p, tile))
                => Good(DrawTile(canvas, Copied(map, p, tile), map))
<1> DEFINE w == canvas.width
           dx == tile.x - p[1]
           dy == tile.y - p[2]
           copies == Copied(map, p, tile)
           Taken(x, y) == /\ TileTaken(map, tile) /\ Covers(p, tile, x, y)
                          /\ HasPixel(map, p, tile, x, y)
<1>1. dx \in Int /\ dy \in Int /\ Target = canvas
  BY PointFacts, RectFacts DEF Target
<1>2. \E places \in SUBSET (Int \X Int) :
         /\ copies = Moves(canvas, map, places, dx, dy)
         /\ version = "asm" \/ EndsOnImage(p, tile) =>
              /\ ~TileCrashes(copies)
              /\ \A x, y \in Int : InBounds(canvas, x, y) =>
                    (<<x, y>> \in places <=> Taken(x, y))
  <2>1. CASE version = "c"
    <3>1. PICK places \in SUBSET (Int \X Int) : TilePlaces(places, canvas, map, p, tile)
      BY TileMoves
    <3>2. copies = Moves(canvas, map, places, dx, dy)
      BY <1>1, <2>1, <3>1, Zenon DEF Copied, TilePlaces
    <3>3. ASSUME EndsOnImage(p, tile)
          PROVE  /\ ~TileCrashes(copies)
                 /\ \A x, y \in Int : InBounds(canvas, x, y) =>
                       (<<x, y>> \in places <=> Taken(x, y))
      <4>1. ASSUME NEW x \in Int, NEW y \in Int
            PROVE  <<x, y>> \in places
                     <=> /\ InBounds(canvas, x, y) /\ Within(map, tile, 0)
                         /\ Covers(p, tile, x, y)
        BY <3>1, <3>3 DEF TilePlaces
      <4>2. ASSUME NEW q \in places
            PROVE  InBounds(canvas, q[1], q[2]) /\ InBounds(map, q[1] + dx, q[2] + dy)
        <5>1. q[1] \in Int /\ q[2] \in Int /\ <<q[1], q[2]>> \in places
          OBVIOUS
        <5> QED
          BY <4>1, <5>1, TileInMap
      <4>3. ~TileCrashes(copies)
        <5> HIDE DEF copies, dx, dy
        <5> QED
          BY <1>1, <3>2, <4>2, MovesCrash
      <4>4. ASSUME NEW x \in Int, NEW y \in Int, InBounds(canvas, x, y)
            PROVE  <<x, y>> \in places <=> Taken(x, y)
        <5>1. TileTaken(map, tile) <=> Within(map, tile, 0)
          BY <2>1 DEF TileTaken
        <5>2. Within(map, tile, 0) /\ Covers(p, tile, x, y) => HasPixel(map, p, tile, x, y)
          BY TileInMap
        <5> QED
          BY <4>1, <4>4, <5>1, <5>2, Zenon
      <4> QED
        BY <4>3, <4>4, Zenon
    <3>4. version # "asm"
      BY <2>1
    <3> HIDE DEF copies, dx, dy, Taken
    <3> QED
      BY <3>2, <3>3, <3>4, Zenon
  <2>2. CASE version = "asm"
    <3>1. PICK places \in SUBSET (Int \X Int) : AsmTilePlaces(places, canvas, map, p, tile)
      BY AsmTileMoves
    <3>2. copies = Moves(canvas, map, places, dx, dy)
      <4>1. version # "c"
        BY <2>2
      <4> QED
        BY <1>1, <3>1, <4>1, Zenon DEF Copied, AsmTilePlaces
    <3>3. ASSUME NEW x \in Int, NEW y \in Int
          PROVE  <<x, y>> \in places
                   <=> /\ InBounds(canvas, x, y) /\ InBounds(map, x + dx, y + dy)
                       /\ ~AsmTileRefused(map, tile) /\ Covers(p, tile, x, y)
      BY <3>1, Zenon DEF AsmTilePlaces
    <3>4. ASSUME NEW q \in places
          PROVE  InBounds(canvas, q[1], q[2]) /\ InBounds(map, q[1] + dx, q[2] + dy)
      <4>1. q[1] \in Int /\ q[2] \in Int /\ <<q[1], q[2]>> \in places
        OBVIOUS
      <4> QED
        BY <3>3, <4>1, Zenon
    <3>5. ~TileCrashes(copies)
      <4> HIDE DEF copies, dx, dy
      <4> QED
        BY <1>1, <3>2, <3>4, MovesCrash
    <3>6. ASSUME NEW x \in Int, NEW y \in Int, InBounds(canvas, x, y)
          PROVE  <<x, y>> \in places <=> Taken(x, y)
      <4>1. Covers(p, tile, x, y) =>
              (TileTaken(map, tile) /\ HasPixel(map, p, tile, x, y)
                 <=> InBounds(map, x + dx, y + dy) /\ ~AsmTileRefused(map, tile))
        BY <2>2, AsmTileTaken
      <4> QED
        BY <3>3, <3>6, <4>1, Zenon
    <3> HIDE DEF copies, dx, dy, Taken
    <3> QED
      BY <3>2, <3>5, <3>6, Zenon
  <2> QED
    BY <2>1, <2>2
<1>3. PICK places \in SUBSET (Int \X Int) :
         /\ copies = Moves(canvas, map, places, dx, dy)
         /\ version = "asm" \/ EndsOnImage(p, tile) =>
              /\ ~TileCrashes(copies)
              /\ \A x, y \in Int : InBounds(canvas, x, y) =>
                    (<<x, y>> \in places <=> Taken(x, y))
  BY <1>2
<1>4. ASSUME ~TileCrashes(copies)
      PROVE  /\ Good(DrawTile(canvas, copies, map))
             /\ \A i \in DOMAIN canvas.data :
                   DrawTile(canvas, copies, map).data[i] =
                     IF <<i % w, i \div w>> \in places
                       THEN PixelAt(map, p, tile, i % w, i \div w) ELSE canvas.data[i]
  <2>1. copies = Moves(canvas, map, places, tile.x - p[1], tile.y - p[2])
    BY <1>3
  <2> HIDE DEF copies
  <2>2. TileAtPlaces(copies, places, map, p, tile)
    BY <1>4, <2>1, TileDrawn
  <2> QED
    BY <2>2, Zenon DEF TileAtPlaces
<1>5. ASSUME version = "asm" \/ EndsOnImage(p, tile)
      PROVE  /\ ~TileCrashes(copies)
             /\ \A i \in DOMAIN canvas.data :
                   DrawTile(canvas, copies, map).data[i] =
                     IF Taken(i % w, i \div w)
                       THEN PixelAt(map, p, tile, i % w, i \div w) ELSE canvas.data[i]
  <2>1. ~TileCrashes(copies)
    BY <1>3, <1>5
  <2>2. ASSUME NEW i \in DOMAIN canvas.data
        PROVE  <<i % w, i \div w>> \in places <=> Taken(i % w, i \div w)
    <3>1. i % w \in Int /\ i \div w \in Int /\ InBounds(canvas, i % w, i \div w)
      BY PixelPlace
    <3> HIDE DEF Taken
    <3> QED
      BY <1>3, <1>5, <3>1
  <2> HIDE DEF Taken, copies
  <2> QED
    BY <1>4, <2>1, <2>2, Zenon
<1>6. TileExact(map, p, tile)
  <2> HIDE DEF copies
  <2>1. version = "asm" \/ EndsOnImage(p, tile) =>
          /\ ~TileCrashes(copies)
          /\ \A i \in DOMAIN canvas.data :
                DrawTile(canvas, copies, map).data[i] =
                  IF Taken(i % w, i \div w)
                    THEN PixelAt(map, p, tile, i % w, i \div w) ELSE canvas.data[i]
    BY <1>5, Zenon
  <2> QED
    BY <2>1, Zenon DEF TileExact, copies
<1> QED
  BY <1>4, <1>6

-----------------------------------------------------------------------------
(* Sprites                                                                 *)

LEMMA SpriteTaken ==
    ASSUME NEW map, Good(map), NEW p \in Points, NEW sprite \in Rects, NEW x \in Int,
           NEW y \in Int, Covers(p, sprite, x, y)
    PROVE  /\ SpriteRefused(map, sprite) <=> ~Within(map, sprite, 1)
           /\ ~SpriteRefused(map, sprite) =>
                InBounds(map, sprite.x + x - p[1], sprite.y + y - p[2])
<1>1. /\ p[1] \in Int /\ p[2] \in Int /\ sprite.x \in Int /\ sprite.y \in Int
      /\ sprite.width \in Int /\ sprite.height \in Int
      /\ map.width \in Nat /\ map.height \in Nat
  BY PointFacts, RectFacts, GoodFacts
<1>2. /\ p[1] <= x /\ x < p[1] + sprite.width /\ p[2] <= y /\ y < p[2] + sprite.height
      /\ sprite.width > 0 /\ sprite.height > 0
  BY <1>1 DEF Covers
<1>3. ~SpriteRefused(map, sprite) <=>
        /\ sprite.x >= 0 /\ sprite.x + sprite.width < map.width
        /\ sprite.y >= 0 /\ sprite.y + sprite.height < map.height
  BY <1>1, <1>2 DEF SpriteRefused, InBounds
<1>4. Within(map, sprite, 1) <=>
        /\ sprite.x >= 0 /\ sprite.x + sprite.width < map.width
        /\ sprite.y >= 0 /\ sprite.y + sprite.height < map.height
  BY <1>1 DEF Within
<1>5. ~SpriteRefused(map, sprite) =>
        InBounds(map, sprite.x + x - p[1], sprite.y + y - p[2])
  BY <1>1, <1>2, <1>3 DEF InBounds
<1> QED
  BY <1>3, <1>4, <1>5

\* Any sprite, drawn in C.
LEMMA SpriteIs ==
    ASSUME Good(canvas), NEW map, Good(map), NEW p \in Points, NEW sprite \in Rects
    PROVE  /\ SpriteExact(map, p, sprite)
           /\ Good(DrawSprite(canvas, p[1], p[2], map, sprite))
<1> DEFINE w == canvas.width
           X(i) == i % w
           Y(i) == i \div w
           new == DrawSprite(canvas, p[1], p[2], map, sprite)
           SpriteIndex(i) == ComputeIndex(map, sprite.x + X(i) - p[1],
                                               sprite.y + Y(i) - p[2])
           inside == {q \in (0 .. sprite.width - 1) \X (0 .. sprite.height - 1) :
                        InBounds(canvas, p[1] + q[1], p[2] + q[2])}
           targets == {ComputeIndex(canvas, p[1] + q[1], p[2] + q[2]) : q \in inside}
           pixels == [i \in targets |-> BlendColors(map.data[SpriteIndex(i)], canvas.data[i])]
<1>1. /\ p[1] \in Int /\ p[2] \in Int /\ sprite.x \in Int /\ sprite.y \in Int
      /\ sprite.width \in Int /\ sprite.height \in Int
  BY PointFacts, RectFacts
<1>2. CASE SpriteRefused(map, sprite)
  <2>1. new = canvas
    BY <1>2 DEF DrawSprite
  <2>2. ASSUME NEW i \in DOMAIN canvas.data
        PROVE  ~(Within(map, sprite, 1) /\ Covers(p, sprite, X(i), Y(i)))
    <3>1. X(i) \in Int /\ Y(i) \in Int
      BY PixelPlace
    <3> HIDE DEF X, Y
    <3> QED
      BY <1>2, <3>1, SpriteTaken
  <2> HIDE DEF new
  <2> QED
    BY <2>1, <2>2, Zenon DEF SpriteExact, new
<1>3. CASE ~SpriteRefused(map, sprite)
  <2>1. new = SetPixels(canvas, pixels)
    BY <1>3 DEF DrawSprite
  <2>2. ASSUME NEW i \in DOMAIN canvas.data
        PROVE  i \in targets <=> Covers(p, sprite, X(i), Y(i))
    <3>1. /\ X(i) \in Int /\ Y(i) \in Int /\ InBounds(canvas, X(i), Y(i))
          /\ ComputeIndex(canvas, X(i), Y(i)) = i
      BY PixelPlace
    <3>2. ASSUME i \in targets PROVE Covers(p, sprite, X(i), Y(i))
      <4>1. PICK q \in inside : i = ComputeIndex(canvas, p[1] + q[1], p[2] + q[2])
        BY <3>2
      <4>2. /\ q[1] \in 0 .. sprite.width - 1 /\ q[2] \in 0 .. sprite.height - 1
            /\ InBounds(canvas, p[1] + q[1], p[2] + q[2])
        OBVIOUS
      <4>3. p[1] + q[1] \in Int /\ p[2] + q[2] \in Int
        BY <1>1, <4>2
      <4>4. X(i) = p[1] + q[1] /\ Y(i) = p[2] + q[2]
        BY <4>1, <4>2, <4>3, ComputeIndexIs
      <4> HIDE DEF X, Y
      <4> QED
        BY <1>1, <4>2, <4>4 DEF Covers
    <3>3. ASSUME Covers(p, sprite, X(i), Y(i)) PROVE i \in targets
      <4> HIDE DEF X, Y
      <4> DEFINE q == <<X(i) - p[1], Y(i) - p[2]>>
      <4>1. q \in (0 .. sprite.width - 1) \X (0 .. sprite.height - 1)
        BY <1>1, <3>1, <3>3 DEF Covers
      <4>2. p[1] + q[1] = X(i) /\ p[2] + q[2] = Y(i)
        BY <1>1, <3>1
      <4>3. /\ InBounds(canvas, p[1] + q[1], p[2] + q[2])
            /\ ComputeIndex(canvas, p[1] + q[1], p[2] + q[2]) = i
        BY <3>1, <4>2
      <4> HIDE DEF q
      <4> QED
        BY <4>1, <4>3
    <3> QED
      BY <3>2, <3>3
  <2>3. ASSUME NEW i \in DOMAIN canvas.data, Covers(p, sprite, X(i), Y(i))
        PROVE  /\ map.data[SpriteIndex(i)] = PixelAt(map, p, sprite, X(i), Y(i))
               /\ map.data[SpriteIndex(i)] \in Colors
    <3>1. X(i) \in Int /\ Y(i) \in Int
      BY PixelPlace
    <3> DEFINE sx == sprite.x + X(i) - p[1]
               sy == sprite.y + Y(i) - p[2]
    <3> HIDE DEF X, Y
    <3>2. InBounds(map, sx, sy)
      BY <1>3, <2>3, <3>1, SpriteTaken
    <3>3. sx \in Int /\ sy \in Int
      BY <1>1, <3>1
    <3>4. /\ ComputeIndex(map, sx, sy) \in DOMAIN map.data
          /\ ComputeIndex(map, sx, sy) = (sy * map.width) + sx
      <4> HIDE DEF sx, sy
      <4> QED
        BY <3>2, <3>3, ComputeIndexIs
    <3>5. map.data[SpriteIndex(i)] = PixelAt(map, p, sprite, X(i), Y(i))
      BY <3>4, Zenon DEF PixelAt
    <3>6. map.data[SpriteIndex(i)] \in Colors
      <4> HIDE DEF sx, sy
      <4>1. map.data[ComputeIndex(map, sx, sy)] \in Colors
        BY <3>4, GoodFacts
      <4> QED
        BY <4>1, Zenon DEF sx, sy
    <3> QED
      BY <3>5, <3>6
  <2>4. /\ DOMAIN pixels = targets
        /\ \A i \in targets :
              pixels[i] = BlendColors(map.data[SpriteIndex(i)], canvas.data[i])
    OBVIOUS
  <2> HIDE DEF pixels, targets, SpriteIndex, X, Y
  <2>5. ASSUME NEW i \in DOMAIN canvas.data, i \in targets
        PROVE  /\ pixels[i] \in Colors
               /\ IsBlend(pixels[i], PixelAt(map, p, sprite, X(i), Y(i)), canvas.data[i])
    <3>1. Covers(p, sprite, X(i), Y(i)) /\ canvas.data[i] \in Colors
      BY <2>2, <2>5, GoodFacts
    <3>2. /\ map.data[SpriteIndex(i)] \in Colors
          /\ map.data[SpriteIndex(i)] = PixelAt(map, p, sprite, X(i), Y(i))
      BY <2>3, <3>1
    <3> QED
      BY <2>4, <2>5, <3>1, <3>2, BlendIs
  <2>6. /\ Good(SetPixels(canvas, pixels))
        /\ \A i \in DOMAIN canvas.data :
              SetPixels(canvas, pixels).data[i] =
                IF i \in DOMAIN pixels THEN pixels[i] ELSE canvas.data[i]
    BY <2>4, <2>5, SetPixelsIs
  <2> HIDE DEF new
  <2>7. ASSUME NEW i \in DOMAIN canvas.data
        PROVE  IF Within(map, sprite, 1) /\ Covers(p, sprite, X(i), Y(i))
                 THEN IsBlend(new.data[i], PixelAt(map, p, sprite, X(i), Y(i)),
                              canvas.data[i])
                 ELSE new.data[i] = canvas.data[i]
    <3>1. X(i) \in Int /\ Y(i) \in Int
      BY PixelPlace DEF X, Y
    <3>2. Covers(p, sprite, X(i), Y(i)) => Within(map, sprite, 1)
      BY <1>3, <3>1, SpriteTaken
    <3>3. new.data[i] = IF i \in targets THEN pixels[i] ELSE canvas.data[i]
      BY <2>1, <2>4, <2>6
    <3> QED
      BY <2>2, <2>5, <3>2, <3>3
  <2>8. SpriteExact(map, p, sprite)
    BY <2>7, Zenon DEF SpriteExact, new, X, Y
  <2> QED
    BY <2>1, <2>6, <2>8 DEF new
<1> QED
  BY <1>2, <1>3

\* Any sprite, drawn in assembly.
LEMMA SpriteEndsIs ==
    ASSUME Good(canvas), NEW map, Good(map), NEW p \in Points, NEW sprite \in Rects
    PROVE  SpriteEnds(map, p, sprite)
<1> DEFINE w == canvas.width
           h == canvas.height
           kills == AsmSpriteKills(canvas, p[1], p[2], map, sprite)
           side == 0 .. sprite.width - 1
           shown == {q \in side \X side : AsmInBounds(canvas, p[1] + q[1], p[2] + q[2])}
           Before(q, r) == q[1] < r[1] \/ (q[1] = r[1] /\ q[2] <= r[2])
<1>1. /\ p[1] \in Int /\ p[2] \in Int /\ sprite.x \in Int /\ sprite.y \in Int
      /\ sprite.width \in Int /\ sprite.height \in Int
      /\ map.width \in Nat /\ map.height \in Nat /\ w \in Nat /\ h \in Nat
  BY PointFacts, RectFacts, GoodFacts
<1>2. kills <=> /\ AsmInBounds(map, sprite.x, sprite.y)
                /\ AsmInBounds(map, sprite.x + sprite.width, sprite.y + sprite.height)
                /\ \E q \in shown :
                      /\ \A r \in shown : Before(q, r)
                      /\ AsmInBounds(map, sprite.x + q[1], sprite.y + q[2])
  BY DEF AsmSpriteKills
<1>3. kills => Within(map, sprite, 1)
  <2> HIDE DEF kills
  <2>1. kills => /\ AsmInBounds(map, sprite.x, sprite.y)
                 /\ AsmInBounds(map, sprite.x + sprite.width, sprite.y + sprite.height)
    BY <1>2
  <2> QED
    BY <1>1, <2>1 DEF AsmInBounds, Within
<1>4. ASSUME NEW x \in 0 .. w - 1, NEW y \in 0 .. h - 1, Covers(p, sprite, x, y),
             Within(map, sprite, 1), sprite.height <= sprite.width
      PROVE  kills
  <2> HIDE DEF w, h
  <2> DEFINE a == IF p[1] < 0 THEN -p[1] ELSE 0
             b == IF p[2] < 0 THEN -p[2] ELSE 0
             q == <<a, b>>
  <2>1. p[1] <= x /\ x < p[1] + sprite.width /\ p[2] <= y /\ y < p[2] + sprite.height
    BY <1>4 DEF Covers
  <2>2. /\ sprite.x >= 0 /\ sprite.x + sprite.width < map.width
        /\ sprite.y >= 0 /\ sprite.y + sprite.height < map.height
    BY <1>1, <1>4 DEF Within
  <2>3. /\ a \in 0 .. sprite.width - 1 /\ b \in 0 .. sprite.height - 1
        /\ b \in 0 .. sprite.width - 1
        /\ p[1] + a >= 0 /\ p[1] + a < w /\ p[2] + b >= 0 /\ p[2] + b < h
    BY <1>1, <1>4, <2>1
  <2>4. q \in shown
    BY <2>3 DEF AsmInBounds, w, h
  <2>5. ASSUME NEW r \in shown PROVE Before(q, r)
    <3>1. /\ r[1] \in side /\ r[2] \in side
          /\ p[1] + r[1] >= 0 /\ p[2] + r[2] >= 0
      BY DEF AsmInBounds
    <3>2. a <= r[1] /\ b <= r[2]
      BY <1>1, <3>1
    <3>3. q[1] = a /\ q[2] = b /\ a \in Int /\ b \in Int
      BY <2>3
    <3> HIDE DEF a, b, q
    <3> QED
      BY <3>1, <3>2, <3>3
  <2>6. AsmInBounds(map, sprite.x + q[1], sprite.y + q[2])
    BY <1>1, <2>2, <2>3 DEF AsmInBounds
  <2>7. /\ AsmInBounds(map, sprite.x, sprite.y)
        /\ AsmInBounds(map, sprite.x + sprite.width, sprite.y + sprite.height)
    BY <1>1, <2>1, <2>2 DEF AsmInBounds
  <2> HIDE DEF q, shown, Before, kills
  <2> QED
    BY <1>2, <2>4, <2>5, <2>6, <2>7
<1>5. ASSUME NEW i \in DOMAIN canvas.data
      PROVE  i % w \in 0 .. w - 1 /\ i \div w \in 0 .. h - 1
  BY PixelPlace
<1>6. ASSUME NEW i \in DOMAIN canvas.data, Covers(p, sprite, i % w, i \div w),
             Within(map, sprite, 1), sprite.height <= sprite.width
      PROVE  kills
  <2> HIDE DEF kills
  <2> QED
    BY <1>4, <1>5, <1>6, Zenon
<1> HIDE DEF kills
<1> QED
  BY <1>3, <1>6, Zenon DEF SpriteEnds, kills

-----------------------------------------------------------------------------
(* Files                                                                   *)

\* The pixels of a file are its components in order R, G, B, A.
Bytes(c) == <<GetR(c), GetG(c), GetB(c), GetA(c)>>

LEMMA SwappedIs ==
    ASSUME littleEndian, NEW r \in Component, NEW g \in Component, NEW b \in Component,
           NEW a \in Component
    PROVE  /\ Stored(Packed(r, g, b, a)) = <<a, b, g, r>>
           /\ Byteswap(Packed(r, g, b, a)) = Packed(a, b, g, r)
<1> DEFINE c == Packed(r, g, b, a)
<1>1. GetR(c) = r /\ GetG(c) = g /\ GetB(c) = b /\ GetA(c) = a
  BY PackedFacts
<1>2. Stored(c) = <<a, b, g, r>>
  <2> HIDE DEF c
  <2> QED
    BY <1>1 DEF Stored
<1>3. Byteswap(c) = Packed(a, b, g, r)
  <2> HIDE DEF c
  <2> QED
    BY <1>2 DEF Byteswap
<1> QED
  BY <1>2, <1>3

\* write_image(): what is written of a color is its components.
LEMMA WrittenIs ==
    ASSUME NEW c \in Colors
    PROVE  Stored(BigEndian(c)) = Bytes(c)
<1> DEFINE r == GetR(c)
           g == GetG(c)
           b == GetB(c)
           a == GetA(c)
<1>1. /\ r \in Component /\ g \in Component /\ b \in Component /\ a \in Component
      /\ c = Packed(r, g, b, a)
  BY ColorFacts
<1>2. CASE littleEndian
  <2> HIDE DEF r, g, b, a
  <2>1. BigEndian(c) = Packed(a, b, g, r)
    BY <1>1, <1>2, SwappedIs DEF BigEndian
  <2>2. Stored(Packed(a, b, g, r)) = <<r, g, b, a>>
    BY <1>1, <1>2, SwappedIs
  <2> QED
    BY <2>1, <2>2, Zenon DEF Bytes, r, g, b, a
<1>3. CASE ~littleEndian
  BY <1>3 DEF BigEndian, Stored, Bytes
<1> QED
  BY <1>2, <1>3

\* read_image(): a color is packed from the bytes of the file.
LEMMA LoadedIs ==
    ASSUME NEW b, \A k \in 1 .. 4 : b[k] \in Component
    PROVE  BigEndian(Loaded(b)) = Packed(b[1], b[2], b[3], b[4])
<1>1. b[1] \in Component /\ b[2] \in Component /\ b[3] \in Component /\ b[4] \in Component
  OBVIOUS
<1>2. CASE littleEndian
  <2>1. Loaded(b) = Packed(b[4], b[3], b[2], b[1])
    BY <1>2 DEF Loaded
  <2>2. Byteswap(Packed(b[4], b[3], b[2], b[1])) = Packed(b[1], b[2], b[3], b[4])
    BY <1>1, <1>2, SwappedIs
  <2> QED
    BY <1>2, <2>1, <2>2 DEF BigEndian
<1>3. CASE ~littleEndian
  BY <1>3 DEF BigEndian, Loaded
<1> QED
  BY <1>2, <1>3

\* What of a slot is as its file has it.
FromFile(img, f) ==
    /\ DOMAIN img.data = DOMAIN f.bytes
    /\ \A i \in DOMAIN f.bytes :
          LET c == img.data[i]
              alpha == IF f.format = "rgb" THEN Opaque ELSE f.bytes[i][4]
          IN  <<GetR(c), GetG(c), GetB(c), GetA(c)>> =
                <<f.bytes[i][1], f.bytes[i][2], f.bytes[i][3], alpha>>

LEMMA ReadImageIs ==
    ASSUME NEW f \in Files, Readable(f)
    PROVE  Good(ReadImage(f)) /\ FromFile(ReadImage(f), f)
<1> DEFINE Alpha(i) == IF f.format = "rgb" THEN Opaque ELSE f.bytes[i][4]
           Color(i) == Packed(f.bytes[i][1], f.bytes[i][2], f.bytes[i][3], Alpha(i))
           Pixel(i) == LET b == f.bytes[i]
                       IN  IF f.format = "rgb" THEN Packed(b[1], b[2], b[3], Opaque)
                                               ELSE BigEndian(Loaded(b))
           data == [i \in DOMAIN f.bytes |-> Pixel(i)]
           img == ReadImage(f)
<1>1. /\ f.width \in Lengths /\ f.height \in Lengths /\ f.width * f.height < Word
      /\ DOMAIN f.bytes = 0 .. (f.width * f.height) - 1
      /\ \A i \in DOMAIN f.bytes : \A k \in 1 .. 4 : f.bytes[i][k] \in Component
  BY FilesAssumption DEF FitsWord, Component
<1>2. ASSUME NEW i \in DOMAIN f.bytes
      PROVE  /\ Pixel(i) = Color(i) /\ Color(i) \in Colors
             /\ GetR(Color(i)) = f.bytes[i][1] /\ GetG(Color(i)) = f.bytes[i][2]
             /\ GetB(Color(i)) = f.bytes[i][3] /\ GetA(Color(i)) = Alpha(i)
  <2> DEFINE b == f.bytes[i]
  <2>1. \A k \in 1 .. 4 : b[k] \in Component
    BY <1>1
  <2> HIDE DEF b
  <2>2. b[1] \in Component /\ b[2] \in Component /\ b[3] \in Component /\ b[4] \in Component
    BY <2>1
  <2>3. Opaque \in Component
    BY ByteFacts DEF Component
  <2>4. Alpha(i) \in Component
    BY <2>2, <2>3 DEF b
  <2>5. Pixel(i) = Packed(b[1], b[2], b[3], Alpha(i))
    <3>1. CASE f.format = "rgb"
      BY <3>1 DEF b
    <3>2. CASE f.format # "rgb"
      <4>1. BigEndian(Loaded(b)) = Packed(b[1], b[2], b[3], b[4])
        BY <2>1, LoadedIs
      <4> QED
        BY <3>2, <4>1, Zenon DEF b
    <3> QED
      BY <3>1, <3>2
  <2> HIDE DEF Alpha, Pixel
  <2>6. Color(i) = Packed(b[1], b[2], b[3], Alpha(i))
    BY DEF b
  <2>7. /\ Packed(b[1], b[2], b[3], Alpha(i)) \in Colors
        /\ GetR(Packed(b[1], b[2], b[3], Alpha(i))) = b[1]
        /\ GetG(Packed(b[1], b[2], b[3], Alpha(i))) = b[2]
        /\ GetB(Packed(b[1], b[2], b[3], Alpha(i))) = b[3]
        /\ GetA(Packed(b[1], b[2], b[3], Alpha(i))) = Alpha(i)
    BY <2>2, <2>4, PackedFacts
  <2> HIDE DEF Color
  <2> QED
    BY <2>5, <2>6, <2>7 DEF b
<1>3. img = Image(f.width, f.height, data)
  BY DEF ReadImage
<1>4. \A i \in DOMAIN f.bytes : data[i] = Pixel(i)
  OBVIOUS
<1>5. data = [i \in DOMAIN f.bytes |-> data[i]] /\ DOMAIN data = DOMAIN f.bytes
  OBVIOUS
<1> HIDE DEF data, img, Pixel, Color, Alpha
<1>6. img.width = f.width /\ img.height = f.height /\ img.data = data
  BY <1>3 DEF Image
<1>7. data \in [0 .. (f.width * f.height) - 1 -> Colors]
  <2> DEFINE D == 0 .. (f.width * f.height) - 1
  <2>1. DOMAIN f.bytes = D
    BY <1>1
  <2> HIDE DEF D
  <2>2. data \in [D -> Colors]
    BY <1>2, <1>4, <1>5, <2>1
  <2> QED
    BY <2>2 DEF D
<1>8. Good(img)
  BY <1>1, <1>3, <1>6, <1>7, Zenon DEF Good
<1>9. FromFile(img, f)
  <2>1. DOMAIN img.data = DOMAIN f.bytes
    BY <1>5, <1>6
  <2>2. ASSUME NEW i \in DOMAIN f.bytes
        PROVE  /\ GetR(img.data[i]) = f.bytes[i][1] /\ GetG(img.data[i]) = f.bytes[i][2]
               /\ GetB(img.data[i]) = f.bytes[i][3] /\ GetA(img.data[i]) = Alpha(i)
    <3>1. img.data[i] = Color(i)
      BY <1>2, <1>4, <1>6
    <3> QED
      BY <1>2, <3>1
  <2> QED
    BY <2>1, <2>2, Zenon DEF FromFile, Alpha
<1> QED
  BY <1>8, <1>9 DEF img

-----------------------------------------------------------------------------
(* The program.  Its invariant: the images fit, the file is not touched    *)
(* before the end, and what was loaded and written is faithful.            *)

ControlOK ==
    /\ error \in {"no", "yes", "killed"}
    /\ pc \in {"commands", "write", "exit"}
    /\ littleEndian \in BOOLEAN /\ version \in {"c", "asm"}
    /\ commands \in 0 .. MaxCommands

SlotsOK ==
    /\ images = [n \in Slots |-> images[n]]
    /\ \A n \in Slots : images[n] = None \/ Good(images[n])

DriverInv ==
    /\ ControlOK
    /\ canvas = None \/ Good(canvas)
    /\ SlotsOK
    /\ LoadsFaithful
    /\ pc # "exit" => output = None
    /\ OutputFaithful

LEMMA LoadsFaithfulIs ==
    LoadsFaithful <=> \A n \in Slots : images[n] # None => \E f \in Files : FromFile(images[n], f)
BY Zenon DEF LoadsFaithful, FromFile

LEMMA InvImplies == DriverInv => DriverTypeOK /\ ShapesExact /\ CopiesExact /\ FilesFaithful
<1> SUFFICES ASSUME DriverInv PROVE DriverTypeOK /\ ShapesExact /\ CopiesExact /\ FilesFaithful
  OBVIOUS
<1>1. DriverTypeOK
  BY GoodFacts DEF DriverInv, ControlOK, SlotsOK, DriverTypeOK
<1>2. ASSUME canvas # None
      PROVE  Good(canvas) /\ version \in {"c", "asm"}
  BY <1>2 DEF DriverInv, ControlOK
<1>3. ShapesExact
  <2>1. ASSUME canvas # None, NEW color \in Paints
        PROVE  /\ \A rect \in Rects : RectExact(rect, color)
               /\ \A p \in Points, r \in Radii : CircleExact(p, r, color)
    <3>1. color \in Colors
      BY PaintsAssumption
    <3> QED
      BY <1>2, <2>1, <3>1, RectangleIs, CircleIs
  <2> QED
    BY <2>1, Zenon DEF ShapesExact
<1>4. CopiesExact
  <2>1. ASSUME canvas # None, NEW n \in Slots, images[n] # None, NEW p \in Points,
               NEW part \in Rects
        PROVE  /\ TileExact(images[n], p, part)
               /\ IF version = "c" THEN SpriteExact(images[n], p, part)
                                   ELSE SpriteEnds(images[n], p, part)
    <3>1. Good(images[n])
      BY <2>1 DEF DriverInv, SlotsOK
    <3>2. TileExact(images[n], p, part)
      BY <1>2, <2>1, <3>1, TileIs
    <3>3. SpriteExact(images[n], p, part)
      BY <1>2, <2>1, <3>1, SpriteIs
    <3>4. SpriteEnds(images[n], p, part)
      BY <1>2, <2>1, <3>1, SpriteEndsIs
    <3> QED
      BY <3>2, <3>3, <3>4
  <2> QED
    BY <2>1, Zenon DEF CopiesExact
<1>5. FilesFaithful
  BY DEF DriverInv, FilesFaithful
<1> QED
  BY <1>1, <1>3, <1>4, <1>5

LEMMA InvInit == Init => DriverInv
<1> SUFFICES ASSUME Init PROVE DriverInv
  OBVIOUS
<1>1. ControlOK
  BY MaxCommandsAssumption DEF Init, ControlOK
<1>2. SlotsOK /\ LoadsFaithful
  BY DEF Init, SlotsOK, LoadsFaithful
<1> QED
  BY <1>1, <1>2 DEF Init, DriverInv, OutputFaithful

LEMMA InitImageIs ==
    ASSUME NEW s \in Sizes
    PROVE  Good(InitImage(s[1], s[2]))
<1> DEFINE w == s[1]
           h == s[2]
           n == w * h
           data == [i \in 0 .. n - 1 |-> Black]
<1>1. w \in Lengths /\ h \in Lengths /\ n < Word
  BY SizesAssumption DEF FitsWord
<1>2. Black \in Colors
  <2>1. Opaque \in Component /\ 0 \in Component
    BY ByteFacts DEF Component
  <2>2. Packed(0, 0, 0, Opaque) \in Colors
    BY <2>1, PackedFacts
  <2>3. Packed(0, 0, 0, Opaque) = Opaque
    BY ByteFacts DEF Packed
  <2> QED
    BY <2>2, <2>3 DEF Black
<1>3. data \in [0 .. n - 1 -> Colors]
  <2> HIDE DEF n
  <2> QED
    BY <1>2
<1>4. InitImage(w, h) = Image(w, h, data)
  BY DEF InitImage
<1> HIDE DEF data
<1>5. /\ InitImage(w, h).width = w /\ InitImage(w, h).height = h
      /\ InitImage(w, h).data = data
  BY <1>4 DEF Image
<1> QED
  BY <1>1, <1>3, <1>4, <1>5, Zenon DEF Good

\* A command that draws, and one that ends the program.
LEMMA DrawKeeps ==
    ASSUME DriverInv, Command, NEW img, img = None \/ Good(img), Draw(img)
    PROVE  DriverInv'
<1>1. ControlOK' /\ pc' = "commands" /\ output' = None
  BY MaxCommandsAssumption DEF DriverInv, Command, Draw, ControlOK
<1>2. canvas' = None \/ Good(canvas)'
  BY DEF Draw, Good, Image
<1>3. SlotsOK' /\ LoadsFaithful'
  <2>1. images' = images
    BY DEF Draw
  <2> QED
    BY <2>1 DEF DriverInv, SlotsOK, LoadsFaithful, Good, Image
<1>4. OutputFaithful'
  BY <1>1 DEF OutputFaithful
<1> QED
  BY <1>1, <1>2, <1>3, <1>4 DEF DriverInv

LEMMA FailKeeps ==
    ASSUME DriverInv, Command, NEW e \in {"yes", "killed"}, Fail(e)
    PROVE  DriverInv'
<1>1. ControlOK' /\ error' # "no" /\ output' = None
  BY MaxCommandsAssumption DEF DriverInv, Command, Fail, ControlOK
<1>2. canvas' = canvas /\ images' = images /\ pc' = "exit"
  BY DEF Fail
<1>3. canvas' = None \/ Good(canvas)'
  BY <1>2 DEF DriverInv, Good, Image
<1>4. SlotsOK' /\ LoadsFaithful'
  BY <1>2 DEF DriverInv, SlotsOK, LoadsFaithful, Good, Image
<1>5. OutputFaithful'
  BY <1>1 DEF OutputFaithful
<1> QED
  BY <1>1, <1>2, <1>3, <1>4, <1>5 DEF DriverInv

LEMMA SizeKeeps ==
    ASSUME DriverInv, Size
    PROVE  DriverInv'
<1>1. PICK s \in Sizes : Draw(InitImage(s[1], s[2]))
  BY DEF Size
<1>2. Command /\ Good(InitImage(s[1], s[2]))
  BY InitImageIs DEF Size
<1> QED
  BY <1>1, <1>2, DrawKeeps

LEMMA ShapesKeep ==
    ASSUME DriverInv, Rectangle \/ Circle
    PROVE  DriverInv'
<1>1. Good(canvas) /\ version \in {"c", "asm"} /\ Command
  BY DEF DriverInv, ControlOK, Rectangle, Circle
<1>2. CASE Rectangle
  <2>1. PICK rect \in Rects, color \in Paints : Draw(RectDrawn(rect, color))
    BY <1>2 DEF Rectangle
  <2>2. Good(RectDrawn(rect, color))
    BY <1>1, PaintsAssumption, RectangleIs
  <2> QED
    BY <1>1, <2>1, <2>2, DrawKeeps
<1>3. CASE Circle
  <2>1. PICK p \in Points, r \in Radii, color \in Paints : Draw(CircleDrawn(p, r, color))
    BY <1>3 DEF Circle
  <2>2. Good(CircleDrawn(p, r, color))
    BY <1>1, PaintsAssumption, CircleIs
  <2> QED
    BY <1>1, <2>1, <2>2, DrawKeeps
<1> QED
  BY <1>2, <1>3

LEMMA LoadKeeps ==
    ASSUME DriverInv, Load
    PROVE  DriverInv'
<1>1. PICK n \in Slots, file \in Files :
         Readable(file) /\ images' = [images EXCEPT ![n] = ReadImage(file)]
  BY DEF Load
<1>2. Command /\ UNCHANGED <<canvas, error, pc>>
  BY DEF Load
<1>3. ControlOK' /\ pc' = "commands" /\ output' = None
  BY <1>2, MaxCommandsAssumption DEF DriverInv, Command, ControlOK
<1>4. canvas' = None \/ Good(canvas)'
  BY <1>2 DEF DriverInv, Good, Image
<1>5. Good(ReadImage(file)) /\ FromFile(ReadImage(file), file)
  BY <1>1, ReadImageIs
<1>6. /\ images' = [m \in Slots |-> images'[m]]
      /\ \A m \in Slots : images'[m] = IF m = n THEN ReadImage(file) ELSE images[m]
  <2>1. images = [m \in Slots |-> images[m]]
    BY DEF DriverInv, SlotsOK
  <2> QED
    BY <1>1, <2>1
<1>7. SlotsOK'
  <2>1. ASSUME NEW m \in Slots PROVE images'[m] = None \/ Good(images'[m])
    BY <1>5, <1>6 DEF DriverInv, SlotsOK
  <2>2. \A m \in Slots : Good(images[m])' <=> Good(images'[m])
    BY DEF Good, Image
  <2> QED
    BY <1>6, <2>1, <2>2 DEF SlotsOK
<1>8. LoadsFaithful'
  <2>1. ASSUME NEW m \in Slots, images'[m] # None
        PROVE  \E f \in Files : FromFile(images'[m], f)
    <3>1. CASE m = n
      BY <1>5, <1>6, <3>1
    <3>2. CASE m # n
      BY <1>6, <2>1, <3>2, LoadsFaithfulIs DEF DriverInv
    <3> QED
      BY <3>1, <3>2
  <2> QED
    BY <2>1, Zenon DEF LoadsFaithful, FromFile
<1>9. OutputFaithful'
  BY <1>3 DEF OutputFaithful
<1> QED
  BY <1>3, <1>4, <1>7, <1>8, <1>9 DEF DriverInv

\* A tile drawn before there is a canvas: nothing of it is on the image.
LEMMA NoCanvasCopies ==
    ASSUME canvas = None, NEW map, NEW p \in Points, NEW tile \in Rects
    PROVE  Copied(map, p, tile) = {} \/ TileCrashes(Copied(map, p, tile))
<1>1. Target.width = 0
  BY DEF Target, Image
<1> HIDE DEF Target
<1>2. \A x, y : ComputeIndex(Target, x, y) = NoIndex
  <2> SUFFICES ASSUME NEW x, NEW y PROVE ~InBounds(Target, x, y)
    BY Zenon DEF ComputeIndex
  <2> DEFINE columns == 0 .. Target.width - 1
  <2>1. columns = {}
    BY <1>1
  <2>2. InBounds(Target, x, y) => x \in columns
    BY Zenon DEF InBounds
  <2> HIDE DEF columns
  <2> QED
    BY <2>1, <2>2
<1>3. CASE version = "c"
  <2>1. ASSUME NEW c \in Copied(map, p, tile) PROVE c[1] = NoIndex
    <3>1. PICK x, y, n : c = <<ComputeIndex(Target, x, y), n>>
      BY <1>3, <2>1, Zenon DEF Copied, TileCopies
    <3> QED
      BY <1>2, <3>1
  <2> QED
    BY <2>1 DEF TileCrashes
<1>4. CASE version # "c"
  <2>1. ASSUME NEW c \in AsmTileCopies(Target, p[1], p[2], map, tile) PROVE FALSE
    <3>1. PICK q \in (0 .. tile.width - 1) \X (0 .. tile.height - 1) :
            /\ c[1] = AsmComputeIndex(Target, p[1] + q[1], p[2] + q[2])
            /\ c[1] # NoIndex
      BY <2>1 DEF AsmTileCopies
    <3>2. p[1] + q[1] \in Int
      BY PointFacts
    <3>3. ~AsmInBounds(Target, p[1] + q[1], p[2] + q[2])
      BY <1>1, <3>2 DEF AsmInBounds
    <3> QED
      BY <3>1, <3>3 DEF AsmComputeIndex
  <2> QED
    BY <1>4, <2>1 DEF Copied
<1> QED
  BY <1>3, <1>4

LEMMA TileKeeps ==
    ASSUME DriverInv, Tile
    PROVE  DriverInv'
<1>1. PICK n \in Slots, tile \in Rects, p \in Points :
         /\ images[n] # None
         /\ LET copies == Copied(images[n], p, tile)
            IN  IF TileCrashes(copies)
                  THEN Fail("killed")
                  ELSE Draw(IF copies = {} THEN canvas
                            ELSE DrawTile(canvas, copies, images[n]))
  BY DEF Tile
<1> DEFINE map == images[n]
           copies == Copied(map, p, tile)
<1>2. /\ Command /\ Good(map) /\ version \in {"c", "asm"}
      /\ canvas = None \/ Good(canvas)
  BY <1>1 DEF Tile, DriverInv, SlotsOK, ControlOK
<1>3. CASE TileCrashes(copies)
  <2>1. Fail("killed")
    BY <1>1, <1>3
  <2> QED
    BY <1>2, <2>1, FailKeeps
<1>4. CASE ~TileCrashes(copies) /\ copies = {}
  <2>1. Draw(canvas)
    BY <1>1, <1>4
  <2> QED
    BY <1>2, <2>1, DrawKeeps
<1>5. CASE ~TileCrashes(copies) /\ copies # {}
  <2>1. Draw(DrawTile(canvas, copies, map))
    BY <1>1, <1>5
  <2>2. canvas # None
    BY <1>5, NoCanvasCopies
  <2>3. Good(DrawTile(canvas, copies, map))
    BY <1>2, <1>5, <2>2, TileIs
  <2> HIDE DEF copies, map
  <2> QED
    BY <1>2, <2>1, <2>3, DrawKeeps
<1> QED
  BY <1>3, <1>4, <1>5

LEMMA SpriteKeeps ==
    ASSUME DriverInv, Sprite
    PROVE  DriverInv'
<1>1. PICK n \in Slots, sprite \in Rects, p \in Points :
         /\ images[n] # None
         /\ IF version = "asm"
              THEN IF AsmSpriteKills(Target, p[1], p[2], images[n], sprite)
                     THEN Fail("killed") ELSE Draw(canvas)
              ELSE Draw(IF canvas = None THEN canvas
                        ELSE DrawSprite(canvas, p[1], p[2], images[n], sprite))
  BY DEF Sprite
<1>2. /\ Command
      /\ Good(images[n])
      /\ canvas = None \/ Good(canvas)
  BY <1>1 DEF Sprite, DriverInv, SlotsOK
<1>3. CASE Fail("killed")
  BY <1>2, <1>3, FailKeeps
<1>4. CASE Draw(canvas)
  BY <1>2, <1>4, DrawKeeps
<1>5. CASE canvas # None /\ Draw(DrawSprite(canvas, p[1], p[2], images[n], sprite))
  <2>1. Good(DrawSprite(canvas, p[1], p[2], images[n], sprite))
    BY <1>2, <1>5, SpriteIs
  <2> QED
    BY <1>2, <1>5, <2>1, DrawKeeps
<1> QED
  BY <1>1, <1>3, <1>4, <1>5

LEMMA WriteKeeps ==
    ASSUME DriverInv, Write
    PROVE  DriverInv'
<1>1. /\ pc = "write" /\ pc' = "exit"
      /\ UNCHANGED <<canvas, images, littleEndian, version, commands>>
      /\ \/ error' = "no" /\ output' = Written(Target)
         \/ error' = "yes" /\ output' \in {output, Partial}
  BY DEF Write
<1>2. ControlOK'
  BY <1>1 DEF DriverInv, ControlOK
<1>3. canvas' = None \/ Good(canvas)'
  BY <1>1 DEF DriverInv, Good, Image
<1>4. SlotsOK' /\ LoadsFaithful'
  BY <1>1 DEF DriverInv, SlotsOK, LoadsFaithful, Good, Image
<1>5. Target' = Target
  BY <1>1 DEF Target
<1>6. Written(Target) = [i \in DOMAIN Target.data |-> Bytes(Target.data[i])]
  <2>1. ASSUME NEW i \in DOMAIN Target.data PROVE Target.data[i] \in Colors
    <3>1. CASE canvas = None
      <4>1. DOMAIN Target.data = {}
        BY <3>1 DEF Target, Image
      <4> QED
        BY <4>1
    <3>2. CASE canvas # None
      <4>1. Good(canvas) /\ Target = canvas
        BY <3>2 DEF Target, DriverInv
      <4> QED
        BY <4>1, GoodFacts
    <3> QED
      BY <3>1, <3>2
  <2>2. ASSUME NEW i \in DOMAIN Target.data
        PROVE  Stored(BigEndian(Target.data[i])) = Bytes(Target.data[i])
    BY <2>1, WrittenIs
  <2> HIDE DEF Target
  <2> QED
    BY <2>2, Zenon DEF Written
<1>7. OutputFaithful'
  <2>1. CASE error' = "no" /\ output' = Written(Target)
    <3>1. output' = [i \in DOMAIN Target.data |-> Bytes(Target.data[i])]
      BY <1>6, <2>1
    <3> HIDE DEF Target
    <3> QED
      BY <1>5, <2>1, <3>1, Zenon DEF OutputFaithful, Bytes
  <2>2. CASE error' = "yes" /\ output' \in {output, Partial}
    <3>1. output = None
      BY <1>1 DEF DriverInv
    <3>2. error' # "no" /\ output' \in {None, Partial}
      BY <2>2, <3>1
    <3> QED
      BY <3>2, Zenon DEF OutputFaithful
  <2> QED
    BY <1>1, <2>1, <2>2
<1> QED
  BY <1>1, <1>2, <1>3, <1>4, <1>7 DEF DriverInv

LEMMA InvStep == DriverInv /\ [Next]_vars => DriverInv'
<1> SUFFICES ASSUME DriverInv, [Next]_vars PROVE DriverInv'
  OBVIOUS
<1>1. CASE Size
  BY <1>1, SizeKeeps
<1>2. CASE Rectangle \/ Circle
  BY <1>2, ShapesKeep
<1>3. CASE Load
  BY <1>3, LoadKeeps
<1>4. CASE Tile
  BY <1>4, TileKeeps
<1>5. CASE Sprite
  BY <1>5, SpriteKeeps
<1>6. CASE BadCommand \/ LoadKilled
  BY <1>6, FailKeeps DEF BadCommand, LoadKilled
<1>7. CASE EndOfInput
  BY <1>7
  DEF EndOfInput, DriverInv, ControlOK, SlotsOK, LoadsFaithful, OutputFaithful, Good,
      Image
<1>8. CASE Write
  BY <1>8, WriteKeeps
<1>9. CASE UNCHANGED vars
  BY <1>9
  DEF vars, DriverInv, ControlOK, SlotsOK, LoadsFaithful, OutputFaithful, Target, Good,
      Image
<1> QED
  BY <1>1, <1>2, <1>3, <1>4, <1>5, <1>6, <1>7, <1>8, <1>9 DEF Next

(* The invariant holds in every state that can be reached.                   *)
THEOREM DriverInvAlways == Spec => []DriverInv
<1> QED
  BY InvInit, InvStep, PTL DEF Spec

(* Every image the program ever holds, a new canvas, a file that was read or *)
(* what any sequence of commands made of one, has as many pixels as its size *)
(* says and a color in each (struct Image).                                  *)
THEOREM ImagesTypeCorrect == Spec => []DriverTypeOK
<1>1. DriverInv => DriverTypeOK
  BY InvImplies
<1> QED
  BY <1>1, DriverInvAlways, PTL

(* Whatever has been drawn before, draw_rect and draw_circle change exactly  *)
(* the pixels of the shape that are on the canvas, each blended once, in C   *)
(* and in assembly, for any rectangle and any circle that does not overflow. *)
THEOREM ShapesCorrect == Spec => []ShapesExact
<1>1. DriverInv => ShapesExact
  BY InvImplies
<1> QED
  BY <1>1, DriverInvAlways, PTL

(* draw_tile and draw_sprite take every pixel to its place, clipped to the   *)
(* canvas and never from beyond the map; draw_tile in assembly does so for   *)
(* the tiles it takes, and draw_sprite in assembly draws nothing.            *)
THEOREM CopiesCorrect == Spec => []CopiesExact
<1>1. DriverInv => CopiesExact
  BY InvImplies
<1> QED
  BY <1>1, DriverInvAlways, PTL

(* read_image and write_image keep every component of every pixel on         *)
(* machines of either byte order, and a file that could not be completed is  *)
(* reported.                                                                 *)
THEOREM FilesCorrect == Spec => []FilesFaithful
<1>1. DriverInv => FilesFaithful
  BY InvImplies
<1> QED
  BY <1>1, DriverInvAlways, PTL
=============================================================================
