------------------------------- MODULE BigInt -------------------------------
(***************************************************************************)
(* csf_assign01: integers of any size, as a vector of words, the lowest    *)
(* first, and a sign.  Words have 64 bits in the code and WordBits here.   *)
(*                                                                         *)
(* The operators are the member functions of BigInt.  The specification is *)
(* a program that computes with them: x is what it has computed so far     *)
(* from the values it constructs, so that the properties speak of every    *)
(* representation that calls can reach, leading zeros included.            *)
(***************************************************************************)
EXTENDS Integers, SequencesExt

CONSTANTS
    WordBits,     \* 64
    DigitBits,    \* 4: bits of a digit of to_hex()
    Radix,        \* 10: the radix of to_dec()
    Constructed,  \* the values the program constructs
    Shifts,       \* the counts it shifts by
    MaxWords      \* bound on the length of a result

\* 2 ^ n, by a definition that proofs can use.
TwoTo[n \in Nat] == IF n = 0 THEN 1 ELSE 2 * TwoTo[n - 1]

Base == TwoTo[WordBits]
Words == 0 .. Base - 1
BigInts == [magnitude : Seq(Words), sign : BOOLEAN]
Unsigned == [magnitude : Seq(Words), sign : {FALSE}]

ASSUME SizesAssumption ==
    /\ {WordBits, DigitBits, MaxWords} \subseteq Nat \ {0}
    /\ WordBits % DigitBits = 0
    /\ Radix \in 2 .. Base - 1
    /\ Shifts \subseteq Nat
ASSUME ConstructedAssumption ==
    /\ Constructed \subseteq BigInts
    /\ \A y \in Constructed : Len(y.magnitude) <= MaxWords

VARIABLE x

-----------------------------------------------------------------------------
(* Reading a value.                                                        *)

Big(val) == [magnitude |-> <<val>>, sign |-> FALSE]

\* get_bits(); words are counted from 1 here.
Word(m, i) == IF i <= Len(m) THEN m[i] ELSE 0

IsZero(v) == \A i \in DOMAIN v.magnitude : v.magnitude[i] = 0

\* kill_leading_zeros()
Significant(m) == Max({0} \cup {i \in DOMAIN m : m[i] # 0})

\* Variant with a bug: the zero words stay.
Untrimmed(m) == m

\* The loops that pop zero words off the end, but not the last word.
Trimmed(m) == SubSeq(m, 1, Min({Len(m), Max({1, Significant(m)})}))

IsBitSet(v, n) == (Word(v.magnitude, n \div WordBits + 1) \div TwoTo[n % WordBits]) % 2 = 1

CompareMagnitudes(l, r) ==
    LET size == Significant(l)
        differ == {i \in 1 .. size : l[i] # Word(r, i)}
    IN  IF size > Significant(r) THEN 1
        ELSE IF size < Significant(r) THEN -1
        ELSE IF differ = {} THEN 0
        ELSE IF l[Max(differ)] < r[Max(differ)] THEN -1
        ELSE 1

\* Variant with a bug: two negative values compare as their magnitudes.
CompareUnsigned(v, w) ==
    IF v.sign = w.sign THEN CompareMagnitudes(v.magnitude, w.magnitude)
    ELSE IF v.sign THEN -1 ELSE 1

Compare(v, w) ==
    LET cmp == CompareMagnitudes(v.magnitude, w.magnitude) IN
    IF IsZero(v) /\ IsZero(w) THEN 0
    ELSE IF v.sign THEN (IF w.sign THEN -cmp ELSE -1)
    ELSE IF w.sign THEN 1 ELSE cmp

-----------------------------------------------------------------------------
(* Addition and subtraction.                                               *)

\* Unary minus.  A leading zero word goes to the other end.
Negated(v) ==
    IF IsZero(v) THEN v
    ELSE [magnitude |-> IF Last(v.magnitude) = 0
                        THEN <<0>> \o Front(v.magnitude)
                        ELSE v.magnitude,
          sign |-> ~ v.sign]

\* The word that a and b add up to with the carry c, and the carry out.
WordSum(a, b, c) == (a + b + c) % Base

\* Variant with a bug: the carry into a full word is not carried on.
CarryOfWords(a, b, c) ==
    LET sum == (a + b) % Base IN IF sum < a \/ sum < b THEN 1 ELSE 0

CarryOut(a, b, c) ==
    LET sum == (a + b) % Base
    IN  IF sum < a \/ sum < b \/ (sum + c) % Base < sum THEN 1 ELSE 0

MaxSize(a, b) == IF Len(a) < Len(b) THEN Len(b) ELSE Len(a)

\* The carry after each word, in the loop of operator+.
Carries(a, b) ==
    LET carry[i \in 0 .. MaxSize(a, b)] ==
            IF i = 0 THEN 0 ELSE CarryOut(Word(a, i), Word(b, i), carry[i - 1])
    IN  carry

\* operator+ for operands of the same sign.
AddedMagnitudes(a, b) ==
    LET size == MaxSize(a, b)
        carry == Carries(a, b)
    IN  [i \in 1 .. size |-> WordSum(Word(a, i), Word(b, i), carry[i - 1])]
            \o IF carry[size] > 0 THEN <<1>> ELSE <<>>

\* b + borrow is a sum of words, which may wrap to 0.
Enough(a, b, borrow) == a >= (b + borrow) % Base

\* The borrow after each word, in the loop of operator-.
Borrows(larger, smaller) ==
    LET borrow[i \in 0 .. Len(larger)] ==
          IF i = 0 THEN 0
          ELSE IF Enough(larger[i], Word(smaller, i), borrow[i - 1]) THEN 0 ELSE 1
    IN  borrow

SubtractedMagnitudes(larger, smaller) ==
    Trimmed([i \in DOMAIN larger |->
               (larger[i] - Word(smaller, i) - Borrows(larger, smaller)[i - 1]) % Base])

SameSignSum(v, w) ==
    [magnitude |-> AddedMagnitudes(v.magnitude, w.magnitude), sign |-> v.sign]

SameSignDifference(v, w) ==
    LET less == CompareMagnitudes(v.magnitude, w.magnitude) < 0
        m == IF less THEN SubtractedMagnitudes(w.magnitude, v.magnitude)
                     ELSE SubtractedMagnitudes(v.magnitude, w.magnitude)
        zero == \A i \in DOMAIN m : m[i] = 0
    IN  [magnitude |-> m, sign |-> ~ zero /\ (v.sign # less)]

\* operator-: the negated operand is not zero, so that operator+ does not
\* call back.
Difference(v, w) ==
    IF IsZero(v) THEN Negated(w)
    ELSE IF IsZero(w) THEN v
    ELSE IF v.sign # w.sign THEN SameSignSum(v, Negated(w))
    ELSE SameSignDifference(v, w)

Sum(v, w) ==
    IF v.sign = w.sign THEN SameSignSum(v, w)
    ELSE IF v.sign THEN Difference(w, Negated(v))
    ELSE Difference(v, Negated(w))

-----------------------------------------------------------------------------
(* Shifts, multiplication and division.                                    *)

\* The bits shifted out of word i.
BitsOut(m, i, bits) == IF i = 0 \/ bits = 0 THEN 0 ELSE m[i] \div TwoTo[WordBits - bits]

\* operator<< of a value that is not negative.
Shifted(v, n) ==
    LET bits == n % WordBits
        m == v.magnitude
    IN  [magnitude |->
           Trimmed([i \in 1 .. n \div WordBits |-> 0]
                   \o [i \in 1 .. Len(m) |->
                         ((m[i] * TwoTo[bits]) % Base) + BitsOut(m, i - 1, bits)]
                   \o <<BitsOut(m, Len(m), bits)>>),
         sign |-> FALSE]

Halved(v) ==
    LET m == v.magnitude
    IN  [magnitude |-> Trimmed([i \in DOMAIN m |->
                           m[i] \div 2 + (Word(m, i + 1) % 2) * TwoTo[WordBits - 1]]),
         sign |-> v.sign]

\* Variant with a bug: the carry starts at the word itself.
RowCarryLost(acc, i, a, b) ==
    [j \in 0 .. Len(b) |-> IF j = 0 THEN 0 ELSE (a * b[j] + acc[i + j - 1]) \div Base]

\* The inner loop of operator*: a times b, added to acc from word i on.
RowCarry(acc, i, a, b) ==
    LET carry[j \in 0 .. Len(b)] ==
          IF j = 0 THEN 0
          ELSE (a * b[j] + acc[i + j - 1] + carry[j - 1]) \div Base
    IN  carry

RowAdded(acc, i, a, b) ==
    LET carry == RowCarry(acc, i, a, b)
    IN  [k \in DOMAIN acc |->
           IF k \in i .. i + Len(b) - 1
             THEN (a * b[k - i + 1] + acc[k] + carry[k - i]) % Base
           ELSE IF k = i + Len(b) THEN (acc[k] + carry[Len(b)]) % Base
           ELSE acc[k]]

\* The result after each word of a, in the outer loop.
Rows(a, b) ==
    LET rows[i \in 0 .. Len(a)] ==
            IF i = 0 THEN [k \in 1 .. Len(a) + Len(b) |-> 0]
            ELSE RowAdded(rows[i - 1], i, a[i], b)
    IN  rows

Product(v, w) ==
    LET a == v.magnitude
        b == w.magnitude
    IN  IF IsZero(v) \/ IsZero(w) THEN Big(0)
        ELSE [magnitude |-> Trimmed(Rows(a, b)[Len(a)]), sign |-> v.sign # w.sign]

SearchOn(min, max) == CompareMagnitudes(min.magnitude, max.magnitude) <= 0

\* The binary search of operator/, from any min and max on.
Search(top, bottom) ==
    LET search[r \in Unsigned \X Unsigned] ==
          LET min == r[1]
              max == r[2]
              mid == Halved(Sum(min, max))
              cmp == CompareMagnitudes(Product(mid, bottom).magnitude, top.magnitude)
          IN  IF ~ SearchOn(min, max) THEN max
              ELSE IF cmp = 0 THEN mid
              ELSE IF cmp < 0 THEN search[<<Sum(mid, Big(1)), max>>]
              ELSE search[<<min, Difference(mid, Big(1))>>]
    IN  search

Quotient(v, w) ==
    LET top == [v EXCEPT !.sign = FALSE]
        bottom == [w EXCEPT !.sign = FALSE]
    IN  IF CompareMagnitudes(v.magnitude, w.magnitude) < 0 THEN Big(0)
        ELSE [Search(top, bottom)[<<Big(0), top>>] EXCEPT !.sign = v.sign # w.sign]

-----------------------------------------------------------------------------
(* Digits, without the minus sign and the characters.                      *)

\* The loop of to_dec(), on a value that is not negative; the digits are
\* reversed in the end.
DecDigits ==
    LET digits[v \in Unsigned] ==
          LET ans == Quotient(v, Big(Radix))
              remainder == Difference(v, Product(ans, Big(Radix)))
          IN  IF IsZero(v) THEN <<>> ELSE Append(digits[ans], Head(remainder.magnitude))
    IN  digits

ToDec(v) == IF IsZero(v) THEN <<0>> ELSE DecDigits[[v EXCEPT !.sign = FALSE]]

ToHex(v) ==
    LET Chunk(n) == LET i == Len(v.magnitude) - n \div (WordBits \div DigitBits)
                        k == WordBits - DigitBits - ((n * DigitBits) % WordBits)
                    IN  (v.magnitude[i] \div TwoTo[k]) % TwoTo[DigitBits]
        size == Len(v.magnitude) * (WordBits \div DigitBits)
        first == Min({n \in 0 .. size - 1 : Chunk(n) # 0})
    IN  IF IsZero(v) THEN <<0>>
        ELSE [d \in 1 .. size - first |-> Chunk(first + d - 1)]

-----------------------------------------------------------------------------
(* The program.                                                            *)

Init == x \in Constructed

Becomes(v) == Len(v.magnitude) <= MaxWords /\ x' = v

Assign(y) == Becomes(y)
Add(y) == Becomes(Sum(x, y))
Subtract(y) == Becomes(Difference(x, y))
Negate == Becomes(Negated(x))
Multiply(y) == Becomes(Product(x, y))

\* Both throw std::invalid_argument where they are not enabled.
Divide(y) == ~ IsZero(y) /\ Becomes(Quotient(x, y))
ShiftLeft(n) == ~ x.sign /\ Becomes(Shifted(x, n))

Next ==
    \/ Negate
    \/ \E y \in Constructed :
         Assign(y) \/ Add(y) \/ Subtract(y) \/ Multiply(y) \/ Divide(y)
    \/ \E n \in Shifts : ShiftLeft(n)

Spec == Init /\ [][Next]_x

-----------------------------------------------------------------------------
(* Properties.                                                             *)

\* What the first n words are worth.
Low(m) ==
    LET low[n \in Nat] ==
          IF n = 0 THEN 0 ELSE low[n - 1] + Word(m, n) * TwoTo[WordBits * (n - 1)]
    IN  low
Absolute(m) == Low(m)[Len(m)]
Value(v) == IF v.sign THEN -Absolute(v.magnitude) ELSE Absolute(v.magnitude)

Operands == Constructed \cup {x}

\* Words are in range.  Leading zeros are there only if they were
\* constructed: no operation makes new ones.
Leading(v) == Max({0, Len(v.magnitude) - Max({1, Significant(v.magnitude)})})
BigIntTypeOK ==
    /\ x \in BigInts
    /\ Len(x.magnitude) <= MaxWords
    /\ Leading(x) <= Max({Leading(y) : y \in Constructed})

\* Where the code goes wrong: a word that is all ones is subtracted with a
\* borrow, and the borrow is lost; or a value with a leading zero is negated,
\* which moves the zero to the other end.
LosesBorrow(l, s) == \E i \in DOMAIN l : Borrows(l, s)[i - 1] = 1 /\ Word(s, i) = Base - 1
BorrowLost(v, w) ==
    LosesBorrow(v.magnitude, w.magnitude) \/ LosesBorrow(w.magnitude, v.magnitude)
Rotates(v) == ~ IsZero(v) /\ Last(v.magnitude) = 0

\* Sums, differences and negations are those of the integers but for that:
\* carries and borrows run through all words and the signs are right.
SumsExact ==
    /\ ~ Rotates(x) => Value(Negated(x)) = -Value(x)
    /\ \A y \in Operands :
         (~ BorrowLost(x, y) /\ ~ Rotates(x) /\ ~ Rotates(y))
           => /\ Value(Sum(x, y)) = Value(x) + Value(y)
              /\ Value(Difference(x, y)) = Value(x) - Value(y)

\* Products, shifts and quotients are those of the integers, whatever the
\* representation of the operands.  Quotients are truncated (bigint.h:136-147):
\* the binary search, which adds, subtracts and multiplies words, always ends
\* at the right candidate.
Truncated(a, b) ==
    LET q == Max({a, -a}) \div Max({b, -b}) IN IF (a < 0) = (b < 0) THEN q ELSE -q
ProductsExact ==
    /\ \A y \in Operands :
         /\ Value(Product(x, y)) = Value(x) * Value(y)
         /\ ~ IsZero(y) => Value(Quotient(x, y)) = Truncated(Value(x), Value(y))
    /\ ~ x.sign => \A n \in Shifts : Value(Shifted(x, n)) = Value(x) * TwoTo[n]

\* The order is that of the integers, with leading zeros and two zeros.
OrderExact(v, w) ==
    LET d == Value(v) - Value(w)
    IN  Compare(v, w) = (IF d > 0 THEN 1 ELSE IF d < 0 THEN -1 ELSE 0)

\* The digits and the bits that are read off a value are those of its
\* absolute value; to_dec() divides and subtracts to find them.
Horner(digits, radix) ==
    LET number[n \in 0 .. Len(digits)] ==
          IF n = 0 THEN 0 ELSE number[n - 1] * radix + digits[n]
    IN  number[Len(digits)]
NumeralsExact(v) ==
    /\ Horner(ToDec(v), Radix) = Absolute(v.magnitude)
    /\ Horner(ToHex(v), TwoTo[DigitBits]) = Absolute(v.magnitude)
    /\ \A n \in 0 .. WordBits * MaxWords :
         IsBitSet(v, n) <=> (Absolute(v.magnitude) \div TwoTo[n]) % 2 = 1

\* A negative zero, for which is_negative() holds, is only made from one.
NegativeZero(v) == IsZero(v) /\ v.sign
NoNewNegativeZero(v, w) ==
    ~ NegativeZero(v) /\ ~ NegativeZero(w) =>
        /\ ~ NegativeZero(Negated(v))
        /\ ~ NegativeZero(Sum(v, w)) /\ ~ NegativeZero(Difference(v, w))
        /\ ~ NegativeZero(Product(v, w))
        /\ ~ IsZero(w) => ~ NegativeZero(Quotient(v, w))

\* The representations of one integer cannot be told apart: they compare and
\* print alike, and a zero is never negative unless it was made so.
RepresentationsAgree ==
    /\ NumeralsExact(x)
    /\ \A y \in Operands : OrderExact(x, y) /\ NoNewNegativeZero(x, y)

\* "the BigInt value representing the difference of the operands"
\* (bigint.h:102).
DifferencesExact ==
    \A y \in Operands : Value(Difference(x, y)) = Value(x) - Value(y)
=============================================================================
