-------------------------- MODULE Encodings_proofs --------------------------
(***************************************************************************)
(* What Base58 and Base85 encode is what they decode: for keys and         *)
(* payloads of any length, and for any base, where the code's own          *)
(* conditions hold. Both are parts of Parts (its instances Key and Text).  *)
(***************************************************************************)
EXTENDS Parts, TLAPS, SequenceTheorems, WellFoundedInduction

-----------------------------------------------------------------------------
(* Arithmetic.                                                             *)

(* Quotient and remainder...                                               *)
LEMMA Division ==
  ASSUME NEW a \in Nat, NEW b \in Nat \ {0}
  PROVE  a \div b \in Nat /\ a % b \in 0 .. b - 1 /\ b * (a \div b) + (a % b) = a
<1>1. a % b \in 0 .. b - 1
  OBVIOUS
<1>2. b * (a \div b) + (a % b) = a
  OBVIOUS
<1>3. a \div b \in Nat
  OBVIOUS
<1> QED
  BY <1>1, <1>2, <1>3

(* ...which are the only ones.                                             *)
LEMMA Quotient ==
  ASSUME NEW a \in Nat, NEW b \in Nat \ {0}, NEW q \in Nat, NEW r \in 0 .. b - 1, a = b * q + r
  PROVE  a \div b = q /\ a % b = r
<1>1. a \div b = q
  OBVIOUS
<1>2. a % b = r
  OBVIOUS
<1> QED
  BY <1>1, <1>2

(* Multiples of b are at least b apart.                                    *)
LEMMA MultipleLarger ==
  ASSUME NEW b \in Nat, NEW x \in Nat, NEW y \in Nat, x < y
  PROVE  b * x + b <= b * y
<1>1. x + 1 <= y
  OBVIOUS
<1>2. b * (x + 1) <= b * y
  BY <1>1
<1>3. b * (x + 1) = b * x + b
  OBVIOUS
<1> QED
  BY <1>2, <1>3

(* A product of positive numbers.                                          *)
LEMMA Products ==
  ASSUME NEW a \in Nat \ {0}, NEW b \in Nat \ {0}
  PROVE  a * b \in Nat \ {0} /\ a <= a * b
OBVIOUS

(* And of numbers that may be 0.                                           *)
LEMMA ProductInNat ==
  ASSUME NEW a \in Nat, NEW b \in Nat PROVE a * b \in Nat
OBVIOUS

-----------------------------------------------------------------------------
(* Base85.                                                                 *)

(* Dividing twice.                                                         *)
LEMMA QuotientOfQuotient ==
  ASSUME NEW a \in Nat, NEW b \in Nat \ {0}, NEW c \in Nat \ {0}
  PROVE  (a \div b) \div c = a \div (b * c) /\ a \div b = c * (a \div (b * c)) + ((a \div b) % c)
<1>1. PICK q \in Nat, r \in 0 .. b - 1 : q = a \div b /\ r = a % b /\ a = b * q + r
  BY Division
<1>2. PICK p \in Nat, s \in 0 .. c - 1 : p = q \div c /\ s = q % c /\ q = c * p + s
  BY Division
<1>3. b * c \in Nat \ {0}
  BY Products
<1>4. a = (b * c) * p + (b * s + r)
  <2>1. b * q = b * (c * p + s)
    BY <1>2
  <2>2. b * (c * p + s) = (b * c) * p + b * s
    OBVIOUS
  <2>3. a = b * q + r
    BY <1>1
  <2> QED
    BY <2>1, <2>2, <2>3
<1>5. b * s + r \in 0 .. b * c - 1
  <2>1. b * s + b <= b * c
    BY MultipleLarger
  <2>2. b * s \in Nat
    OBVIOUS
  <2> QED
    BY <1>3, <2>1, <2>2
<1>6. a \div (b * c) = p
  BY <1>3, <1>4, <1>5, Quotient
<1> QED
  BY <1>1, <1>2, <1>6

Horner(b, h1, h2, h3, h4) == b * (b * (b * h1 + h2) + h3) + h4

(* The digits of a number in Horner's form are what it is made of.         *)
LEMMA DigitsOfNumber ==
  ASSUME NEW b \in Nat \ {0}, NEW h1 \in 0 .. b - 1, NEW h2 \in 0 .. b - 1, NEW h3 \in 0 .. b - 1, NEW h4 \in 0 .. b - 1,
         NEW v, v = Horner(b, h1, h2, h3, h4)
  PROVE  /\ v \in Nat /\ v % b = h4 /\ (v \div b) % b = h3 /\ (v \div (b * b)) % b = h2 /\ (v \div (b * b * b)) % b = h1
<1>1. PICK x \in Nat : x = b * h1 + h2
  OBVIOUS
<1>2. PICK y \in Nat : y = b * x + h3
  OBVIOUS
<1>3. v = b * y + h4 /\ v \in Nat
  BY <1>1, <1>2 DEF Horner
<1>4. b * b \in Nat \ {0} /\ (b * b) * b \in Nat \ {0}
  BY Products
<1>5. v \div b = y /\ v % b = h4
  BY <1>3, Quotient
<1>6. y \div b = x /\ y % b = h3
  BY <1>2, Quotient
<1>7. x \div b = h1 /\ x % b = h2
  BY <1>1, Quotient
<1>8. v \div (b * b) = x
  BY <1>3, <1>5, <1>6, QuotientOfQuotient
<1>9. v \div (b * b * b) = h1
  BY <1>3, <1>4, <1>7, <1>8, QuotientOfQuotient
<1>10. h1 % b = h1
  OBVIOUS
<1> QED
  BY <1>3, <1>5, <1>6, <1>7, <1>8, <1>9, <1>10

(* Geometric sums.                                                         *)
LEMMA Sums ==
  ASSUME NEW X \in Nat
  PROVE  /\ (X - 1) * 1 = X - 1
         /\ (X - 1) * (X + 1) = X * X - 1
         /\ (X - 1) * (X * X + X + 1) = X * X * X - 1
<1>1. (X - 1) * (X + 1) = X * X - 1
  OBVIOUS
<1>2. (X - 1) * (X * X + X + 1) = X * X * X - 1
  OBVIOUS
<1> QED
  BY <1>1, <1>2

(* The digits of a number, which are the quotients' remainders.            *)
LEMMA Radixes ==
  ASSUME NEW X \in Nat \ {0}, NEW number \in Nat, number < X * (X * X * X * X)
  PROVE  LET e1 == (number \div (X * X * X * X)) % X
             e2 == (number \div (X * X * X)) % X
             e3 == (number \div (X * X)) % X
             e4 == (number \div X) % X
             e5 == number % X
         IN  /\ number \div (X * X * X) = X * e1 + e2
             /\ number \div (X * X) = X * (X * e1 + e2) + e3
             /\ number \div X = X * (X * (X * e1 + e2) + e3) + e4
             /\ X * (X * (X * (X * e1 + e2) + e3) + e4) + e5 = number
<1>1. X * X \in Nat \ {0} /\ X * X * X \in Nat \ {0} /\ X * X * X * X \in Nat \ {0}
  BY Products
<1>2. X * (number \div X) + (number % X) = number
  BY Division
<1>3. number \div X = X * (number \div (X * X)) + ((number \div X) % X)
  BY QuotientOfQuotient
<1>4. number \div (X * X) = X * (number \div (X * X * X)) + ((number \div (X * X)) % X)
  BY <1>1, QuotientOfQuotient
<1>5. number \div (X * X * X) = X * (number \div (X * X * X * X)) + ((number \div (X * X * X)) % X)
  BY <1>1, QuotientOfQuotient
<1>6. (number \div (X * X * X * X)) % X = number \div (X * X * X * X)
  <2>1. PICK w \in Nat \ {0} : w = X * X * X * X
    BY <1>1
  <2>2. PICK q \in Nat, r \in 0 .. w - 1 : q = number \div w /\ number = w * q + r
    BY <2>1, Division
  <2>3. q < X
    <3>1. number < w * X
      BY <2>1
    <3>2. q >= X => w * q >= w * X
      OBVIOUS
    <3>3. w * q \in Nat /\ w * X \in Nat
      OBVIOUS
    <3> QED
      BY <2>2, <3>1, <3>2, <3>3
  <2>4. q = X * 0 + q /\ q \in 0 .. X - 1
    BY <2>3
  <2>5. q % X = q
    BY <2>4, Quotient
  <2> QED
    BY <2>1, <2>2, <2>5
<1> DEFINE e1 == (number \div (X * X * X * X)) % X
           e2 == (number \div (X * X * X)) % X
           e3 == (number \div (X * X)) % X
           e4 == (number \div X) % X
           e5 == number % X
<1>7. number \div (X * X * X) = X * e1 + e2
  BY <1>5, <1>6, Zenon
<1>8. number \div (X * X) = X * (number \div (X * X * X)) + e3
  BY <1>4, Zenon
<1>9. number \div X = X * (number \div (X * X)) + e4
  BY <1>3, Zenon
<1>10. X * (number \div X) + e5 = number
  BY <1>2, Zenon
<1> HIDE DEF e1, e2, e3, e4, e5
<1>11. number \div (X * X) = X * (X * e1 + e2) + e3
  BY <1>7, <1>8, Zenon
<1>12. number \div X = X * (X * (X * e1 + e2) + e3) + e4
  BY <1>9, <1>11, Zenon
<1>13. X * (X * (X * (X * e1 + e2) + e3) + e4) + e5 = number
  BY <1>10, <1>12, Zenon
<1> QED
  BY <1>7, <1>11, <1>12, <1>13, Zenon DEF e1, e2, e3, e4, e5

(* One more digit.                                                         *)
LEMMA BelowPower ==
  ASSUME NEW b \in Nat \ {0}, NEW p \in Nat, NEW y \in 0 .. p - 1, NEW h \in 0 .. b - 1
  PROVE  b * y + h \in 0 .. b * p - 1
<1>1. b * y + b <= b * p
  BY MultipleLarger
<1>2. b * y \in Nat /\ b * p \in Nat
  OBVIOUS
<1> QED
  BY <1>1, <1>2

(* The assumptions on the base and the radix, without the sequences.       *)
LEMMA BaseAndRadix ==
  /\ Base \in Nat \ {0, 1} /\ Radix \in Nat \ {0, 1} /\ Pad \in Nat /\ Radix - 1 <= Pad
  /\ Base * Base * Base * Base <= Radix * (Radix * Radix * Radix * Radix)
  /\ Pad * (Radix - 1) < (Radix - 1) * Base
  /\ Pad * (Radix * Radix - 1) < (Radix - 1) * (Base * Base)
  /\ Pad * (Radix * Radix * Radix - 1) < (Radix - 1) * (Base * Base * Base)
<1>1. /\ {Base, Radix, Pad} \subseteq Nat \ {0, 1}
      /\ Text!Pow(Base)[1] <= Radix * Text!Pow(Radix)[1]
      /\ Radix - 1 <= Pad
      /\ \A n \in 1 .. 3 : Pad * (Text!Pow(Radix)[5 - n] - 1) < (Radix - 1) * Text!Pow(Base)[5 - n]
  BY PartsAssumption DEF Text!Base85Assumption
<1>2. \A b : /\ Text!Pow(b)[1] = b * b * b * b /\ Text!Pow(b)[2] = b * b * b /\ Text!Pow(b)[3] = b * b
             /\ Text!Pow(b)[4] = b /\ Text!Pow(b)[5] = 1
  BY DEF Text!Pow
<1>3. /\ Pad * (Text!Pow(Radix)[4] - 1) < (Radix - 1) * Text!Pow(Base)[4]
      /\ Pad * (Text!Pow(Radix)[3] - 1) < (Radix - 1) * Text!Pow(Base)[3]
      /\ Pad * (Text!Pow(Radix)[2] - 1) < (Radix - 1) * Text!Pow(Base)[2]
  <2>1. 1 \in 1 .. 3 /\ 5 - 1 = 4 /\ 2 \in 1 .. 3 /\ 5 - 2 = 3 /\ 3 \in 1 .. 3 /\ 5 - 3 = 2
    OBVIOUS
  <2> HIDE DEF Text!Pow
  <2> QED
    BY <1>1, <2>1
<1> QED
  BY <1>1, <1>2, <1>3, Zenon

(* b is what the power x of the radix is of the base, and sum what its     *)
(* digits weigh.                                                           *)
CutsAt(x, sum, b) == (Radix - 1) * sum = x - 1 /\ Pad * (x - 1) < (Radix - 1) * b
Multiple(number, b, v) == number = b * v
Filled(number, x, sum) == x * (number \div x) + Pad * sum

(* With the digits behind the n-th replaced, x being the power of the      *)
(* radix and b that of the base that are cut off, a number whose lowest    *)
(* bytes are zero keeps its other bytes.                                   *)
LEMMA CutOff ==
  ASSUME NEW x \in Nat \ {0}, NEW sum \in Nat, NEW b \in Nat \ {0}, NEW v \in Nat, NEW number \in Nat,
         CutsAt(x, sum, b), Multiple(number, b, v)
  PROVE  Filled(number, x, sum) \in Nat /\ Filled(number, x, sum) \div b = v
<1>0. PICK X \in Nat \ {0, 1}, F \in Nat : X = Radix /\ F = Pad /\ X - 1 <= F /\ (X - 1) * sum = x - 1 /\ F * (x - 1) < (X - 1) * b
  BY BaseAndRadix DEF CutsAt
<1> DEFINE filled == Filled(number, x, sum)
<1>1. PICK q \in Nat, r \in 0 .. x - 1 : q = number \div x /\ number = x * q + r
  <2>1. number \div x \in Nat /\ number % x \in 0 .. x - 1 /\ x * (number \div x) + (number % x) = number
    BY Division
  <2> QED
    BY <2>1, Zenon
<1>2. F * sum \in Nat /\ x * q \in Nat
  OBVIOUS
<1>3. x - 1 <= F * sum
  <2>1. (X - 1) * sum <= F * sum
    BY <1>0
  <2> QED
    BY <1>0, <2>1
<1>4. F * sum < b
  <2>1. F * ((X - 1) * sum) < (X - 1) * b
    BY <1>0
  <2>2. F * ((X - 1) * sum) = (X - 1) * (F * sum)
    OBVIOUS
  <2>3. \A m \in Nat : m >= b => (X - 1) * m >= (X - 1) * b
    OBVIOUS
  <2> QED
    BY <1>2, <2>1, <2>2, <2>3
<1>5. filled = b * v + (F * sum - r)
  BY <1>0, <1>1, <1>2 DEF Filled, Multiple
<1>6. F * sum - r \in 0 .. b - 1
  BY <1>2, <1>3, <1>4
<1>7. filled \in Nat
  BY <1>0, <1>1, <1>2 DEF Filled
<1> HIDE DEF filled
<1>8. filled \div b = v
  <2>1. PICK rest \in 0 .. b - 1 : rest = F * sum - r
    BY <1>6
  <2>2. filled = b * v + rest
    BY <1>5, <2>1
  <2> QED
    BY <1>7, <2>2, Quotient
<1> QED
  BY <1>7, <1>8 DEF filled

FourBytes(h1, h2, h3, h4) == h1 * (Base * Base * Base) + h2 * (Base * Base) + h3 * Base + h4

(* The number of four bytes in Horner's form.                              *)
LEMMA NumberOfBytes ==
  ASSUME NEW h1 \in 0 .. Base - 1, NEW h2 \in 0 .. Base - 1, NEW h3 \in 0 .. Base - 1, NEW h4 \in 0 .. Base - 1,
         NEW number, number = FourBytes(h1, h2, h3, h4)
  PROVE  /\ number = Base * (Base * (Base * h1 + h2) + h3) + h4 /\ number \in Nat
         /\ number < Radix * (Radix * Radix * Radix * Radix)
<1>1. Base \in Nat \ {0}
  BY BaseAndRadix
<1>2. number = Base * (Base * (Base * h1 + h2) + h3) + h4
  BY <1>1 DEF FourBytes
<1>3. Base * h1 + h2 \in 0 .. Base * Base - 1
  BY <1>1, BelowPower
<1>4. Base * (Base * h1 + h2) + h3 \in 0 .. Base * (Base * Base) - 1
  <2>1. Base * Base \in Nat
    BY <1>1
  <2> QED
    BY <1>1, <1>3, <2>1, BelowPower
<1>5. Base * (Base * (Base * h1 + h2) + h3) + h4 \in 0 .. Base * (Base * (Base * Base)) - 1
  <2>1. Base * (Base * Base) \in Nat
    BY <1>1
  <2> QED
    BY <1>1, <1>4, <2>1, BelowPower
<1>6. Base * (Base * (Base * Base)) = Base * Base * Base * Base
  BY <1>1
<1>7. Base * Base * Base * Base <= Radix * (Radix * Radix * Radix * Radix)
  BY BaseAndRadix
<1>8. Radix * (Radix * Radix * Radix * Radix) \in Nat /\ Base * Base * Base * Base \in Nat
  BY BaseAndRadix
<1> QED
  BY <1>2, <1>5, <1>6, <1>7, <1>8

Digit(number, k) == Text!Encodeblock(number, k)

NumberOfDigits(f1, f2, f3, f4, f5) ==
  f1 * (Radix * Radix * Radix * Radix) + f2 * (Radix * Radix * Radix) + f3 * (Radix * Radix) + f4 * Radix + f5

(* The quotients of a block by the powers of the radix, in its digits.     *)
LEMMA DigitsInHorner ==
  ASSUME NEW number \in Nat, number < Radix * (Radix * Radix * Radix * Radix)
  PROVE  /\ \A k \in 1 .. 5 : Digit(number, k) \in Nat
         /\ number \div (Radix * Radix * Radix) = Radix * Digit(number, 1) + Digit(number, 2)
         /\ number \div (Radix * Radix) = Radix * (Radix * Digit(number, 1) + Digit(number, 2)) + Digit(number, 3)
         /\ number \div Radix = Radix * (Radix * (Radix * Digit(number, 1) + Digit(number, 2)) + Digit(number, 3)) + Digit(number, 4)
         /\ Radix * (Radix * (Radix * (Radix * Digit(number, 1) + Digit(number, 2)) + Digit(number, 3)) + Digit(number, 4)) + Digit(number, 5) = number
<1>1. Radix \in Nat \ {0}
  BY BaseAndRadix
<1>2. number \div 1 = number
  OBVIOUS
<1>3. /\ Digit(number, 1) = (number \div (Radix * Radix * Radix * Radix)) % Radix
      /\ Digit(number, 2) = (number \div (Radix * Radix * Radix)) % Radix
      /\ Digit(number, 3) = (number \div (Radix * Radix)) % Radix
      /\ Digit(number, 4) = (number \div Radix) % Radix
      /\ Digit(number, 5) = number % Radix
  BY <1>2 DEF Digit, Text!Encodeblock, Text!Pow
<1>4. \A k \in 1 .. 5 : Digit(number, k) \in Nat
  <2>1. Radix * Radix \in Nat \ {0} /\ Radix * Radix * Radix \in Nat \ {0} /\ Radix * Radix * Radix * Radix \in Nat \ {0}
    BY <1>1, Products
  <2>2. \A q \in Nat : q % Radix \in Nat
    BY <1>1, Division
  <2>3. /\ number \div (Radix * Radix * Radix * Radix) \in Nat /\ number \div (Radix * Radix * Radix) \in Nat
        /\ number \div (Radix * Radix) \in Nat /\ number \div Radix \in Nat
    BY <1>1, <2>1, Division
  <2>4. Digit(number, 1) \in Nat /\ Digit(number, 2) \in Nat /\ Digit(number, 3) \in Nat /\ Digit(number, 4) \in Nat /\ Digit(number, 5) \in Nat
    BY <1>3, <2>2, <2>3, Zenon
  <2>5. 1 .. 5 = {1, 2, 3, 4, 5}
    OBVIOUS
  <2> QED
    BY <2>4, <2>5, Zenon
<1> DEFINE e1 == (number \div (Radix * Radix * Radix * Radix)) % Radix
           e2 == (number \div (Radix * Radix * Radix)) % Radix
           e3 == (number \div (Radix * Radix)) % Radix
           e4 == (number \div Radix) % Radix
           e5 == number % Radix
<1>5. /\ number \div (Radix * Radix * Radix) = Radix * e1 + e2
      /\ number \div (Radix * Radix) = Radix * (Radix * e1 + e2) + e3
      /\ number \div Radix = Radix * (Radix * (Radix * e1 + e2) + e3) + e4
      /\ Radix * (Radix * (Radix * (Radix * e1 + e2) + e3) + e4) + e5 = number
  BY <1>1, Radixes
<1>6. Digit(number, 1) = e1 /\ Digit(number, 2) = e2 /\ Digit(number, 3) = e3 /\ Digit(number, 4) = e4 /\ Digit(number, 5) = e5
  BY <1>3
<1> HIDE DEF e1, e2, e3, e4, e5
<1> QED
  BY <1>4, <1>5, <1>6, Zenon

(* Five digits are the number they were made from.                         *)
LEMMA FullBlock ==
  ASSUME NEW number \in Nat, number < Radix * (Radix * Radix * Radix * Radix)
  PROVE  NumberOfDigits(Digit(number, 1), Digit(number, 2), Digit(number, 3), Digit(number, 4), Digit(number, 5)) = number
<1>1. PICK e1 \in Nat, e2 \in Nat, e3 \in Nat, e4 \in Nat, e5 \in Nat :
         /\ e1 = Digit(number, 1) /\ e2 = Digit(number, 2) /\ e3 = Digit(number, 3) /\ e4 = Digit(number, 4) /\ e5 = Digit(number, 5)
  BY DigitsInHorner
<1>2. Radix * (Radix * (Radix * (Radix * e1 + e2) + e3) + e4) + e5 = number
  BY <1>1, DigitsInHorner
<1>3. NumberOfDigits(e1, e2, e3, e4, e5) = Radix * (Radix * (Radix * (Radix * e1 + e2) + e3) + e4) + e5
  BY BaseAndRadix DEF NumberOfDigits
<1> QED
  BY <1>1, <1>2, <1>3, Zenon

(* With the last digit, the last two and the last three replaced by the    *)
(* filling item, the number keeps its first three bytes...                 *)
LEMMA WithoutOne ==
  ASSUME NEW number \in Nat, number < Radix * (Radix * Radix * Radix * Radix), NEW v \in Nat, Base * v = number,
         NEW filled, filled = NumberOfDigits(Digit(number, 1), Digit(number, 2), Digit(number, 3), Digit(number, 4), Pad)
  PROVE  filled \in Nat /\ filled \div Base = v
<1>1. PICK e1 \in Nat, e2 \in Nat, e3 \in Nat, e4 \in Nat :
         e1 = Digit(number, 1) /\ e2 = Digit(number, 2) /\ e3 = Digit(number, 3) /\ e4 = Digit(number, 4)
  BY DigitsInHorner
<1>2. number \div Radix = Radix * (Radix * (Radix * e1 + e2) + e3) + e4
  BY <1>1, DigitsInHorner
<1>3. NumberOfDigits(e1, e2, e3, e4, Pad) = Radix * (Radix * (Radix * (Radix * e1 + e2) + e3) + e4) + Pad * 1
  BY BaseAndRadix DEF NumberOfDigits
<1>4. filled = Radix * (number \div Radix) + Pad * 1
  BY <1>1, <1>2, <1>3, Zenon
<1>5. (Radix - 1) * 1 = Radix - 1 /\ Radix \in Nat \ {0} /\ Base \in Nat \ {0}
  BY BaseAndRadix
<1>6. CutsAt(Radix, 1, Base) /\ Multiple(number, Base, v)
  BY <1>5, BaseAndRadix DEF CutsAt, Multiple
<1>7. Filled(number, Radix, 1) \in Nat /\ Filled(number, Radix, 1) \div (Base) = v
  BY <1>5, <1>6, CutOff
<1> QED
  BY <1>4, <1>7, Zenon DEF Filled

(* ...its first two...                                                     *)
LEMMA WithoutTwo ==
  ASSUME NEW number \in Nat, number < Radix * (Radix * Radix * Radix * Radix), NEW v \in Nat, (Base * Base) * v = number,
         NEW filled, filled = NumberOfDigits(Digit(number, 1), Digit(number, 2), Digit(number, 3), Pad, Pad)
  PROVE  filled \in Nat /\ filled \div (Base * Base) = v
<1>1. PICK e1 \in Nat, e2 \in Nat, e3 \in Nat : e1 = Digit(number, 1) /\ e2 = Digit(number, 2) /\ e3 = Digit(number, 3)
  BY DigitsInHorner
<1>2. number \div (Radix * Radix) = Radix * (Radix * e1 + e2) + e3
  BY <1>1, DigitsInHorner
<1>3. NumberOfDigits(e1, e2, e3, Pad, Pad) = (Radix * Radix) * (Radix * (Radix * e1 + e2) + e3) + Pad * (Radix + 1)
  BY BaseAndRadix DEF NumberOfDigits
<1>4. filled = (Radix * Radix) * (number \div (Radix * Radix)) + Pad * (Radix + 1)
  BY <1>1, <1>2, <1>3, Zenon
<1>5. Radix * Radix \in Nat \ {0} /\ Base * Base \in Nat \ {0} /\ Radix + 1 \in Nat
  BY BaseAndRadix, Products
<1>6. (Radix - 1) * (Radix + 1) = Radix * Radix - 1
  BY BaseAndRadix, Sums
<1>7. CutsAt(Radix * Radix, Radix + 1, Base * Base) /\ Multiple(number, Base * Base, v)
  BY <1>5, <1>6, BaseAndRadix DEF CutsAt, Multiple
<1>8. Filled(number, Radix * Radix, Radix + 1) \in Nat /\ Filled(number, Radix * Radix, Radix + 1) \div (Base * Base) = v
  <2>1. PICK x \in Nat \ {0}, sum \in Nat, b \in Nat \ {0} : x = Radix * Radix /\ sum = Radix + 1 /\ b = Base * Base
    BY <1>5
  <2>2. CutsAt(x, sum, b) /\ Multiple(number, b, v)
    BY <1>7, <2>1, Zenon
  <2>3. Filled(number, x, sum) \in Nat /\ Filled(number, x, sum) \div b = v
    BY <2>2, CutOff
  <2> QED
    BY <2>1, <2>3, Zenon
<1> QED
  BY <1>4, <1>8, Zenon DEF Filled

(* ...and its first.                                                       *)
LEMMA WithoutThree ==
  ASSUME NEW number \in Nat, number < Radix * (Radix * Radix * Radix * Radix), NEW v \in Nat, (Base * Base * Base) * v = number,
         NEW filled, filled = NumberOfDigits(Digit(number, 1), Digit(number, 2), Pad, Pad, Pad)
  PROVE  filled \in Nat /\ filled \div (Base * Base * Base) = v
<1>1. PICK e1 \in Nat, e2 \in Nat : e1 = Digit(number, 1) /\ e2 = Digit(number, 2)
  BY DigitsInHorner
<1>2. number \div (Radix * Radix * Radix) = Radix * e1 + e2
  BY <1>1, DigitsInHorner
<1>3. NumberOfDigits(e1, e2, Pad, Pad, Pad) = (Radix * Radix * Radix) * (Radix * e1 + e2) + Pad * (Radix * Radix + Radix + 1)
  BY BaseAndRadix DEF NumberOfDigits
<1>4. filled = (Radix * Radix * Radix) * (number \div (Radix * Radix * Radix)) + Pad * (Radix * Radix + Radix + 1)
  BY <1>1, <1>2, <1>3, Zenon
<1>5. Radix * Radix * Radix \in Nat \ {0} /\ Base * Base * Base \in Nat \ {0} /\ Radix * Radix + Radix + 1 \in Nat
  BY BaseAndRadix, Products
<1>6. (Radix - 1) * (Radix * Radix + Radix + 1) = Radix * Radix * Radix - 1
  BY BaseAndRadix, Sums
<1>7. CutsAt(Radix * Radix * Radix, Radix * Radix + Radix + 1, Base * Base * Base) /\ Multiple(number, Base * Base * Base, v)
  BY <1>5, <1>6, BaseAndRadix DEF CutsAt, Multiple
<1>8. Filled(number, Radix * Radix * Radix, Radix * Radix + Radix + 1) \in Nat /\ Filled(number, Radix * Radix * Radix, Radix * Radix + Radix + 1) \div (Base * Base * Base) = v
  <2>1. PICK x \in Nat \ {0}, sum \in Nat, b \in Nat \ {0} : x = Radix * Radix * Radix /\ sum = Radix * Radix + Radix + 1 /\ b = Base * Base * Base
    BY <1>5
  <2>2. CutsAt(x, sum, b) /\ Multiple(number, b, v)
    BY <1>7, <2>1, Zenon
  <2>3. Filled(number, x, sum) \in Nat /\ Filled(number, x, sum) \div b = v
    BY <2>2, CutOff
  <2> QED
    BY <2>1, <2>3, Zenon
<1> QED
  BY <1>4, <1>8, Zenon DEF Filled

(* What Byte takes of a number.                                            *)
LEMMA BytesOfNumber ==
  ASSUME NEW number
  PROVE  /\ Text!Byte(number, 1) = (number \div (Base * Base * Base)) % Base
         /\ Text!Byte(number, 2) = (number \div (Base * Base)) % Base
         /\ Text!Byte(number, 3) = (number \div Base) % Base
         /\ Text!Byte(number, 4) = (number \div 1) % Base
BY DEF Text!Byte, Text!Pow

(* How a block of r bytes, and zeros behind them, is decoded again from    *)
(* r + 1 digits.                                                           *)
Refilled(number, r) ==
  NumberOfDigits(Digit(number, 1), Digit(number, 2), IF r >= 2 THEN Digit(number, 3) ELSE Pad,
                 IF r >= 3 THEN Digit(number, 4) ELSE Pad, IF r >= 4 THEN Digit(number, 5) ELSE Pad)

(* The first r bytes of a block survive.                                   *)
LEMMA BlockSurvives ==
  ASSUME NEW h1 \in 0 .. Base - 1, NEW h2 \in 0 .. Base - 1, NEW h3 \in 0 .. Base - 1, NEW h4 \in 0 .. Base - 1,
         NEW r \in 1 .. 4, r < 2 => h2 = 0, r < 3 => h3 = 0, r < 4 => h4 = 0,
         NEW number, number = FourBytes(h1, h2, h3, h4)
  PROVE  /\ Text!Byte(Refilled(number, r), 1) = h1
         /\ r >= 2 => Text!Byte(Refilled(number, r), 2) = h2
         /\ r >= 3 => Text!Byte(Refilled(number, r), 3) = h3
         /\ r >= 4 => Text!Byte(Refilled(number, r), 4) = h4
<1>1. Base \in Nat \ {0} /\ 0 \in 0 .. Base - 1
  BY BaseAndRadix
<1>2. /\ number = Base * (Base * (Base * h1 + h2) + h3) + h4 /\ number \in Nat
      /\ number < Radix * (Radix * Radix * Radix * Radix)
  BY NumberOfBytes
<1>3. PICK filled : filled = Refilled(number, r)
  OBVIOUS
<1>4. Base * Base \in Nat \ {0} /\ Base * Base * Base \in Nat \ {0} /\ Base * (Base * Base) = Base * Base * Base
  BY <1>1, Products
<1>5. CASE r = 4
  <2>1. filled = number
    BY <1>2, <1>3, <1>5, FullBlock DEF Refilled
  <2>2. /\ number % Base = h4 /\ (number \div Base) % Base = h3
        /\ (number \div (Base * Base)) % Base = h2 /\ (number \div (Base * Base * Base)) % Base = h1
    <3>1. number = Horner(Base, h1, h2, h3, h4)
      BY <1>2 DEF Horner
    <3> QED
      BY <1>1, <3>1, DigitsOfNumber
  <2>3. number \div 1 = number
    BY <1>2
  <2>4. Text!Byte(number, 1) = h1 /\ Text!Byte(number, 2) = h2 /\ Text!Byte(number, 3) = h3 /\ Text!Byte(number, 4) = h4
    BY <2>2, <2>3, BytesOfNumber, Zenon
  <2> QED
    BY <1>3, <2>1, <2>4, Zenon
<1>6. CASE r = 3
  <2>1. filled = NumberOfDigits(Digit(number, 1), Digit(number, 2), Digit(number, 3), Digit(number, 4), Pad)
    BY <1>3, <1>6 DEF Refilled
  <2>2. PICK v \in Nat : v = Base * (Base * (Base * 0 + h1) + h2) + h3
    BY <1>1
  <2>3. Base * v = number
    BY <1>1, <1>2, <1>6, <2>2
  <2>4. filled \in Nat /\ filled \div Base = v
    BY <1>2, <2>1, <2>3, WithoutOne
  <2>5. v % Base = h3 /\ (v \div Base) % Base = h2 /\ (v \div (Base * Base)) % Base = h1
    <3>1. v = Horner(Base, 0, h1, h2, h3)
      BY <2>2 DEF Horner
    <3> QED
      BY <1>1, <3>1, DigitsOfNumber
  <2>6. (filled \div Base) \div Base = filled \div (Base * Base)
    BY <1>1, <2>4, QuotientOfQuotient
  <2>7. (filled \div Base) \div (Base * Base) = filled \div (Base * (Base * Base))
    BY <1>1, <1>4, <2>4, QuotientOfQuotient
  <2>8. Text!Byte(filled, 1) = h1 /\ Text!Byte(filled, 2) = h2 /\ Text!Byte(filled, 3) = h3
    BY <1>4, <2>4, <2>5, <2>6, <2>7, BytesOfNumber, Zenon
  <2> QED
    BY <1>3, <1>6, <2>8
<1>7. CASE r = 2
  <2>1. filled = NumberOfDigits(Digit(number, 1), Digit(number, 2), Digit(number, 3), Pad, Pad)
    BY <1>3, <1>7 DEF Refilled
  <2>2. PICK v \in Nat : v = Base * h1 + h2
    BY <1>1
  <2>3. (Base * Base) * v = number
    BY <1>1, <1>2, <1>7, <2>2
  <2>4. filled \in Nat /\ filled \div (Base * Base) = v
    BY <1>2, <2>1, <2>3, WithoutTwo
  <2>5. v \div Base = h1 /\ v % Base = h2
    <3>1. \A b \in Nat \ {0} : \A q, m \in 0 .. b - 1 : \A a \in Nat : a = b * q + m => a \div b = q /\ a % b = m
      BY Quotient
    <3> QED
      BY <1>1, <2>2, <3>1
  <2>6. h1 % Base = h1
    <3>1. h1 = Base * 0 + h1
      BY <1>1
    <3> QED
      BY <1>1, <3>1, Quotient
  <2>7. (filled \div (Base * Base)) \div Base = filled \div (Base * Base * Base)
    BY <1>1, <1>4, <2>4, QuotientOfQuotient
  <2>8. Text!Byte(filled, 1) = h1 /\ Text!Byte(filled, 2) = h2
    BY <2>4, <2>5, <2>6, <2>7, BytesOfNumber, Zenon
  <2> QED
    BY <1>3, <1>7, <2>8
<1>8. CASE r = 1
  <2>1. filled = NumberOfDigits(Digit(number, 1), Digit(number, 2), Pad, Pad, Pad)
    BY <1>3, <1>8 DEF Refilled
  <2>2. (Base * Base * Base) * h1 = number
    BY <1>1, <1>2, <1>8
  <2>3. filled \in Nat /\ filled \div (Base * Base * Base) = h1
    BY <1>1, <1>2, <2>1, <2>2, WithoutThree
  <2>4. h1 % Base = h1
    <3>1. h1 = Base * 0 + h1
      BY <1>1
    <3> QED
      BY <1>1, <3>1, Quotient
  <2>5. Text!Byte(filled, 1) = h1
    BY <2>3, <2>4, BytesOfNumber, Zenon
  <2> QED
    BY <1>3, <1>8, <2>5
<1> QED
  BY <1>5, <1>6, <1>7, <1>8

(* How many digits there are, for blocks of four and a rest.               *)
LEMMA EncodedSize ==
  ASSUME NEW n \in Nat
  PROVE  /\ Text!Encodesize(n) \in Nat /\ Text!Decodesize(Text!Encodesize(n)) = n
         /\ \A j \in Nat, r \in 1 .. 4, k \in 1 .. 5 :
               n >= 4 * j + r /\ (r < 4 => n = 4 * j + r) => (5 * j + k <= Text!Encodesize(n) <=> k <= r + 1)
<1>1. PICK j \in Nat, r \in 0 .. 3 : n = 4 * j + r
  <2>1. n \div 4 \in Nat /\ n % 4 \in 0 .. 3 /\ n = 4 * (n \div 4) + (n % 4)
    OBVIOUS
  <2> QED
    BY <2>1
<1>2. Text!Encodesize(n) = 5 * j + (IF r = 0 THEN 0 ELSE r + 1)
  BY <1>1 DEF Text!Encodesize
<1>3. Text!Decodesize(Text!Encodesize(n)) = n
  BY <1>1, <1>2 DEF Text!Decodesize
<1> QED
  BY <1>1, <1>2, <1>3

(* What is decoded for the j-th block of a text.                           *)
LEMMA BlockOfText ==
  ASSUME NEW p \in Seq(0 .. Base - 1), NEW j \in Nat, NEW r \in 1 .. 4,
         Len(p) >= 4 * j + r, r < 4 => Len(p) = 4 * j + r
  PROVE  Text!Decodeblock(Text!Encode(p), 5 * j) = Refilled(Text!Bytes(p, 4 * j), r)
<1> DEFINE t == Text!Encode(p)
           number == Text!Bytes(p, 4 * j)
<1>1. Len(p) \in Nat /\ Text!Encodesize(Len(p)) \in Nat
  BY EncodedSize
<1>2. DOMAIN t = 1 .. Text!Encodesize(Len(p))
  BY DEF Text!Encode
<1>3. ASSUME NEW k \in 1 .. 5
      PROVE  Text!Item(t, 5 * j + k, Pad) = IF k <= r + 1 THEN Digit(number, k) ELSE Pad
  <2>1. 5 * j + k \in DOMAIN t <=> k <= r + 1
    <3>1. PICK n \in Nat : n = Len(p)
      BY <1>1
    <3>2. n >= 4 * j + r /\ (r < 4 => n = 4 * j + r)
      BY <3>1
    <3>3. 5 * j + k <= Text!Encodesize(n) <=> k <= r + 1
      BY <3>2, EncodedSize
    <3>4. PICK m \in Nat : m = Text!Encodesize(n)
      BY EncodedSize
    <3>5. 5 * j + k \in 1 .. m <=> k <= r + 1
      BY <3>3, <3>4
    <3> QED
      BY <1>2, <3>1, <3>4, <3>5, Zenon
  <2>2. k <= r + 1 => t[5 * j + k] = Digit(number, k)
    <3> SUFFICES ASSUME k <= r + 1 PROVE t[5 * j + k] = Digit(number, k)
      OBVIOUS
    <3>1. PICK i \in 1 .. Text!Encodesize(Len(p)) : i = 5 * j + k
      BY <1>2, <2>1
    <3>2. (i - 1) \div 5 = j /\ ((i - 1) % 5) + 1 = k
      BY <3>1
    <3>3. t[i] = Text!Encodeblock(Text!Bytes(p, 4 * ((i - 1) \div 5)), ((i - 1) % 5) + 1)
      BY <3>1, Zenon DEF Text!Encode
    <3> QED
      BY <3>1, <3>2, <3>3, Zenon DEF Digit
  <2> QED
    BY <2>1, <2>2, Zenon DEF Text!Item
<1> HIDE DEF t, number
<1>4. /\ Text!Item(t, 5 * j + 1, Pad) = Digit(number, 1)
      /\ Text!Item(t, 5 * j + 2, Pad) = Digit(number, 2)
      /\ Text!Item(t, 5 * j + 3, Pad) = (IF r >= 2 THEN Digit(number, 3) ELSE Pad)
      /\ Text!Item(t, 5 * j + 4, Pad) = (IF r >= 3 THEN Digit(number, 4) ELSE Pad)
      /\ Text!Item(t, 5 * j + 5, Pad) = (IF r >= 4 THEN Digit(number, 5) ELSE Pad)
  BY <1>3
<1>5. Text!Decodeblock(t, 5 * j) =
        NumberOfDigits(Text!Item(t, 5 * j + 1, Pad), Text!Item(t, 5 * j + 2, Pad), Text!Item(t, 5 * j + 3, Pad),
                       Text!Item(t, 5 * j + 4, Pad), Text!Item(t, 5 * j + 5, Pad))
  BY DEF Text!Decodeblock, NumberOfDigits, Text!Pow
<1>6. Text!Decodeblock(t, 5 * j) = Refilled(number, r)
  BY <1>4, <1>5, Zenon DEF Refilled
<1> QED
  BY <1>6 DEF t, number

(* What is copied from behind a block comes behind the result.             *)
LEMMA DecodedInPlace ==
  ASSUME NEW t, NEW n \in Nat, NEW behind, Len(t) \in Nat, Text!Decodesize(Len(t)) = n
  PROVE  Text!Decode(t, behind) = [i \in 1 .. n |-> Text!Byte(Text!Decodeblock(t, 5 * ((i - 1) \div 4)), ((i - 1) % 4) + 1)]
<1>1. PICK m \in Nat : m = Len(t) /\ n = (m * 4) \div 5
  BY DEF Text!Decodesize
<1>2. PICK q \in Nat, r \in 0 .. 4 : q = m \div 5 /\ r = m % 5 /\ m = 5 * q + r
  OBVIOUS
<1>3. ASSUME NEW i \in 1 .. n
      PROVE  i \in 1 .. m /\ i <= 4 * q + (IF r > 0 THEN 4 ELSE 0)
  BY <1>1, <1>2
<1>4. ASSUME NEW i \in 1 .. n
      PROVE  Text!Decode_inplace(t, behind)[i] = Text!Byte(Text!Decodeblock(t, 5 * ((i - 1) \div 4)), ((i - 1) % 4) + 1)
  BY <1>1, <1>2, <1>3, Zenon DEF Text!Decode_inplace
<1> QED
  BY <1>4, Zenon DEF Text!Decode

(* Decode is a left inverse of Encode, on all sequences of bytes.          *)
LEMMA DecodeUndoesEncode ==
  ASSUME NEW p \in Seq(0 .. Base - 1)
  PROVE  \A behind : Text!Decode(Text!Encode(p), behind) = p
<1> TAKE behind
<1> DEFINE t == Text!Encode(p)
<1>1. Len(p) \in Nat /\ Text!Encodesize(Len(p)) \in Nat /\ Text!Decodesize(Text!Encodesize(Len(p))) = Len(p)
  BY EncodedSize
<1>2. Len(t) = Text!Encodesize(Len(p))
  BY <1>1 DEF Text!Encode
<1>3. Text!Decode(t, behind) = [i \in 1 .. Len(p) |-> Text!Byte(Text!Decodeblock(t, 5 * ((i - 1) \div 4)), ((i - 1) % 4) + 1)]
  BY <1>1, <1>2, DecodedInPlace
<1>4. ASSUME NEW i \in 1 .. Len(p)
      PROVE  Text!Byte(Text!Decodeblock(t, 5 * ((i - 1) \div 4)), ((i - 1) % 4) + 1) = p[i]
  <2>1. PICK j \in Nat, k \in 1 .. 4 : j = (i - 1) \div 4 /\ k = ((i - 1) % 4) + 1 /\ i = 4 * j + k
    <3>1. (i - 1) \div 4 \in Nat /\ ((i - 1) % 4) + 1 \in 1 .. 4 /\ i = 4 * ((i - 1) \div 4) + (((i - 1) % 4) + 1)
      BY <1>1
    <3> QED
      BY <3>1
  <2>2. PICK r \in 1 .. 4 : k <= r /\ Len(p) >= 4 * j + r /\ (r < 4 => Len(p) = 4 * j + r)
    <3>1. CASE Len(p) >= 4 * j + 4
      BY <3>1, <2>1
    <3>2. CASE Len(p) < 4 * j + 4
      <4>1. Len(p) - 4 * j \in 1 .. 4 /\ k <= Len(p) - 4 * j /\ Len(p) = 4 * j + (Len(p) - 4 * j)
        BY <1>1, <2>1, <3>2
      <4>2. PICK q \in 1 .. 4 : q = Len(p) - 4 * j
        BY <4>1
      <4>3. k <= q /\ Len(p) >= 4 * j + q /\ (q < 4 => Len(p) = 4 * j + q)
        BY <1>1, <4>1, <4>2
      <4> QED
        BY <4>3
    <3> QED
      BY <1>1, <3>1, <3>2
  <2>3. Text!Decodeblock(t, 5 * j) = Refilled(Text!Bytes(p, 4 * j), r)
    BY <2>2, BlockOfText
  <2>4. DOMAIN p = 1 .. Len(p) /\ 0 \in 0 .. Base - 1 /\ \A m \in 1 .. Len(p) : p[m] \in 0 .. Base - 1
    BY BaseAndRadix
  <2>5. \A m \in 1 .. 4 : /\ Text!Item(p, 4 * j + m, 0) \in 0 .. Base - 1
                          /\ (r < m => Text!Item(p, 4 * j + m, 0) = 0)
                          /\ (m <= r => Text!Item(p, 4 * j + m, 0) = p[4 * j + m])
    BY <1>1, <2>2, <2>4 DEF Text!Item
  <2>6. PICK h1 \in 0 .. Base - 1, h2 \in 0 .. Base - 1, h3 \in 0 .. Base - 1, h4 \in 0 .. Base - 1 :
          /\ h1 = Text!Item(p, 4 * j + 1, 0) /\ h2 = Text!Item(p, 4 * j + 2, 0)
          /\ h3 = Text!Item(p, 4 * j + 3, 0) /\ h4 = Text!Item(p, 4 * j + 4, 0)
    BY <2>5
  <2>7. Text!Bytes(p, 4 * j) = FourBytes(h1, h2, h3, h4)
    <3>1. Text!Pow(Base)[2] = Base * Base * Base /\ Text!Pow(Base)[3] = Base * Base
      BY DEF Text!Pow
    <3> QED
      BY <2>6, <3>1, Zenon DEF Text!Bytes, FourBytes
  <2>8. (r < 2 => h2 = 0) /\ (r < 3 => h3 = 0) /\ (r < 4 => h4 = 0)
    BY <2>5, <2>6
  <2>9. PICK number : number = FourBytes(h1, h2, h3, h4)
    OBVIOUS
  <2>10. /\ Text!Byte(Refilled(number, r), 1) = h1
         /\ r >= 2 => Text!Byte(Refilled(number, r), 2) = h2
         /\ r >= 3 => Text!Byte(Refilled(number, r), 3) = h3
         /\ r >= 4 => Text!Byte(Refilled(number, r), 4) = h4
    BY <2>8, <2>9, BlockSurvives
  <2>11. \A m \in 1 .. 4 : m <= r => Text!Byte(Refilled(number, r), m) = p[4 * j + m]
    <3>1. \A m \in 1 .. 4 : m = 1 \/ m = 2 \/ m = 3 \/ m = 4
      OBVIOUS
    <3> QED
      BY <2>5, <2>6, <2>10, <3>1
  <2>12. Text!Byte(Refilled(number, r), k) = p[i]
    BY <2>1, <2>2, <2>11
  <2>13. Text!Byte(Text!Decodeblock(t, 5 * j), k) = p[i]
    BY <2>3, <2>7, <2>9, <2>12, Zenon
  <2> QED
    BY <2>1, <2>13, Zenon
<1>5. Text!Decode(t, behind) = [i \in 1 .. Len(p) |-> p[i]]
  BY <1>3, <1>4, Zenon
<1>6. p = [i \in 1 .. Len(p) |-> p[i]]
  OBVIOUS
<1> QED
  BY <1>5, <1>6, Zenon

(* The database has no text, or the one of the payload, and so have the    *)
(* handlers.                                                               *)
TextInv ==
  /\ payload \in Payloads
  /\ Data \in {<< >>, Text!Encode(payload)} /\ handed \in {<< >>, Text!Encode(payload)}
  /\ Payload \in {<< >>, payload}

(* Decoding the column gives the payload that was stored, to Poll and to   *)
(* a handler that decodes what it is handed, for payloads of any length,   *)
(* any base and radix like those of the code, and whatever is copied from  *)
(* behind the last block (Base85.hpp:83-104 and 183-206).                  *)
THEOREM PayloadsSurvive == Text!Spec => []PayloadSurvives
<1>1. Text!Init => TextInv
  BY DEF Text!Init, TextInv
<1>2. TextInv /\ [Text!Next]_(Text!vars) => TextInv'
  <2> SUFFICES ASSUME TextInv, [Text!Next]_(Text!vars) PROVE TextInv'
    OBVIOUS
  <2> USE DEF TextInv
  <2>1. CASE Text!Storemessage
    BY <2>1, Zenon DEF Text!Storemessage
  <2>2. CASE Text!Poll
    <3>1. payload \in Seq(0 .. Base - 1)
      BY PartsAssumption DEF Text!Base85Assumption
    <3>2. Data = Text!Encode(payload)
      BY <2>2, Zenon DEF Text!Poll
    <3>3. Payload' = payload
      BY <2>2, <3>1, <3>2, DecodeUndoesEncode, Zenon DEF Text!Poll
    <3>4. handed' = Data /\ UNCHANGED <<payload, Data>>
      BY <2>2, Zenon DEF Text!Poll
    <3> QED
      BY <3>2, <3>3, <3>4, Zenon
  <2>3. CASE UNCHANGED Text!vars
    BY <2>3, Zenon DEF Text!vars
  <2> QED
    BY <2>1, <2>2, <2>3 DEF Text!Next
<1>3. TextInv => PayloadSurvives
  <2> SUFFICES ASSUME TextInv PROVE PayloadSurvives
    OBVIOUS
  <2>1. payload \in Seq(0 .. Base - 1)
    BY PartsAssumption DEF TextInv, Text!Base85Assumption
  <2>2. \A behind : Text!Decode(Text!Encode(payload), behind) = payload
    BY <2>1, DecodeUndoesEncode, Zenon
  <2> QED
    BY <2>2, Zenon DEF TextInv, PayloadSurvives, Text!PayloadSurvives
<1> QED
  BY <1>1, <1>2, <1>3, PTL DEF Text!Spec

-----------------------------------------------------------------------------
(* Induction and recursion.                                                *)

(* A set of numbers that each number is in, if all below it are, has all   *)
(* numbers: the least that is missing would have to be in it.              *)
LEMMA StrongInduction ==
  ASSUME NEW S, \A n \in Nat : (\A k \in Nat : k < n => k \in S) => n \in S
  PROVE  Nat \subseteq S
<1> DEFINE T == {n \in Nat : n \notin S}
<1>1. ASSUME T # {} PROVE FALSE
  <2>1. PICK x \in T : \A y \in T : <<y, x>> \notin OpToRel(<, Nat)
    BY <1>1, WFMin, NatLessThanWellFounded, Zenon
  <2>2. ASSUME NEW k \in Nat, k < x PROVE k \in S
    <3>1. <<k, x>> \in OpToRel(<, Nat)
      BY <2>2, Zenon DEF OpToRel
    <3> QED BY <2>1, <3>1, Zenon
  <2>3. x \in S
    BY <2>2
  <2> QED BY <2>3
<1> QED BY <1>1

(* The usual form, up to a number L.                                       *)
LEMMA Induction ==
  ASSUME NEW L \in Nat, NEW S, 0 \in S, \A n \in 0 .. L : n \in S /\ n < L => n + 1 \in S
  PROVE  0 .. L \subseteq S
<1> DEFINE T == {n \in Nat : n <= L => n \in S}
<1>1. ASSUME NEW n \in Nat, \A k \in Nat : k < n => k \in T PROVE n \in T
  <2>1. CASE n = 0
    BY <2>1
  <2>2. CASE n # 0
    <3>1. n - 1 \in Nat /\ n - 1 < n
      BY <2>2
    <3>2. n - 1 \in T
      BY <1>1, <3>1
    <3> QED BY <3>1, <3>2
  <2> QED BY <2>1, <2>2
<1>2. Nat \subseteq T
  <2> HIDE DEF T
  <2> QED BY <1>1, StrongInduction
<1> QED BY <1>2

(* A function that is defined by its value at 0, and by h from each number *)
(* to the next, exists: so the definitions by recursion mean something.    *)
Recursive(f, L, a, h) == f[0] = a /\ \A c \in 1 .. L : f[c] = h[c][f[c - 1]]

(* There is one, with all its values in the set of the first.              *)
LEMMA Recursion ==
  ASSUME NEW L \in Nat, NEW T, NEW a \in T, NEW h \in [1 .. L -> [T -> T]]
  PROVE  \E f \in [0 .. L -> T] : Recursive(f, L, a, h)
<1> DEFINE Upto(f, n) == f[0] = a /\ \A c \in 1 .. n : f[c] = h[c][f[c - 1]]
           S == {n \in 0 .. L : \E f \in [0 .. n -> T] : Upto(f, n)}
<1>1. 0 \in S
  <2> DEFINE f == [c \in 0 .. 0 |-> a]
  <2>1. f \in [0 .. 0 -> T]
    OBVIOUS
  <2>2. Upto(f, 0)
    OBVIOUS
  <2>3. \E g \in [0 .. 0 -> T] : Upto(g, 0)
    <3> HIDE DEF f, Upto
    <3> QED BY <2>1, <2>2
  <2>4. 0 \in 0 .. L
    OBVIOUS
  <2> QED BY <2>3, <2>4, Zenon
<1>2. ASSUME NEW n \in 0 .. L, n \in S, n < L PROVE n + 1 \in S
  <2>1. PICK f \in [0 .. n -> T] : Upto(f, n)
    BY <1>2
  <2> DEFINE g == [c \in 0 .. n + 1 |-> IF c <= n THEN f[c] ELSE h[n + 1][f[n]]]
  <2>2. g \in [0 .. n + 1 -> T]
    BY <1>2
  <2>3. g[0] = a
    BY <2>1
  <2>4. ASSUME NEW c \in 1 .. n + 1 PROVE g[c] = h[c][g[c - 1]]
    <3>1. CASE c <= n
      BY <2>1, <3>1
    <3>2. CASE c = n + 1
      BY <3>2
    <3> QED BY <3>1, <3>2
  <2>5. Upto(g, n + 1)
    <3> HIDE DEF g
    <3> QED BY <2>3, <2>4
  <2>6. \E e \in [0 .. n + 1 -> T] : Upto(e, n + 1)
    <3> HIDE DEF g, Upto
    <3> QED BY <2>2, <2>5
  <2>7. n + 1 \in 0 .. L
    BY <1>2
  <2> QED BY <2>6, <2>7, Zenon
<1>3. L \in S
  <2> HIDE DEF S
  <2>1. 0 .. L \subseteq S
    BY <1>1, <1>2, Induction
  <2> QED BY <2>1
<1> QED
  BY <1>3 DEF Recursive

-----------------------------------------------------------------------------
(* Base58.                                                                 *)

(* What the loop over the digits carries from each to the next             *)
(* (Base58.hpp:61-66).                                                     *)
Carry(f, s, from, to, item) ==
  /\ f \in [0 .. Len(s) -> Nat] /\ f[0] = item
  /\ \A c \in 1 .. Len(s) : f[c] = (f[c - 1] + s[c] * from) \div to

(* It is what Carries computes, and a number.                              *)
LEMMA CarriesStep ==
  ASSUME NEW s \in Seq(Nat), NEW from \in Nat, NEW to \in Nat \ {0}, NEW item \in Nat
  PROVE  Carry(Key!Carries(s, from, to, item), s, from, to, item)
<1>1. PICK L \in Nat : L = Len(s)
  OBVIOUS
<1>2. s \in [1 .. L -> Nat]
  BY <1>1
<1> DEFINE Step(f) == [c \in 0 .. Len(s) |-> IF c = 0 THEN item ELSE (f[c - 1] + s[c] * from) \div to]
           h == [c \in 1 .. L |-> [x \in Nat |-> (x + s[c] * from) \div to]]
           f == CHOOSE f : f = Step(f)
<1>3. ASSUME NEW c \in 1 .. L, NEW x \in Nat PROVE (x + s[c] * from) \div to \in Nat
  <2>1. s[c] \in Nat
    BY <1>2
  <2>2. s[c] * from \in Nat
    BY <2>1
  <2>3. x + s[c] * from \in Nat
    BY <2>2
  <2> QED BY <2>3, Division
<1>4. h \in [1 .. L -> [Nat -> Nat]]
  BY <1>3
<1>5. PICK g \in [0 .. L -> Nat] : Recursive(g, L, item, h)
  <2> HIDE DEF h
  <2> QED BY <1>4, Recursion
<1>6. g = Step(g)
  <2>1. g[0] = item
    BY <1>5 DEF Recursive
  <2>2. ASSUME NEW c \in 1 .. L PROVE g[c] = (g[c - 1] + s[c] * from) \div to
    <3>1. g[c] = h[c][g[c - 1]]
      BY <1>5 DEF Recursive
    <3>2. g[c - 1] \in Nat
      BY <1>5
    <3> QED BY <3>1, <3>2
  <2> HIDE DEF h, f
  <2>3. \A c \in 0 .. L : g[c] = IF c = 0 THEN item ELSE (g[c - 1] + s[c] * from) \div to
    BY <2>1, <2>2
  <2>4. g = [c \in 0 .. L |-> IF c = 0 THEN item ELSE (g[c - 1] + s[c] * from) \div to]
    BY <1>5, <2>3, Zenon
  <2> QED BY <1>1, <2>4, Zenon
<1>7. f = Step(f)
  <2>1. \E e : e = Step(e)
    BY <1>6, Zenon
  <2> QED BY <2>1, Zenon
<1>8. Key!Carries(s, from, to, item) = f
  BY Zenon DEF Key!Carries
<1>9. f = [c \in 0 .. L |-> IF c = 0 THEN item ELSE (f[c - 1] + s[c] * from) \div to]
  BY <1>1, <1>7, Zenon
<1> HIDE DEF f, h, Step
<1>10. f[0] = item /\ \A c \in 1 .. L : f[c] = (f[c - 1] + s[c] * from) \div to
  <2>1. \A c \in 0 .. L : f[c] = IF c = 0 THEN item ELSE (f[c - 1] + s[c] * from) \div to
    BY <1>9, Zenon
  <2> QED BY <2>1
<1>11. \A c \in 0 .. L : f[c] \in Nat
  <2> DEFINE S == {c \in 0 .. L : f[c] \in Nat}
  <2>1. 0 \in S
    BY <1>10
  <2>2. ASSUME NEW c \in 0 .. L, c \in S /\ c < L PROVE c + 1 \in S
    <3>1. c + 1 \in 1 .. L /\ c + 1 - 1 = c /\ f[c] \in Nat
      BY <2>2
    <3>2. f[c + 1] = (f[c] + s[c + 1] * from) \div to
      BY <1>10, <3>1
    <3>3. f[c + 1] \in Nat
      BY <1>3, <3>1, <3>2
    <3> QED BY <3>1, <3>3
  <2>3. 0 .. L \subseteq S
    <3> HIDE DEF S
    <3> QED BY <2>1, <2>2, Induction
  <2> QED BY <2>3
<1>12. f \in [0 .. L -> Nat]
  BY <1>9, <1>11
<1>13. Carry(f, s, from, to, item)
  BY <1>1, <1>10, <1>12, Zenon DEF Carry
<1> QED BY <1>8, <1>13, Zenon


(* s has the digits of n in base b, lowest first: q are the quotients that *)
(* are left after each, and s says the remainders. A representation ends   *)
(* with the first quotient that is 0, so its highest digit is not.         *)
Quotients(q, s, b, n) ==
  /\ q \in [0 .. Len(s) -> Nat] /\ q[0] = n /\ q[Len(s)] = 0
  /\ \A c \in 1 .. Len(s) : s[c] \in 0 .. b - 1 /\ q[c - 1] = b * q[c] + s[c]

Represents(s, b, n) ==
  \E q : Quotients(q, s, b, n) /\ \A c \in 1 .. Len(s) : q[c - 1] # 0

(* Dividing makes a number smaller, so the loop that appends digits ends   *)
(* (Base58.hpp:67-71).                                                     *)
LEMMA Smaller ==
  ASSUME NEW n \in Nat \ {0}, NEW b \in Nat \ {0, 1}
  PROVE  n \div b \in 0 .. n - 1
<1>1. PICK q \in Nat, r \in 0 .. b - 1 : q = n \div b /\ n = b * q + r
  BY Division
<1>2. CASE q = 0
  BY <1>1, <1>2
<1>3. CASE q # 0
  <2>1. b >= 2
    OBVIOUS
  <2>2. b * q >= 2 * q
    BY <2>1
  <2>3. q < n
    BY <1>1, <1>3, <2>2
  <2> QED BY <1>1, <2>3
<1> QED BY <1>2, <1>3

(* Nothing represents 0...                                                 *)
LEMMA NoDigits ==
  ASSUME NEW b \in Nat PROVE Represents(<< >>, b, 0)
<1>1. Quotients([c \in 0 .. 0 |-> 0], << >>, b, 0)
  BY DEF Quotients
<1> QED BY <1>1 DEF Represents

(* ...and one more digit the number it is the remainder of.                *)
LEMMA FirstDigit ==
  ASSUME NEW n \in Nat \ {0}, NEW b \in Nat \ {0}, NEW s \in Seq(Nat), Represents(s, b, n \div b)
  PROVE  Represents(<<n % b>> \o s, b, n) /\ <<n % b>> \o s \in Seq(Nat)
<1>1. PICK d \in 0 .. b - 1 : d = n % b
  BY Division
<1>2. PICK m \in Nat : m = n \div b
  BY Division
<1>3. n = b * m + d
  BY <1>1, <1>2, Division
<1>4. PICK q : Quotients(q, s, b, m) /\ \A c \in 1 .. Len(s) : q[c - 1] # 0
  BY <1>2 DEF Represents
<1>5. PICK L \in Nat : L = Len(s)
  OBVIOUS
<1>6. /\ q \in [0 .. L -> Nat] /\ q[0] = m /\ q[L] = 0
      /\ \A c \in 1 .. L : s[c] \in 0 .. b - 1 /\ q[c - 1] = b * q[c] + s[c] /\ q[c - 1] # 0
  BY <1>4, <1>5 DEF Quotients
<1> DEFINE t == <<d>> \o s
           p == [c \in 0 .. L + 1 |-> IF c = 0 THEN n ELSE q[c - 1]]
<1>7. t \in Seq(Nat) /\ Len(t) = L + 1 /\ t[1] = d /\ \A c \in 2 .. L + 1 : t[c] = s[c - 1]
  BY <1>5
<1>8. p \in [0 .. L + 1 -> Nat] /\ p[0] = n /\ \A c \in 1 .. L + 1 : p[c] = q[c - 1]
  BY <1>6
<1> HIDE DEF t, p
<1>9. ASSUME NEW c \in 1 .. L + 1 PROVE t[c] \in 0 .. b - 1 /\ p[c - 1] = b * p[c] + t[c] /\ p[c - 1] # 0
  <2>1. CASE c = 1
    <3>1. t[c] = d /\ p[c - 1] = n /\ p[c] = m
      <4>1. p[1] = q[1 - 1]
        BY <1>8, <2>1
      <4> QED BY <1>6, <1>7, <1>8, <2>1, <4>1
    <3> QED BY <1>3, <3>1
  <2>2. CASE c # 1
    <3>1. PICK e \in 1 .. L : e = c - 1
      BY <2>2
    <3>2. c \in 2 .. L + 1 /\ c - 1 \in 1 .. L + 1 /\ c - 1 = e /\ c - 1 - 1 = e - 1
      BY <2>2, <3>1
    <3>3. t[c] = s[c - 1] /\ p[c] = q[c - 1] /\ p[c - 1] = q[c - 1 - 1]
      BY <1>7, <1>8, <3>2
    <3>4. t[c] = s[e] /\ p[c] = q[e] /\ p[c - 1] = q[e - 1]
      BY <3>2, <3>3, Zenon
    <3> QED BY <1>6, <3>4
  <2> QED BY <2>1, <2>2
<1>10. p[L + 1] = 0
  BY <1>6, <1>8
<1>11. Represents(t, b, n)
  <2>1. Quotients(p, t, b, n)
    BY <1>7, <1>8, <1>9, <1>10, Zenon DEF Quotients
  <2> QED BY <1>7, <1>9, <2>1, Zenon DEF Represents
<1> QED BY <1>1, <1>7, <1>11 DEF t

(* One digit, and those of the quotient.                                   *)
WithLowest(f, n, b) == <<n % b>> \o f[n \div b]

(* Digits represents its number.                                           *)
LEMMA DigitsRepresent ==
  ASSUME NEW number \in Nat, NEW b \in Nat \ {0, 1}
  PROVE  Key!Digits(number, b) \in Seq(Nat) /\ Represents(Key!Digits(number, b), b, number)
<1> DEFINE Step(f) == [n \in 0 .. number |-> IF n = 0 THEN << >> ELSE <<n % b>> \o f[n \div b]]
           f == CHOOSE f : f = Step(f)
           Upto(g, m) == g[0] = << >> /\ \A n \in 1 .. m : g[n] = WithLowest(g, n, b)
           S == {m \in 0 .. number : \E g \in [0 .. m -> Seq(Nat)] : Upto(g, m)}
<1>1. 0 \in S
  <2> DEFINE g == [n \in 0 .. 0 |-> << >>]
  <2>1. g \in [0 .. 0 -> Seq(Nat)] /\ Upto(g, 0)
    OBVIOUS
  <2> HIDE DEF g, Upto
  <2> QED BY <2>1
<1>2. ASSUME NEW m \in 0 .. number, m \in S /\ m < number PROVE m + 1 \in S
  <2>1. PICK g \in [0 .. m -> Seq(Nat)] : Upto(g, m)
    BY <1>2
  <2> DEFINE l == m + 1
  <2>a. l \in Nat \ {0} /\ l - 1 = m
    OBVIOUS
  <2> HIDE DEF l
  <2>2. PICK k \in 0 .. m : k = l \div b
    BY <2>a, Smaller
  <2>3. PICK d \in 0 .. b - 1 : d = l % b
    BY <2>a, Division
  <2> USE DEF l
  <2>4. <<d>> \o g[k] \in Seq(Nat)
    OBVIOUS
  <2> DEFINE e == [n \in 0 .. m + 1 |-> IF n <= m THEN g[n] ELSE <<d>> \o g[k]]
  <2>5. e \in [0 .. m + 1 -> Seq(Nat)]
    BY <2>4
  <2>6. e[0] = << >>
    BY <2>1
  <2>7. ASSUME NEW n \in 1 .. m + 1 PROVE e[n] = WithLowest(e, n, b)
    <3>1. CASE n <= m
      <4>0. n \in Nat \ {0}
        OBVIOUS
      <4>1. PICK j \in 0 .. n - 1 : j = n \div b
        BY <4>0, Smaller
      <4>2. e[n] = g[n] /\ e[j] = g[j]
        BY <3>1
      <4>3. g[n] = WithLowest(g, n, b)
        BY <2>1, <3>1
      <4> QED BY <4>1, <4>2, <4>3, Zenon DEF WithLowest
    <3>2. CASE n = m + 1
      <4>1. e[n] = <<d>> \o g[k] /\ e[k] = g[k]
        BY <3>2
      <4> QED BY <2>2, <2>3, <3>2, <4>1, Zenon DEF WithLowest
    <3> QED BY <3>1, <3>2
  <2>8. Upto(e, m + 1)
    <3> HIDE DEF e
    <3> QED BY <2>6, <2>7
  <2>9. \E x \in [0 .. m + 1 -> Seq(Nat)] : Upto(x, m + 1)
    <3> HIDE DEF e, Upto
    <3> QED BY <2>5, <2>8
  <2>10. m + 1 \in 0 .. number
    BY <1>2
  <2> QED BY <2>9, <2>10, Zenon
<1>3. number \in S
  <2> HIDE DEF S
  <2>1. 0 .. number \subseteq S
    BY <1>1, <1>2, Induction
  <2> QED BY <2>1
<1>4. PICK g \in [0 .. number -> Seq(Nat)] : Upto(g, number)
  BY <1>3
<1>5. g = Step(g)
  <2> HIDE DEF f, Step, S
  <2>1. \A n \in 0 .. number : g[n] = IF n = 0 THEN << >> ELSE WithLowest(g, n, b)
    BY <1>4
  <2> QED BY <1>4, <2>1, Zenon DEF WithLowest, Step
<1>6. f = Step(f)
  <2>1. \E e : e = Step(e)
    BY <1>5, Zenon
  <2> QED BY <2>1, Zenon
<1>7. Key!Digits(number, b) = f[number]
  BY Zenon DEF Key!Digits
<1>8. \A n \in 0 .. number : f[n] = IF n = 0 THEN << >> ELSE WithLowest(f, n, b)
  BY <1>6, Zenon DEF WithLowest
<1> HIDE DEF f, Step, S, Upto
<1> DEFINE T == {n \in Nat : n <= number => f[n] \in Seq(Nat) /\ Represents(f[n], b, n)}
<1>9. ASSUME NEW n \in Nat, \A k \in Nat : k < n => k \in T PROVE n \in T
  <2>1. CASE n > number
    BY <2>1
  <2>2. CASE n = 0
    <3>1. f[n] = << >>
      BY <1>8, <2>2, 0 \in 0 .. number
    <3>2. f[n] \in Seq(Nat) /\ Represents(f[n], b, n)
      BY <2>2, <3>1, NoDigits
    <3> QED BY <3>2
  <2>3. CASE n # 0 /\ n <= number
    <3>1. PICK k \in 0 .. n - 1 : k = n \div b
      BY <2>3, Smaller
    <3>2. k < n /\ k \in Nat /\ k <= number
      BY <2>3, <3>1
    <3>3. f[k] \in Seq(Nat) /\ Represents(f[k], b, k)
      BY <1>9, <3>2
    <3>4. f[n] = <<n % b>> \o f[k]
      <4>1. f[n] = WithLowest(f, n, b)
        BY <1>8, <2>3
      <4> QED BY <3>1, <4>1, Zenon DEF WithLowest
    <3>5. f[n] \in Seq(Nat) /\ Represents(f[n], b, n)
      BY <2>3, <3>1, <3>3, <3>4, FirstDigit
    <3> QED BY <3>5
  <2> QED BY <2>1, <2>2, <2>3
<1>10. Nat \subseteq T
  <2> HIDE DEF T
  <2> QED BY <1>9, StrongInduction
<1> QED BY <1>7, <1>10

(* A number has one representation: from the first digit on, quotients and *)
(* digits are the same.                                                    *)
LEMMA SameDigits ==
  ASSUME NEW b \in Nat \ {0}, NEW n \in Nat, NEW s \in Seq(Nat), NEW t \in Seq(Nat),
         Represents(s, b, n), Represents(t, b, n)
  PROVE  s = t
<1>1. PICK q : Quotients(q, s, b, n) /\ \A c \in 1 .. Len(s) : q[c - 1] # 0
  BY DEF Represents
<1>2. PICK r : Quotients(r, t, b, n) /\ \A c \in 1 .. Len(t) : r[c - 1] # 0
  BY DEF Represents
<1>3. PICK L \in Nat, M \in Nat : L = Len(s) /\ M = Len(t)
  OBVIOUS
<1>4. /\ q \in [0 .. L -> Nat] /\ q[0] = n /\ q[L] = 0
      /\ \A c \in 1 .. L : s[c] \in 0 .. b - 1 /\ q[c - 1] = b * q[c] + s[c] /\ q[c - 1] # 0
  BY <1>1, <1>3 DEF Quotients
<1>5. /\ r \in [0 .. M -> Nat] /\ r[0] = n /\ r[M] = 0
      /\ \A c \in 1 .. M : t[c] \in 0 .. b - 1 /\ r[c - 1] = b * r[c] + t[c] /\ r[c - 1] # 0
  BY <1>2, <1>3 DEF Quotients
<1>6. ASSUME NEW c \in Nat, c < L, c < M, q[c] = r[c]
      PROVE  q[c + 1] = r[c + 1] /\ s[c + 1] = t[c + 1]
  <2>1. c + 1 \in 1 .. L /\ c + 1 \in 1 .. M /\ c + 1 - 1 = c
    BY <1>6
  <2>2. q[c + 1] \in Nat /\ s[c + 1] \in 0 .. b - 1 /\ q[c] = b * q[c + 1] + s[c + 1]
    BY <1>4, <2>1
  <2>3. r[c + 1] \in Nat /\ t[c + 1] \in 0 .. b - 1 /\ r[c] = b * r[c + 1] + t[c + 1]
    BY <1>5, <2>1
  <2>4. q[c] \in Nat
    BY <1>4, <2>1
  <2>5. q[c] \div b = q[c + 1] /\ q[c] % b = s[c + 1]
    BY <2>2, <2>4, Quotient
  <2>6. q[c] \div b = r[c + 1] /\ q[c] % b = t[c + 1]
    BY <1>6, <2>3, <2>4, Quotient
  <2> QED BY <2>5, <2>6
<1> DEFINE S == {c \in 0 .. L : c <= M /\ q[c] = r[c] /\ \A i \in 1 .. c : s[i] = t[i]}
<1>7. 0 \in S
  BY <1>4, <1>5
<1>8. ASSUME NEW c \in 0 .. L, c \in S /\ c < L PROVE c + 1 \in S
  <2>1. c + 1 \in 1 .. L /\ c + 1 - 1 = c /\ c <= M /\ q[c] = r[c]
    BY <1>8
  <2>2. q[c] # 0
    <3>1. PICK j \in 1 .. L : j = c + 1 /\ j - 1 = c
      BY <2>1
    <3>2. q[j - 1] # 0
      BY <1>4, <3>1
    <3> QED BY <3>1, <3>2, Zenon
  <2>3. c < M
    BY <1>5, <2>1, <2>2
  <2>4. q[c + 1] = r[c + 1] /\ s[c + 1] = t[c + 1]
    BY <1>6, <1>8, <2>1, <2>3
  <2>5. \A i \in 1 .. c + 1 : i = c + 1 \/ i \in 1 .. c
    BY <2>1
  <2> QED BY <1>8, <2>1, <2>3, <2>4, <2>5
<1>9. L \in S
  <2> HIDE DEF S
  <2>1. 0 .. L \subseteq S
    BY <1>7, <1>8, Induction
  <2> QED BY <2>1
<1>10. L <= M /\ r[L] = 0
  BY <1>4, <1>9
<1>11. L = M
  <2>1. ASSUME L < M PROVE FALSE
    <3>1. PICK j \in 1 .. M : j - 1 = L
      <4>1. L + 1 \in 1 .. M /\ (L + 1) - 1 = L
        BY <2>1
      <4> QED BY <4>1, Zenon
    <3>2. r[j - 1] # 0
      BY <1>5, <3>1
    <3> QED BY <1>10, <3>1, <3>2, Zenon
  <2> QED BY <1>10, <2>1
<1>12. \A i \in 1 .. L : s[i] = t[i]
  BY <1>9
<1> QED BY <1>3, <1>11, <1>12, SeqEqual

(* The arithmetic of one digit: v = to * y + x is multiplied, z is carried *)
(* to it and w from it.                                                    *)
LEMMA CarriedOver ==
  ASSUME NEW to \in Nat, NEW from \in Nat, NEW v \in Nat, NEW x \in Nat, NEW y \in Nat, NEW z \in Nat, NEW w \in Nat,
         NEW d \in Nat, v = to * y + x, z + x * from = to * w + d
  PROVE  v * from + z = to * (y * from + w) + d
<1>1. v * from = (to * y) * from + x * from
  OBVIOUS
<1>2. to * (y * from + w) = (to * y) * from + to * w
  OBVIOUS
<1>3. to * y \in Nat /\ x * from \in Nat /\ to * w \in Nat
  BY ProductInNat
<1>4. (to * y) * from \in Nat
  BY <1>3, ProductInNat
<1>5. PICK e \in Nat, f \in Nat, g \in Nat : e = (to * y) * from /\ f = x * from /\ g = to * w
  BY <1>3, <1>4, Zenon
<1>6. v * from = e + f /\ to * (y * from + w) = e + g /\ z + f = g + d
  BY <1>1, <1>2, <1>5, Zenon
<1>7. (e + f) + z = (e + g) + d
  BY <1>6
<1> QED BY <1>6, <1>7, Zenon

(* Shift multiplies by from and adds an item. The new quotients are the    *)
(* old ones times from, plus what is carried. The buffer of the code       *)
(* starts with one digit, 0, which represents nothing: its first item must *)
(* not be 0.                                                               *)
LEMMA ShiftRepresents ==
  ASSUME NEW s \in Seq(Nat), NEW from \in Nat \ {0}, NEW to \in Nat \ {0, 1}, NEW item \in Nat, NEW n \in Nat,
         NEW q, Quotients(q, s, to, n),
         \A c \in 1 .. Len(s) : q[c - 1] # 0 \/ (c = 1 /\ item # 0)
  PROVE  /\ Key!Shift(s, from, to, item) \in Seq(Nat)
         /\ Represents(Key!Shift(s, from, to, item), to, n * from + item)
<1>1. PICK Local : Local = Key!Carries(s, from, to, item)
  OBVIOUS
<1>2. PICK L \in Nat : L = Len(s)
  OBVIOUS
<1>3. Local \in [0 .. L -> Nat] /\ Local[0] = item /\ \A c \in 1 .. L : Local[c] = (Local[c - 1] + s[c] * from) \div to
  <2>1. to \in Nat \ {0} /\ from \in Nat
    OBVIOUS
  <2>2. Carry(Local, s, from, to, item)
    BY <1>1, <2>1, CarriesStep
  <2> QED BY <1>2, <2>2, Zenon DEF Carry
<1>4. PICK rest \in Seq(Nat) : rest = Key!Digits(Local[L], to) /\ Represents(rest, to, Local[L])
  BY <1>3, DigitsRepresent
<1>5. PICK r : Quotients(r, rest, to, Local[L]) /\ \A c \in 1 .. Len(rest) : r[c - 1] # 0
  BY <1>4 DEF Represents
<1>6. PICK M \in Nat : M = Len(rest)
  OBVIOUS
<1>7. /\ q \in [0 .. L -> Nat] /\ q[0] = n /\ q[L] = 0
      /\ \A c \in 1 .. L : s[c] \in 0 .. to - 1 /\ q[c - 1] = to * q[c] + s[c]
      /\ \A c \in 1 .. L : q[c - 1] # 0 \/ (c = 1 /\ item # 0)
  BY <1>2 DEF Quotients
<1>8. /\ r \in [0 .. M -> Nat] /\ r[0] = Local[L] /\ r[M] = 0
      /\ \A c \in 1 .. M : rest[c] \in 0 .. to - 1 /\ r[c - 1] = to * r[c] + rest[c] /\ r[c - 1] # 0
  BY <1>5, <1>6 DEF Quotients
<1> DEFINE low == [c \in 1 .. L |-> (Local[c - 1] + s[c] * from) % to]
           u == low \o rest
           p == [c \in 0 .. L + M |-> IF c <= L THEN q[c] * from + Local[c] ELSE r[c - L]]
<1>9. ASSUME NEW c \in 1 .. L
      PROVE  /\ low[c] \in 0 .. to - 1
             /\ q[c - 1] * from + Local[c - 1] = to * (q[c] * from + Local[c]) + low[c]
             /\ q[c - 1] * from + Local[c - 1] # 0
  <2>0. s[c] \in Nat /\ q[c] \in Nat /\ Local[c - 1] \in Nat /\ Local[c] \in Nat
    <3>1. c \in 0 .. L /\ c - 1 \in 0 .. L
      OBVIOUS
    <3>2. s[c] \in Nat
      BY <1>2
    <3> QED BY <1>3, <1>7, <3>1, <3>2, Zenon
  <2>1. PICK x \in Nat : x = s[c]
    BY <2>0, Zenon
  <2>2. PICK y \in Nat : y = q[c]
    BY <2>0, Zenon
  <2>3. PICK z \in Nat : z = Local[c - 1]
    BY <2>0, Zenon
  <2>4. PICK w \in Nat : w = Local[c]
    BY <2>0, Zenon
  <2>5. PICK d : d = low[c]
    OBVIOUS
  <2>6. PICK a \in Nat : a = z + x * from
    <3>1. PICK e \in Nat : e = x * from
      BY ProductInNat, Zenon
    <3>2. z + e \in Nat
      OBVIOUS
    <3> QED BY <3>1, <3>2, Zenon
  <2>7. w = a \div to
    BY <1>3, <2>1, <2>3, <2>4, <2>6
  <2>8. d = a % to
    BY <2>1, <2>3, <2>5, <2>6
  <2> HIDE DEF low
  <2>9. d \in 0 .. to - 1 /\ a = to * w + d
    BY <2>7, <2>8, Division
  <2>10. PICK v \in Nat : v = q[c - 1]
    BY <1>7
  <2>11. v = to * y + x
    BY <1>7, <2>1, <2>2, <2>10
  <2>12. v * from + z = to * (y * from + w) + d
    <3>1. d \in Nat /\ z + x * from = to * w + d
      BY <2>6, <2>9
    <3> QED BY <2>11, <3>1, CarriedOver
  <2>13. v * from + z # 0
    <3>1. CASE v # 0
      <4>1. PICK k \in Nat \ {0} : k = v * from
        BY <3>1, Products
      <4>2. k + z # 0
        OBVIOUS
      <4> QED BY <4>1, <4>2, Zenon
    <3>2. CASE v = 0
      <4>1. c = 1 /\ item # 0
        BY <1>7, <2>10, <3>2
      <4>2. z = item
        BY <1>3, <2>3, <4>1
      <4> QED BY <3>2, <4>1, <4>2
    <3> QED BY <3>1, <3>2
  <2> QED BY <2>2, <2>3, <2>4, <2>5, <2>9, <2>10, <2>12, <2>13
<1>10. low \in Seq(Nat) /\ Len(low) = L
  <2>1. ASSUME NEW c \in 1 .. L PROVE (Local[c - 1] + s[c] * from) % to \in Nat
    BY <1>9
  <2>2. low \in [1 .. L -> Nat]
    BY <2>1
  <2> HIDE DEF low
  <2> QED BY <2>2
<1>11. u \in Seq(Nat) /\ Len(u) = L + M /\ (\A c \in 1 .. L : u[c] = low[c]) /\ \A c \in L + 1 .. L + M : u[c] = rest[c - L]
  <2> HIDE DEF low
  <2>1. /\ low \o rest \in Seq(Nat) /\ Len(low \o rest) = Len(low) + Len(rest)
        /\ \A c \in 1 .. Len(low) + Len(rest) :
             (low \o rest)[c] = IF c <= Len(low) THEN low[c] ELSE rest[c - Len(low)]
    BY <1>10, ConcatProperties
  <2>2. u \in Seq(Nat) /\ Len(u) = L + M /\ \A c \in 1 .. L + M : u[c] = IF c <= L THEN low[c] ELSE rest[c - L]
    BY <1>6, <1>10, <2>1, Zenon
  <2> HIDE DEF u
  <2>3. ASSUME NEW c \in 1 .. L PROVE u[c] = low[c]
    <3>1. c \in 1 .. L + M /\ c <= L
      OBVIOUS
    <3> QED BY <2>2, <3>1
  <2>4. ASSUME NEW c \in L + 1 .. L + M PROVE u[c] = rest[c - L]
    <3>1. c \in 1 .. L + M /\ ~(c <= L)
      OBVIOUS
    <3> QED BY <2>2, <3>1
  <2> QED BY <2>2, <2>3, <2>4
<1>12. /\ p \in [0 .. L + M -> Nat] /\ (\A c \in 0 .. L : p[c] = q[c] * from + Local[c])
       /\ \A c \in L .. L + M : p[c] = r[c - L]
  <2>1. ASSUME NEW c \in 0 .. L + M PROVE p[c] \in Nat
    <3>1. CASE c <= L
      <4>1. q[c] \in Nat /\ Local[c] \in Nat
        BY <1>3, <1>7, <3>1
      <4>2. PICK x \in Nat, y \in Nat : x = q[c] /\ y = Local[c]
        BY <4>1
      <4>3. PICK e \in Nat : e = x * from
        BY ProductInNat, Zenon
      <4>4. e + y \in Nat
        OBVIOUS
      <4>5. q[c] * from + Local[c] \in Nat
        BY <4>2, <4>3, <4>4, Zenon
      <4> QED BY <3>1, <4>5
    <3>2. CASE c > L
      <4>1. c - L \in 0 .. M
        BY <3>2
      <4> QED BY <1>8, <3>2, <4>1
    <3> QED BY <3>1, <3>2
  <2>2. p[L] = r[0]
    <3>1. q[L] * from + Local[L] = Local[L]
      BY <1>3, <1>7
    <3> QED BY <1>8, <3>1
  <2>3. ASSUME NEW c \in L .. L + M PROVE p[c] = r[c - L]
    <3>1. CASE c = L
      BY <2>2, <3>1
    <3>2. CASE c # L
      BY <3>2
    <3> QED BY <3>1, <3>2
  <2>4. \A c \in 0 .. L : p[c] = q[c] * from + Local[c]
    OBVIOUS
  <2>5. p = [c \in 0 .. L + M |-> p[c]]
    OBVIOUS
  <2> HIDE DEF p
  <2> QED BY <2>1, <2>3, <2>4, <2>5
<1> HIDE DEF low, u, p
<1>13. ASSUME NEW c \in 1 .. L + M PROVE u[c] \in 0 .. to - 1 /\ p[c - 1] = to * p[c] + u[c] /\ p[c - 1] # 0
  <2>1. CASE c <= L
    <3>1. c \in 1 .. L /\ c \in 0 .. L /\ c - 1 \in 0 .. L
      BY <2>1
    <3>2. u[c] = low[c] /\ p[c] = q[c] * from + Local[c] /\ p[c - 1] = q[c - 1] * from + Local[c - 1]
      BY <1>11, <1>12, <3>1
    <3> QED BY <1>9, <3>1, <3>2
  <2>2. CASE c > L
    <3>1. PICK e \in 1 .. M : e = c - L
      BY <2>2
    <3>2. c \in L + 1 .. L + M /\ c \in L .. L + M /\ c - 1 \in L .. L + M /\ c - 1 - L = e - 1
      BY <2>2, <3>1
    <3>3. u[c] = rest[c - L] /\ p[c] = r[c - L] /\ p[c - 1] = r[c - 1 - L]
      BY <1>11, <1>12, <3>2
    <3>4. u[c] = rest[e] /\ p[c] = r[e] /\ p[c - 1] = r[e - 1]
      BY <3>1, <3>2, <3>3, Zenon
    <3> QED BY <1>8, <3>4
  <2> QED BY <2>1, <2>2
<1>14. p[0] = n * from + item /\ p[L + M] = 0
  <2>1. p[0] = q[0] * from + Local[0]
    BY <1>12
  <2>2. L + M \in L .. L + M /\ L + M - L = M
    OBVIOUS
  <2>3. p[L + M] = r[M]
    BY <1>12, <2>2
  <2> QED BY <1>3, <1>7, <1>8, <2>1, <2>3
<1>15. Represents(u, to, n * from + item)
  <2>1. PICK N : N = L + M
    OBVIOUS
  <2>2. Quotients(p, u, to, n * from + item)
    BY <1>11, <1>12, <1>13, <1>14, <2>1, Zenon DEF Quotients
  <2> QED BY <1>11, <1>13, <2>2, Zenon DEF Represents
<1>16. u = Key!Shift(s, from, to, item)
  BY <1>1, <1>2, <1>4, Zenon DEF u, low, Key!Shift
<1> QED BY <1>11, <1>15, <1>16

(* Whatever number Shift is given, it returns digits.                      *)
LEMMA ShiftType ==
  ASSUME NEW s \in Seq(Nat), NEW from \in Nat, NEW to \in Nat \ {0, 1}, NEW item \in Nat
  PROVE  Key!Shift(s, from, to, item) \in Seq(Nat)
<1>1. PICK Local : Local = Key!Carries(s, from, to, item)
  OBVIOUS
<1>2. PICK L \in Nat : L = Len(s)
  OBVIOUS
<1>3. Local \in [0 .. L -> Nat]
  <2>1. to \in Nat \ {0}
    OBVIOUS
  <2>2. Carry(Local, s, from, to, item)
    BY <1>1, <2>1, CarriesStep
  <2> QED BY <1>2, <2>2, Zenon DEF Carry
<1>4. PICK rest \in Seq(Nat) : rest = Key!Digits(Local[L], to)
  BY <1>3, DigitsRepresent
<1> DEFINE low == [c \in 1 .. L |-> (Local[c - 1] + s[c] * from) % to]
<1>5. ASSUME NEW c \in 1 .. L PROVE (Local[c - 1] + s[c] * from) % to \in Nat
  <2>1. PICK x \in Nat, z \in Nat : x = s[c] /\ z = Local[c - 1]
    <3>1. s[c] \in Nat /\ c - 1 \in 0 .. L
      BY <1>2
    <3> QED BY <1>3, <3>1
  <2>2. x * from \in Nat
    BY ProductInNat
  <2>3. z + x * from \in Nat
    BY <2>2
  <2>4. (z + x * from) % to \in Nat
    BY <2>3, Division
  <2> QED BY <2>1, <2>4, Zenon
<1>6. low \in Seq(Nat)
  <2>1. low \in [1 .. L -> Nat]
    BY <1>5
  <2> HIDE DEF low
  <2> QED BY <2>1
<1>7. low \o rest \in Seq(Nat)
  <2> HIDE DEF low
  <2> QED BY <1>6, ConcatProperties
<1> QED BY <1>1, <1>2, <1>4, <1>7, Zenon DEF Key!Shift

(* v is what the items up to each one are worth, highest first.            *)
Values(v, items, from) ==
  /\ v \in [0 .. Len(items) -> Nat] /\ v[0] = 0
  /\ \A n \in 1 .. Len(items) : v[n] = v[n - 1] * from + items[n]

(* Convert represents what all its items are worth, if the first is not 0  *)
(* (Base58.hpp:56-72 and 128-144).                                         *)
LEMMA ConvertRepresents ==
  ASSUME NEW items \in Seq(Nat), Len(items) # 0, items[1] # 0, NEW from \in Nat \ {0}, NEW to \in Nat \ {0, 1},
         NEW v, Values(v, items, from)
  PROVE  /\ Key!Convert(items, from, to) \in Seq(Nat)
         /\ Represents(Key!Convert(items, from, to), to, v[Len(items)])
<1>1. PICK L \in Nat : L = Len(items)
  OBVIOUS
<1>2. v \in [0 .. L -> Nat] /\ v[0] = 0 /\ \A n \in 1 .. L : items[n] \in Nat /\ v[n] = v[n - 1] * from + items[n]
  <2>1. \A n \in 1 .. L : items[n] \in Nat
    BY <1>1
  <2> QED BY <1>1, <2>1, Zenon DEF Values
<1> DEFINE Step(f) == [n \in 0 .. Len(items) |-> IF n = 0 THEN <<0>> ELSE Key!Shift(f[n - 1], from, to, items[n])]
           h == [n \in 1 .. L |-> [s \in Seq(Nat) |-> Key!Shift(s, from, to, items[n])]]
           f == CHOOSE f : f = Step(f)
<1>3. h \in [1 .. L -> [Seq(Nat) -> Seq(Nat)]]
  <2>1. ASSUME NEW n \in 1 .. L, NEW s \in Seq(Nat) PROVE Key!Shift(s, from, to, items[n]) \in Seq(Nat)
    BY <1>2, ShiftType
  <2> QED BY <2>1
<1>4. PICK g \in [0 .. L -> Seq(Nat)] : Recursive(g, L, <<0>>, h)
  <2>1. <<0>> \in Seq(Nat)
    OBVIOUS
  <2> HIDE DEF h
  <2> QED BY <1>3, <2>1, Recursion
<1>5. g = Step(g)
  <2>1. g[0] = <<0>>
    BY <1>4 DEF Recursive
  <2>2. ASSUME NEW n \in 1 .. L PROVE g[n] = Key!Shift(g[n - 1], from, to, items[n])
    <3>1. g[n] = h[n][g[n - 1]]
      BY <1>4 DEF Recursive
    <3>2. g[n - 1] \in Seq(Nat)
      BY <1>4
    <3> QED BY <3>1, <3>2
  <2> HIDE DEF h, f
  <2>3. \A n \in 0 .. L : g[n] = IF n = 0 THEN <<0>> ELSE Key!Shift(g[n - 1], from, to, items[n])
    <3>1. \A n \in 0 .. L : n = 0 \/ n \in 1 .. L
      OBVIOUS
    <3> QED BY <2>1, <2>2, <3>1, Zenon
  <2>4. g = [n \in 0 .. L |-> IF n = 0 THEN <<0>> ELSE Key!Shift(g[n - 1], from, to, items[n])]
    BY <1>4, <2>3, Zenon
  <2> QED BY <1>1, <2>4, Zenon
<1>6. f = Step(f)
  <2>1. \E e : e = Step(e)
    BY <1>5, Zenon
  <2> QED BY <2>1, Zenon
<1>7. Key!Convert(items, from, to) = f[L]
  BY <1>1, Zenon DEF Key!Convert
<1>8. \A n \in 0 .. L : f[n] = IF n = 0 THEN <<0>> ELSE Key!Shift(f[n - 1], from, to, items[n])
  BY <1>1, <1>6, Zenon
<1> HIDE DEF f, h, Step
<1> DEFINE S == {n \in 0 .. L : n # 0 => f[n] \in Seq(Nat) /\ Represents(f[n], to, v[n])}
<1>9. 0 \in S
  OBVIOUS
<1>10. ASSUME NEW n \in 0 .. L, n \in S /\ n < L PROVE n + 1 \in S
  <2>1. PICK m \in 1 .. L : m = n + 1 /\ m - 1 = n
    BY <1>10
  <2>2. PICK item \in Nat : item = items[m]
    BY <1>2
  <2>3. PICK s : s = f[n]
    OBVIOUS
  <2>4. f[m] = Key!Shift(s, from, to, item)
    <3>1. f[m] = Key!Shift(f[m - 1], from, to, items[m])
      BY <1>8
    <3> QED BY <2>1, <2>2, <2>3, <3>1, Zenon
  <2>5. v[m] = v[n] * from + item /\ v[n] \in Nat
    <3>1. v[m] = v[m - 1] * from + items[m]
      BY <1>2
    <3> QED BY <1>2, <2>1, <2>2, <3>1
  <2>6. s \in Seq(Nat) /\ \E q : Quotients(q, s, to, v[n]) /\ \A c \in 1 .. Len(s) : q[c - 1] # 0 \/ (c = 1 /\ item # 0)
    <3>1. CASE n = 0
      <4>1. s = <<0>>
        BY <1>8, <2>3, <3>1
      <4>2. v[n] = 0 /\ item # 0
        BY <1>2, <2>1, <2>2, <3>1
      <4> DEFINE q == [c \in 0 .. 1 |-> 0]
      <4>3. Quotients(q, <<0>>, to, 0)
        BY DEF Quotients
      <4>4. Len(<<0>>) = 1 /\ <<0>> \in Seq(Nat)
        OBVIOUS
      <4> HIDE DEF q
      <4>5. \A c \in 1 .. Len(<<0>>) : c = 1
        BY <4>4
      <4> QED BY <4>1, <4>2, <4>3, <4>4, <4>5, Zenon
    <3>2. CASE n # 0
      BY <1>10, <2>3, <3>2, Zenon DEF Represents
    <3> QED BY <3>1, <3>2
  <2>7. f[m] \in Seq(Nat) /\ Represents(f[m], to, v[m])
    <3>1. PICK q : Quotients(q, s, to, v[n]) /\ \A c \in 1 .. Len(s) : q[c - 1] # 0 \/ (c = 1 /\ item # 0)
      BY <2>6
    <3>2. Key!Shift(s, from, to, item) \in Seq(Nat) /\ Represents(Key!Shift(s, from, to, item), to, v[n] * from + item)
      BY <2>5, <2>6, <3>1, ShiftRepresents
    <3> QED BY <2>4, <2>5, <3>2, Zenon
  <2> QED BY <2>1, <2>7
<1>11. L \in S
  <2> HIDE DEF S
  <2>1. 0 .. L \subseteq S
    BY <1>9, <1>10, Induction
  <2> QED BY <2>1
<1>12. f[L] \in Seq(Nat) /\ Represents(f[L], to, v[L])
  BY <1>1, <1>11
<1> QED BY <1>1, <1>7, <1>12, Zenon

(* Then no zeros are counted, and none is written over a digit.            *)
LEMMA NoneLeading ==
  ASSUME NEW items \in Seq(Nat), Len(items) # 0, items[1] # 0
  PROVE  Key!Leading(items, 0) = 0
<1> DEFINE P(n) == (n = Len(items) \/ items[n + 1] # 0) /\ \A i \in 1 .. n : items[i] = 0
<1>1. 0 \in 0 .. Len(items) /\ P(0)
  OBVIOUS
<1>2. ASSUME NEW n \in 0 .. Len(items), P(n) PROVE n = 0
  BY <1>2
<1>3. Key!Leading(items, 0) = CHOOSE n \in 0 .. Len(items) : P(n)
  BY Zenon DEF Key!Leading
<1> HIDE DEF P
<1> QED BY <1>1, <1>2, <1>3

(* Reverse, which is an operator of the instance, by its places.           *)
LEMMA Reversed ==
  ASSUME NEW s \in Seq(Nat)
  PROVE  /\ Key!Reverse(s) \in Seq(Nat) /\ Len(Key!Reverse(s)) = Len(s)
         /\ \A i \in 1 .. Len(s) : Key!Reverse(s)[i] = s[Len(s) - i + 1]
<1>1. PICK L \in Nat : L = Len(s)
  OBVIOUS
<1>2. \A i \in 1 .. L : s[L - i + 1] \in Nat
  BY <1>1
<1>3. Key!Reverse(s) = [i \in 1 .. L |-> s[L - i + 1]]
  BY <1>1, Zenon DEF Key!Reverse
<1>4. Key!Reverse(s) \in [1 .. L -> Nat]
  BY <1>2, <1>3
<1> QED BY <1>1, <1>3, <1>4

(* Reversing twice changes nothing.                                        *)
LEMMA TwiceReversed ==
  ASSUME NEW s \in Seq(Nat) PROVE Key!Reverse(Key!Reverse(s)) = s
<1>1. PICK L \in Nat : L = Len(s)
  OBVIOUS
<1>2. PICK t \in Seq(Nat) : t = Key!Reverse(s) /\ Len(t) = L /\ \A i \in 1 .. L : t[i] = s[L - i + 1]
  BY <1>1, Reversed
<1>3. PICK u \in Seq(Nat) : u = Key!Reverse(t) /\ Len(u) = L /\ \A i \in 1 .. L : u[i] = t[L - i + 1]
  BY <1>2, Reversed
<1>4. ASSUME NEW i \in 1 .. L PROVE u[i] = s[i]
  <2>1. PICK j \in 1 .. L : j = L - i + 1 /\ L - j + 1 = i
    OBVIOUS
  <2>2. u[i] = t[j] /\ t[j] = s[L - j + 1]
    BY <1>2, <1>3, <2>1
  <2> QED BY <2>1, <2>2, Zenon
<1>5. u = s
  BY <1>1, <1>3, <1>4, SeqEqual
<1> QED BY <1>2, <1>3, <1>5, Zenon

(* All items are worth something.                                          *)
LEMMA ValuesExist ==
  ASSUME NEW items \in Seq(Nat), NEW from \in Nat PROVE \E v : Values(v, items, from)
<1>1. PICK L \in Nat : L = Len(items)
  OBVIOUS
<1>2. ASSUME NEW n \in 1 .. L, NEW x \in Nat PROVE x * from + items[n] \in Nat
  <2>1. PICK y \in Nat : y = items[n]
    BY <1>1
  <2>2. x * from \in Nat
    BY ProductInNat
  <2>3. x * from + y \in Nat
    BY <2>2
  <2> QED BY <2>1, <2>3, Zenon
<1> DEFINE h == [n \in 1 .. L |-> [x \in Nat |-> x * from + items[n]]]
<1>3. h \in [1 .. L -> [Nat -> Nat]]
  BY <1>2
<1>4. PICK v \in [0 .. L -> Nat] : Recursive(v, L, 0, h)
  <2> HIDE DEF h
  <2> QED BY <1>3, Recursion
<1>5. ASSUME NEW n \in 1 .. L PROVE v[n] = v[n - 1] * from + items[n]
  <2>1. v[n] = h[n][v[n - 1]]
    BY <1>4 DEF Recursive
  <2>2. v[n - 1] \in Nat
    BY <1>4
  <2> QED BY <2>1, <2>2
<1>6. v[0] = 0
  BY <1>4 DEF Recursive
<1>7. Values(v, items, from)
  BY <1>1, <1>4, <1>5, <1>6, Zenon DEF Values
<1> QED BY <1>7

(* Items that are digits already represent what they are worth, when they  *)
(* are reversed: what the items before each are worth are its quotients.   *)
LEMMA ReversedRepresents ==
  ASSUME NEW items \in Seq(Nat), Len(items) # 0, items[1] # 0, NEW b \in Nat \ {0},
         \A i \in 1 .. Len(items) : items[i] \in 0 .. b - 1,
         NEW v, Values(v, items, b)
  PROVE  Represents(Key!Reverse(items), b, v[Len(items)]) /\ v[Len(items)] \in Nat
<1>1. PICK L \in Nat : L = Len(items)
  OBVIOUS
<1>2. /\ v \in [0 .. L -> Nat] /\ v[0] = 0
      /\ \A n \in 1 .. L : v[n] = v[n - 1] * b + items[n]
      /\ \A n \in 1 .. L : items[n] \in 0 .. b - 1
  BY <1>1, Zenon DEF Values
<1>3. ASSUME NEW n \in 1 .. L PROVE v[n] # 0
  <2> DEFINE S == {i \in 0 .. L : i # 0 => v[i] # 0}
  <2>1. 0 \in S
    OBVIOUS
  <2>2. ASSUME NEW i \in 0 .. L, i \in S /\ i < L PROVE i + 1 \in S
    <3>1. PICK m \in 1 .. L : m = i + 1 /\ m - 1 = i
      BY <2>2
    <3>2. PICK x \in Nat, y \in Nat : x = v[i] /\ y = items[m]
      <4>1. v[i] \in Nat
        BY <1>2
      <4>2. items[m] \in 0 .. b - 1
        BY <1>2
      <4> QED BY <4>1, <4>2
    <3>3. v[m] = x * b + y
      <4>1. v[m] = v[m - 1] * b + items[m]
        BY <1>2
      <4> QED BY <3>1, <3>2, <4>1, Zenon
    <3>4. x * b + y # 0
      <4>1. CASE i = 0
        BY <1>1, <1>2, <3>1, <3>2, <4>1
      <4>2. CASE i # 0
        <5>1. x \in Nat \ {0}
          BY <2>2, <3>2, <4>2
        <5>2. PICK k \in Nat \ {0} : k = x * b
          BY <5>1, Products
        <5>3. k + y # 0
          OBVIOUS
        <5> QED BY <5>2, <5>3, Zenon
      <4> QED BY <4>1, <4>2
    <3> QED BY <3>1, <3>3, <3>4
  <2>3. 0 .. L \subseteq S
    <3> HIDE DEF S
    <3> QED BY <2>1, <2>2, Induction
  <2> QED BY <2>3
<1>4. PICK t \in Seq(Nat) : t = Key!Reverse(items) /\ Len(t) = L /\ \A i \in 1 .. L : t[i] = items[L - i + 1]
  BY <1>1, Reversed
<1> DEFINE q == [c \in 0 .. L |-> v[L - c]]
<1>5. q \in [0 .. L -> Nat] /\ q[0] = v[L] /\ q[L] = 0 /\ \A c \in 0 .. L : q[c] = v[L - c]
  BY <1>2
<1> HIDE DEF q
<1>6. ASSUME NEW c \in 1 .. L PROVE t[c] \in 0 .. b - 1 /\ q[c - 1] = b * q[c] + t[c] /\ q[c - 1] # 0
  <2>1. PICK n \in 1 .. L : n = L - c + 1 /\ n - 1 = L - c /\ L - (c - 1) = n
    OBVIOUS
  <2>2. q[c] = v[L - c] /\ q[c - 1] = v[L - (c - 1)] /\ t[c] = items[L - c + 1]
    <3>1. c \in 0 .. L /\ c - 1 \in 0 .. L
      OBVIOUS
    <3> QED BY <1>4, <1>5, <3>1, Zenon
  <2>3. q[c] = v[n - 1] /\ q[c - 1] = v[n] /\ t[c] = items[n]
    BY <2>1, <2>2, Zenon
  <2>4. v[n] = v[n - 1] * b + items[n] /\ items[n] \in 0 .. b - 1 /\ v[n - 1] \in Nat
    BY <1>2
  <2>5. PICK x \in Nat : x = v[n - 1]
    BY <2>4
  <2>6. x * b = b * x
    OBVIOUS
  <2>7. q[c - 1] = b * q[c] + t[c]
    BY <2>3, <2>4, <2>5, <2>6, Zenon
  <2> QED BY <1>3, <2>3, <2>4, <2>7
<1>7. Quotients(q, t, b, v[L])
  BY <1>4, <1>5, <1>6, Zenon DEF Quotients
<1>8. Represents(t, b, v[L])
  BY <1>4, <1>6, <1>7, Zenon DEF Represents
<1>9. v[L] \in Nat
  BY <1>2
<1> QED BY <1>1, <1>4, <1>8, <1>9, Zenon

(* And the other way round: a representation, reversed, is worth its       *)
(* number.                                                                 *)
Worth(items, from, n) == \E v : Values(v, items, from) /\ v[Len(items)] = n

(* What the digits are worth is the number, read from the other end.       *)
LEMMA ReversedValues ==
  ASSUME NEW b \in Nat \ {0}, NEW n \in Nat, NEW s \in Seq(Nat), Len(s) # 0, Represents(s, b, n)
  PROVE  Worth(Key!Reverse(s), b, n) /\ Key!Reverse(s)[1] # 0
<1>1. PICK q : Quotients(q, s, b, n) /\ \A c \in 1 .. Len(s) : q[c - 1] # 0
  BY DEF Represents
<1>2. PICK L \in Nat : L = Len(s)
  OBVIOUS
<1>3. /\ q \in [0 .. L -> Nat] /\ q[0] = n /\ q[L] = 0
      /\ \A c \in 1 .. L : s[c] \in 0 .. b - 1 /\ q[c - 1] = b * q[c] + s[c] /\ q[c - 1] # 0
  BY <1>1, <1>2, Zenon DEF Quotients
<1>4. PICK t \in Seq(Nat) : t = Key!Reverse(s) /\ Len(t) = L /\ \A i \in 1 .. L : t[i] = s[L - i + 1]
  BY <1>2, Reversed
<1> DEFINE v == [c \in 0 .. L |-> q[L - c]]
<1>5. v \in [0 .. L -> Nat] /\ v[0] = 0 /\ v[L] = n /\ \A c \in 0 .. L : v[c] = q[L - c]
  BY <1>3
<1> HIDE DEF v
<1>6. ASSUME NEW i \in 1 .. L PROVE v[i] = v[i - 1] * b + t[i]
  <2>1. PICK c \in 1 .. L : c = L - i + 1 /\ c - 1 = L - i /\ L - (i - 1) = c
    OBVIOUS
  <2>2. v[i] = q[L - i] /\ v[i - 1] = q[L - (i - 1)] /\ t[i] = s[L - i + 1]
    <3>1. i \in 0 .. L /\ i - 1 \in 0 .. L
      OBVIOUS
    <3> QED BY <1>4, <1>5, <3>1, Zenon
  <2>3. v[i] = q[c - 1] /\ v[i - 1] = q[c] /\ t[i] = s[c]
    BY <2>1, <2>2, Zenon
  <2>4. q[c - 1] = b * q[c] + s[c] /\ q[c] \in Nat
    BY <1>3
  <2>5. PICK x \in Nat : x = q[c]
    BY <2>4
  <2>6. x * b = b * x
    OBVIOUS
  <2> QED BY <2>3, <2>4, <2>5, <2>6, Zenon
<1>7. Values(v, t, b)
  BY <1>4, <1>5, <1>6, Zenon DEF Values
<1>8. t[1] # 0
  <2>1. L \in 1 .. L /\ 1 \in 1 .. L /\ L - 1 + 1 = L
    BY <1>2
  <2>2. t[1] = s[L]
    BY <1>4, <2>1
  <2>3. q[L - 1] = b * q[L] + s[L] /\ q[L - 1] # 0 /\ s[L] \in 0 .. b - 1
    BY <1>3, <2>1
  <2>4. b * q[L] = 0
    BY <1>3
  <2> QED BY <2>2, <2>3, <2>4
<1>9. Worth(t, b, n)
  BY <1>4, <1>5, <1>7, Zenon DEF Worth
<1> QED BY <1>4, <1>8, <1>9, Zenon

(* What Encode makes of its buffer and the number of leading zeros.        *)
Text58(zeros, digits) ==
  [i \in 1 .. zeros |-> Key!NUL] \o Key!Reverse([c \in DOMAIN digits |-> IF c <= zeros THEN 49 ELSE digits[c]])

(* Decoding undoes encoding, if the text fills its array and the key has   *)
(* no leading zero. The text represents the number of the key in base 58;  *)
(* what is decoded from it, that number in base 256, as the key does, and  *)
(* there is one such representation. The assumption on sizes gives it the  *)
(* length of the key (Base58.hpp:91-127 and 128-170).                      *)
LEMMA EncodingInverted ==
  ASSUME NEW k \in [1 .. Keysize -> 0 .. 255], k[1] # 0, Len(Key!Encode(k)) = Key!Encodesize(Keysize)
  PROVE  Key!Decode(Key!Fixedsize(Key!Encode(k))) = k
<1>1. Keysize \in Nat \ {0} /\ Key!Decodesize(Key!Encodesize(Keysize)) = Keysize
  BY PartsAssumption DEF Key!Base58Assumption
<1>2. k \in Seq(Nat) /\ Len(k) = Keysize /\ Len(k) # 0
  <2>1. k \in [1 .. Keysize -> Nat]
    <3>1. 0 .. 255 \subseteq Nat
      OBVIOUS
    <3> QED BY <3>1, Zenon
  <2> QED BY <1>1, <2>1
<1>0. 256 \in Nat \ {0} /\ 256 \in Nat \ {0, 1} /\ 58 \in Nat \ {0} /\ 58 \in Nat \ {0, 1}
  OBVIOUS
<1>3. PICK v : Values(v, k, 256)
  BY <1>2, ValuesExist
<1>4. PICK n \in Nat : n = v[Len(k)] /\ Represents(Key!Reverse(k), 256, n)
  <2>1. ASSUME NEW i \in 1 .. Len(k) PROVE k[i] \in 0 .. 256 - 1
    <3>1. i \in 1 .. Keysize
      BY <1>2
    <3>2. PICK x \in 0 .. 255 : x = k[i]
      BY <3>1
    <3>3. x \in 0 .. 256 - 1
      OBVIOUS
    <3> QED BY <3>2, <3>3
  <2>2. Represents(Key!Reverse(k), 256, v[Len(k)]) /\ v[Len(k)] \in Nat
    BY <1>2, <1>3, <1>0, <2>1, ReversedRepresents
  <2> QED BY <2>2
<1>5. PICK s \in Seq(Nat) : s = Key!Convert(k, 256, 58) /\ Represents(s, 58, n)
  <2>1. /\ Key!Convert(k, 256, 58) \in Seq(Nat)
        /\ Represents(Key!Convert(k, 256, 58), 58, v[Len(k)])
    <3>1. k \in Seq(Nat) /\ Len(k) # 0
      BY <1>2
    <3> QED BY <1>3, <1>0, <3>1, ConvertRepresents, Zenon
  <2>2. Represents(Key!Convert(k, 256, 58), 58, n)
    BY <1>4, <2>1
  <2> QED BY <2>1, <2>2
<1>6. PICK t \in Seq(Nat) : t = Key!Reverse(s) /\ Len(t) = Len(s)
  <2>1. Key!Reverse(s) \in Seq(Nat) /\ Len(Key!Reverse(s)) = Len(s)
    BY Reversed, Zenon
  <2> QED BY <2>1, Zenon
<1>7. Key!Encode(k) = t
  <2>1. Key!Leading(k, 0) = 0
    BY <1>2, NoneLeading
  <2>2. [c \in DOMAIN s |-> IF c <= 0 THEN 49 ELSE s[c]] = s
    OBVIOUS
  <2>a. Key!Encode(k) = Text58(Key!Leading(k, 0), Key!Convert(k, 256, 58))
    BY Zenon DEF Key!Encode, Text58
  <2>b. Key!Encode(k) = Text58(0, s)
    BY <1>5, <2>1, <2>a, Zenon
  <2>3. Key!Encode(k) = [i \in 1 .. 0 |-> Key!NUL] \o t
    BY <1>6, <2>2, <2>b, Zenon DEF Text58
  <2>4. [i \in 1 .. 0 |-> Key!NUL] = << >>
    OBVIOUS
  <2>5. << >> \o t = t
    OBVIOUS
  <2> QED BY <2>3, <2>4, <2>5, Zenon
<1>8. PICK E \in Nat : E = Key!Encodesize(Keysize) /\ E = Len(t) /\ E = Len(s)
  BY <1>6, <1>7
<1>9. E # 0
  <2>1. Key!Decodesize(0) = 0
    BY DEF Key!Decodesize
  <2> QED BY <1>1, <1>8, <2>1
<1>10. Key!Fixedsize(t) = t
  <2>1. t = [i \in 1 .. E |-> t[i]] /\ DOMAIN t = 1 .. E
    <3>1. t \in [1 .. Len(t) -> Nat]
      OBVIOUS
    <3>2. t \in [1 .. E -> Nat]
      BY <1>8, <3>1, Zenon
    <3> QED BY <3>2, Zenon
  <2>2. [i \in 1 .. E |-> IF i \in DOMAIN t THEN t[i] ELSE Key!NUL] = [i \in 1 .. E |-> t[i]]
    BY <2>1
  <2> QED BY <1>8, <2>1, <2>2, Zenon DEF Key!Fixedsize
<1>11. PICK w : Values(w, t, 58) /\ w[Len(t)] = n /\ t[1] # 0
  <2>1. Len(s) # 0
    BY <1>8, <1>9
  <2>2. Worth(Key!Reverse(s), 58, n) /\ Key!Reverse(s)[1] # 0
    BY <1>5, <1>0, <2>1, ReversedValues
  <2> QED BY <1>6, <2>2, Zenon DEF Worth
<1>12. Key!Convert(t, 58, 256) = Key!Reverse(k)
  <2>1. /\ Key!Convert(t, 58, 256) \in Seq(Nat)
        /\ Represents(Key!Convert(t, 58, 256), 256, w[Len(t)])
    <3>1. Len(t) # 0 /\ t[1] # 0 /\ Values(w, t, 58)
      BY <1>8, <1>9, <1>11
    <3> QED BY <1>0, <3>1, ConvertRepresents
  <2>2. Represents(Key!Convert(t, 58, 256), 256, n)
    BY <1>6, <1>11, <2>1, Zenon
  <2>3. Key!Reverse(k) \in Seq(Nat)
    BY <1>2, Reversed
  <2> QED BY <1>4, <2>1, <2>2, <2>3, SameDigits
<1>13. Key!Reverse(Key!Convert(t, 58, 256) \o [i \in 1 .. Key!Leading(t, 0) |-> 0]) = k
  <2>1. Key!Leading(t, 0) = 0
    BY <1>8, <1>9, <1>11, NoneLeading
  <2>2. [i \in 1 .. 0 |-> 0] = << >>
    OBVIOUS
  <2>3. PICK r \in Seq(Nat) : r = Key!Reverse(k)
    BY <1>2, Reversed
  <2>4. r \o << >> = r
    OBVIOUS
  <2>5. Key!Reverse(r) = k
    BY <1>2, <2>3, TwiceReversed
  <2> QED BY <1>12, <2>1, <2>2, <2>3, <2>4, <2>5, Zenon
<1>14. Key!Decode(t) = [i \in 1 .. Keysize |-> IF i \in DOMAIN k THEN k[i] ELSE 0]
  BY <1>1, <1>8, <1>13, Zenon DEF Key!Decode
<1>15. Key!Decode(t) = k
  BY <1>14
<1> QED BY <1>7, <1>10, <1>15, Zenon

(* A text is the key's, and what is decoded is the text's.                 *)
KeyInv ==
  /\ key \in Keys
  /\ Publickey # << >> => Publickey = Key!Encode(key)
  /\ PK # << >> => Publickey # << >> /\ PK = Key!Decode(Key!Fixedsize(Publickey))

(* By the two steps, each of which happens once.                           *)
LEMMA KeyInvariance == Key!Spec => []KeyInv
<1>1. Key!Init => KeyInv
  BY DEF Key!Init, KeyInv
<1>2. KeyInv /\ [Key!Next]_(Key!vars) => KeyInv'
  <2> SUFFICES ASSUME KeyInv, [Key!Next]_(Key!vars) PROVE KeyInv'
    OBVIOUS
  <2>1. CASE Key!Storemessage
    BY <2>1, Zenon DEF KeyInv, Key!Storemessage
  <2>2. CASE Key!Poll
    BY <2>2, Zenon DEF KeyInv, Key!Poll
  <2>3. CASE UNCHANGED Key!vars
    BY <2>3, Zenon DEF KeyInv, Key!vars
  <2> QED BY <2>1, <2>2, <2>3 DEF Key!Next
<1> QED BY <1>1, <1>2, PTL DEF Key!Spec

(* A key whose text is of full length comes out of the database as it went *)
(* in, for any number of bytes that sizes decode to themselves             *)
(* (Base58.hpp:48-170, Synchronization.cpp:37 and 80-89).                  *)
THEOREM KeysSurvive == Key!Spec => []KeySurvives
<1>1. KeyInv => KeySurvives
  <2> SUFFICES ASSUME KeyInv, PK # << >>, Len(Publickey) = Key!Encodesize(Keysize), key[1] # 0 PROVE PK = key
    BY DEF KeySurvives, Key!KeySurvives
  <2>1. key \in [1 .. Keysize -> 0 .. 255]
    BY PartsAssumption DEF KeyInv, Key!Base58Assumption
  <2>2. Publickey = Key!Encode(key) /\ PK = Key!Decode(Key!Fixedsize(Publickey))
    BY DEF KeyInv
  <2> QED BY <2>1, <2>2, EncodingInverted
<1> QED BY <1>1, KeyInvariance, PTL
=============================================================================
