-------------------------- MODULE ConversionsProofs --------------------------
(***************************************************************************)
(* The test of do_str_to_u64_unchecked is exact, for every width of its    *)
(* accumulator that holds a digit: the new number divided by the base is   *)
(* the old number only if nothing wrapped and the digit is below the base. *)
(***************************************************************************)
EXTENDS Conversions, TLAPS

\* The loop has the base that it multiplies with, and has not wrapped.
Inv ==
    /\ base \in {0, 2, 8, 10, 16}
    /\ exact \in Nat /\ valid \in BOOLEAN
    /\ pc = "digits" => base # 0
    /\ pc \in {"sign", "base", "digits", "narrow"} =>
          number = exact /\ valid /\ number < Modulus

\* What wrapping does to a natural number.
LEMMA Wrapped ==
    ASSUME NEW x \in Nat, NEW m \in Nat, m > 0
    PROVE  /\ x % m \in Nat /\ x % m < m
           /\ x < m => x % m = x
           /\ x >= m => x % m <= x - m
  <1>1. x % m \in 0 .. (m - 1)
    OBVIOUS
  <1>2. x < m => x % m = x
    OBVIOUS
  <1>3. x >= m => x % m <= x - m
    OBVIOUS
  <1> QED
    BY <1>1, <1>2, <1>3

LEMMA Quotient ==
    ASSUME NEW x \in Nat, NEW n \in Nat, NEW b \in {2, 8, 10, 16}, x \div b = n
    PROVE  n * b <= x /\ x < n * b + b
  OBVIOUS

\* Every character that is a digit has a value below 16.
LEMMA DigitValues == ASSUME NEW c, IsDigit(c) PROVE Digits[c] \in 0 .. 15
  BY DEF IsDigit, Digits

(***************************************************************************)
(* If the digit passes the test, the sum did not reach Modulus and the     *)
(* digit is below the base.                                                *)
(***************************************************************************)
LEMMA TestIsExact ==
    ASSUME number \in Nat, base \in {2, 8, 10, 16}, NEW d \in 0 .. 15,
           Accumulates(d)
    PROVE  /\ (number * base + d) % Modulus = number * base + d
           /\ number * base + d < Modulus
           /\ d < base
  <1> DEFINE x == number * base + d
             y == x % Modulus
  <1>1. x \in Nat /\ number * base \in Nat
    OBVIOUS
  <1>2. /\ y \in Nat
        /\ x < Modulus => y = x
        /\ x >= Modulus => y <= x - Modulus
    BY <1>1, Wrapped, ModulusAssumption
  <1>3. y \div base = number
    BY DEF Accumulates
  <1> HIDE DEF y
  <1>4. number * base <= y /\ y < number * base + base
    BY <1>2, <1>3, Quotient
  <1>5. x < Modulus
    BY <1>1, <1>2, <1>4, ModulusAssumption
  <1> QED
    BY <1>1, <1>2, <1>4, <1>5 DEF y

LEMMA InitInv == Init => Inv
  BY BasesAssumption, ModulusAssumption DEF Init, Inv

LEMMA StepInv == Inv /\ [Next]_vars => Inv'
  <1> SUFFICES ASSUME Inv, [Next]_vars PROVE Inv'
    OBVIOUS
  <1>1. CASE ConsumeSign
    BY <1>1 DEF ConsumeSign, Fail, Inv
  <1>2. CASE ConsumeBase
    <2>1. WrittenBase(str).base \in {0, 2, 8, 10, 16}
      BY DEF WrittenBase
    <2> QED
      BY <1>2, <2>1 DEF ConsumeBase, Fail, Inv
  <1>3. CASE NextDigit
    <2> DEFINE d == Digits[str[1]]
    <2>1. d \in 0 .. 15
      BY <1>3, DigitValues DEF NextDigit
    <2>2. /\ number \in Nat /\ base \in {2, 8, 10, 16}
          /\ number = exact /\ valid /\ pc = "digits"
      BY <1>3 DEF NextDigit, Inv
    <2>3. exact' \in Nat /\ valid' \in BOOLEAN /\ base' = base
      <3>1. exact' = exact * base + d /\ valid' = (valid /\ d < base) /\ base' = base
        BY <1>3 DEF NextDigit
      <3>2. exact * base + d \in Nat
        BY <2>1, <2>2
      <3>3. (valid /\ d < base) \in BOOLEAN
        OBVIOUS
      <3> QED
        BY <3>1, <3>2, <3>3
    <2>4. CASE Accumulates(d)
      <3>1. /\ (number * base + d) % Modulus = number * base + d
            /\ number * base + d < Modulus
            /\ d < base
        BY <2>1, <2>2, <2>4, TestIsExact
      <3>2. /\ number' = (number * base + d) % Modulus
            /\ exact' = exact * base + d
            /\ valid' = (valid /\ d < base)
            /\ pc' = pc
        BY <1>3, <2>4 DEF NextDigit
      <3> QED
        BY <2>2, <2>3, <3>1, <3>2 DEF Inv
    <2>5. CASE ~Accumulates(d)
      BY <1>3, <2>2, <2>3, <2>5 DEF NextDigit, Fail, Inv
    <2> QED
      BY <2>4, <2>5
  <1>4. CASE BadDigit
    BY <1>4 DEF BadDigit, Fail, Inv
  <1>5. CASE EndOfDigits
    BY <1>5 DEF EndOfDigits, Fail, Inv
  <1>6. CASE ToNarrow
    BY <1>6 DEF ToNarrow, Fail, Inv
  <1>7. CASE UNCHANGED vars
    BY <1>7 DEF vars, Inv
  <1> QED
    BY <1>1, <1>2, <1>3, <1>4, <1>5, <1>6, <1>7 DEF Next

(***************************************************************************)
(* As long as do_str_to_u64_unchecked lets digits through, its accumulator *)
(* is the number that the digits stand for, and the digits are digits of   *)
(* the base; whatever the strings, the width and the bases are.            *)
(***************************************************************************)
THEOREM NothingEverWraps == Spec => []NothingWraps
  <1>1. Inv => NothingWraps
    BY DEF Inv, NothingWraps
  <1> QED
    BY <1>1, InitInv, StepInv, PTL DEF Spec

-----------------------------------------------------------------------------
(***************************************************************************)
(* The sign and the narrowing.                                             *)
(***************************************************************************)

\* Wrapping on both sides of zero.
LEMMA WrappedInt ==
    ASSUME NEW x \in Int, NEW m \in Nat, m > 0
    PROVE  /\ x % m \in 0 .. (m - 1)
           /\ x \in 0 .. (m - 1) => x % m = x
           /\ x \in (-m) .. (-1) => x % m = x + m
  <1>1. x % m \in 0 .. (m - 1)
    OBVIOUS
  <1>2. x \in 0 .. (m - 1) => x % m = x
    OBVIOUS
  <1>3. x \in (-m) .. (-1) => x % m = x + m
    OBVIOUS
  <1> QED
    BY <1>1, <1>2, <1>3

\* A number reads as itself in a signed type if, and only if, the type has it.
LEMMA SignedRange ==
    ASSUME NEW x \in Int, NEW w \in Nat, w > 0, w % 2 = 0
    PROVE  /\ AsSigned(x, w) \in (-(w \div 2)) .. (w \div 2 - 1)
           /\ x \in (-(w \div 2)) .. (w \div 2 - 1) => AsSigned(x, w) = x
  <1> DEFINE h == w \div 2
             y == x % w
  <1>1. h \in Nat /\ w = h + h
    OBVIOUS
  <1>2. /\ y \in 0 .. (w - 1)
        /\ x \in 0 .. (w - 1) => y = x
        /\ x \in (-w) .. (-1) => y = x + w
    BY WrappedInt
  <1>3. AsSigned(x, w) = IF y >= h THEN y - w ELSE y
    BY DEF AsSigned
  <1> HIDE DEF h, y
  <1>4. AsSigned(x, w) \in (-h) .. (h - 1)
    BY <1>1, <1>2, <1>3
  <1>5. x \in (-h) .. (h - 1) => AsSigned(x, w) = x
    BY <1>1, <1>2, <1>3
  <1> QED
    BY <1>4, <1>5 DEF h

\* The range checks of str_to_i64_with_base refuse what 64 bits cannot hold, and
\* what passes them is the number with its sign.
LEMMA SignChecks ==
    ASSUME number \in Nat, number < Modulus, signed
    PROVE  LET n == IF negative THEN -number ELSE number
           IN  /\ OutOfRange => n \notin (-(Modulus \div 2)) .. (Modulus \div 2 - 1)
               /\ ~OutOfRange => n \in (-(Modulus \div 2)) .. (Modulus \div 2 - 1)
               /\ ~OutOfRange =>
                     n = IF negative THEN AsSigned(0 - number, Modulus)
                                     ELSE AsSigned(number, Modulus)
  <1> DEFINE h == Modulus \div 2
             x == 0 - number
             y == x % Modulus
  <1>1. h \in Nat /\ Modulus = h + h /\ Modulus \in Nat /\ Modulus > 16
    BY ModulusAssumption
  <1>2. x \in Int /\ x = -number /\ (x = 0 \/ x \in (-Modulus) .. (-1))
    BY <1>1
  <1>3. /\ x = 0 => y = 0
        /\ x \in (-Modulus) .. (-1) => y = x + Modulus
    BY <1>1, <1>2, WrappedInt
  <1>4. AsSigned(x, Modulus) = IF y >= h THEN y - Modulus ELSE y
    BY DEF AsSigned
  <1>5. number \in (-h) .. (h - 1) => AsSigned(number, Modulus) = number
    BY <1>1, SignedRange, ModulusAssumption
  <1>6. OutOfRange <=> IF negative THEN AsSigned(x, Modulus) > 0 ELSE number > h - 1
    BY DEF OutOfRange
  <1> HIDE DEF h, x, y
  <1>7. CASE negative
    BY <1>1, <1>2, <1>3, <1>4, <1>6, <1>7 DEF h, x
  <1>8. CASE ~negative
    <2>1. OutOfRange <=> number > h - 1
      BY <1>6, <1>8
    <2>2. number > h - 1 <=> number \notin (-h) .. (h - 1)
      BY <1>1
    <2> QED
      BY <1>5, <1>8, <2>1, <2>2 DEF h
  <1> QED
    BY <1>7, <1>8

\* The other half of TestIsExact: a digit of the base is refused only if the
\* number has no room.
LEMMA TestIsComplete ==
    ASSUME number \in Nat, base \in {2, 8, 10, 16}, NEW d \in 0 .. 15, d < base,
           ~Accumulates(d)
    PROVE  number * base + d >= Modulus
  <1> DEFINE x == number * base + d
  <1>1. x \in Nat
    OBVIOUS
  <1>2. x \div base = number
    <2>1. CASE base = 2
      BY <2>1
    <2>2. CASE base = 8
      BY <2>2
    <2>3. CASE base = 10
      BY <2>3
    <2>4. CASE base = 16
      BY <2>4
    <2> QED
      BY <2>1, <2>2, <2>3, <2>4
  <1>3. x < Modulus => x % Modulus = x
    BY <1>1, Wrapped, ModulusAssumption
  <1> HIDE DEF x
  <1>4. ~(x < Modulus)
    BY <1>2, <1>3 DEF Accumulates, x
  <1> QED
    BY <1>1, <1>4, ModulusAssumption DEF x

\* What the types of the results can hold at most.
LEMMA WidthFacts ==
    ASSUME width \in Widths
    PROVE  /\ width \in Nat /\ width > 0 /\ width % 2 = 0
           /\ width \div 2 \in Nat /\ width \div 2 <= Modulus \div 2
           /\ width <= Modulus /\ Modulus \in Nat
           /\ width = width \div 2 + width \div 2
  BY ModulusAssumption

\* A number that has no room in 64 bits has none in the result.
LEMMA TooLarge ==
    ASSUME width \in Widths, signed \in BOOLEAN, NEW n \in Nat, n >= Modulus
    PROVE  ~Fits(n) /\ ~Fits(-n)
  <1> DEFINE h == width \div 2
  <1>1. width \in Nat /\ h \in Nat /\ width <= Modulus /\ width = h + h /\ width > 0 /\ Modulus \in Nat
    BY WidthFacts
  <1> HIDE DEF h
  <1>2. n \notin (-h) .. (h - 1) /\ -n \notin (-h) .. (h - 1)
    BY <1>1
  <1>3. n \notin 0 .. (width - 1) /\ -n \notin 0 .. (width - 1)
    BY <1>1
  <1> QED
    BY <1>2, <1>3 DEF Fits, h

\* The comparison behind a narrowing is exact.
LEMMA NarrowIsExact ==
    ASSUME width \in Widths, NEW n \in Int
    PROVE  Narrowed(n) = n <=> Fits(n)
  <1>1. width \in Nat /\ width > 0 /\ width % 2 = 0
    BY WidthFacts
  <1>2. CASE signed
    BY <1>1, <1>2, SignedRange DEF Narrowed, Fits
  <1>3. CASE ~signed
    BY <1>1, <1>3, WrappedInt DEF Narrowed, Fits
  <1> QED
    BY <1>2, <1>3

\* Until the result is known there is no error; then it is what was meant.
ResultInv ==
    /\ Inv
    /\ signed \in BOOLEAN /\ width \in Widths /\ negative \in BOOLEAN
    /\ negative => signed
    /\ pc \in {"sign", "base", "digits", "narrow"} => ret = "EOK"
    /\ pc = "sign" => ~negative
    /\ pc = "narrow" => res = Meant
    /\ ResultIsMeant

LEMMA InitResultInv == Init => ResultInv
  <1> SUFFICES ASSUME Init PROVE ResultInv
    OBVIOUS
  <1>1. Inv
    BY InitInv
  <1> QED
    BY <1>1 DEF Init, ResultInv, ResultIsMeant

LEMMA NextResultInv == ResultInv /\ [Next]_vars => ResultInv'
  <1> SUFFICES ASSUME ResultInv, [Next]_vars PROVE ResultInv'
    OBVIOUS
  <1>1. Inv /\ Inv'
    BY StepInv DEF ResultInv
  <1>2. /\ signed \in BOOLEAN /\ width \in Widths /\ negative \in BOOLEAN
        /\ negative => signed
        /\ pc \in {"sign", "base", "digits", "narrow"} => ret = "EOK"
        /\ pc = "sign" => ~negative
        /\ pc = "narrow" => res = Meant
        /\ ResultIsMeant
    BY DEF ResultInv
  <1>3. CASE ConsumeSign
    <2>1. /\ pc = "sign" /\ signed' = signed /\ width' = width
          /\ \/ signed /\ negative' \in BOOLEAN /\ pc' = "base" /\ ret' = ret
             \/ negative' = negative /\ pc' = "base" /\ ret' = ret
             \/ negative' = negative /\ pc' = "done" /\ ret' = "EINVAL"
      BY <1>3 DEF ConsumeSign, Fail, StartsWith
    <2>2. ResultIsMeant'
      BY <1>2, <2>1 DEF ResultIsMeant
    <2> QED
      BY <1>1, <1>2, <2>1, <2>2 DEF ResultInv
  <1>4. CASE ConsumeBase
    <2>1. /\ pc = "base" /\ signed' = signed /\ width' = width /\ negative' = negative
          /\ \/ pc' = "digits" /\ ret' = ret
             \/ pc' = "done" /\ ret' = "EINVAL"
      BY <1>4 DEF ConsumeBase, Fail
    <2>2. ResultIsMeant'
      BY <1>2, <2>1 DEF ResultIsMeant
    <2> QED
      BY <1>1, <1>2, <2>1, <2>2 DEF ResultInv
  <1>5. CASE NextDigit
    <2> DEFINE d == Digits[str[1]]
    <2>1. /\ pc = "digits" /\ signed' = signed /\ width' = width /\ negative' = negative
          /\ exact' = exact * base + d /\ valid' = (valid /\ d < base)
          /\ d \in 0 .. 15
      BY <1>5, DigitValues DEF NextDigit
    <2>2. number \in Nat /\ base \in {2, 8, 10, 16} /\ number = exact /\ valid
      BY <1>1, <2>1 DEF Inv
    <2>3. CASE Accumulates(d)
      <3>1. pc' = pc /\ ret' = ret
        BY <1>5, <2>3 DEF NextDigit
      <3>2. ResultIsMeant'
        BY <2>1, <3>1 DEF ResultIsMeant
      <3> QED
        BY <1>1, <1>2, <2>1, <3>1, <3>2 DEF ResultInv
    <2>4. CASE ~Accumulates(d)
      <3>1. pc' = "done" /\ ret' = "ERANGE"
        BY <1>5, <2>4 DEF NextDigit, Fail
      <3>2. d < base => exact' \in Nat /\ exact' >= Modulus
        BY <1>1, <2>1, <2>2, <2>4, TestIsComplete DEF Inv
      <3>3. d < base => ~Fits(exact') /\ ~Fits(-exact')
        BY <1>2, <3>2, TooLarge
      <3>4. ~valid' \/ ~Fits(Meant)'
        BY <2>1, <3>3 DEF Meant, Fits
      <3>5. ResultIsMeant'
        BY <3>1, <3>4 DEF ResultIsMeant
      <3> QED
        BY <1>1, <1>2, <2>1, <3>1, <3>5 DEF ResultInv
    <2> QED
      BY <2>3, <2>4
  <1>6. CASE BadDigit
    <2>1. /\ signed' = signed /\ width' = width /\ negative' = negative
          /\ pc' = "done" /\ ret' = "EINVAL"
      BY <1>6 DEF BadDigit, Fail
    <2>2. ResultIsMeant'
      BY <2>1 DEF ResultIsMeant
    <2> QED
      BY <1>1, <1>2, <2>1, <2>2 DEF ResultInv
  <1>7. CASE EndOfDigits
    <2> DEFINE M == Modulus \div 2
    <2>1. /\ pc = "digits" /\ signed' = signed /\ width' = width /\ negative' = negative
          /\ exact' = exact /\ valid' = valid
      BY <1>7 DEF EndOfDigits
    <2>2. number \in Nat /\ number = exact /\ valid /\ number < Modulus
      BY <1>1, <2>1 DEF Inv
    <2>3. Meant = (IF negative THEN -number ELSE number) /\ Meant' = Meant
      BY <2>1, <2>2 DEF Meant
    <2>4. CASE OutOfRange
      <3>1. pc' = "done" /\ ret' = "ERANGE"
        BY <1>7, <2>4 DEF EndOfDigits, Fail
      <3>2. signed
        BY <1>2, <2>4 DEF OutOfRange
      <3>3. Meant \notin (-M) .. (M - 1)
        BY <2>2, <2>3, <2>4, <3>2, SignChecks
      <3>4. ~Fits(Meant)
        <4>1. width \div 2 \in Nat /\ width \div 2 <= M /\ M \in Nat
          BY <1>2, WidthFacts, ModulusAssumption
        <4> HIDE DEF M
        <4>2. Meant \notin (-(width \div 2)) .. (width \div 2 - 1)
          BY <2>2, <2>3, <3>3, <4>1
        <4> QED
          BY <3>2, <4>2 DEF Fits
      <3>5. Fits(Meant)' = Fits(Meant)
        BY <2>1, <2>3 DEF Fits
      <3>6. ResultIsMeant'
        BY <3>1, <3>4, <3>5 DEF ResultIsMeant
      <3> QED
        BY <1>1, <1>2, <2>1, <3>1, <3>6 DEF ResultInv
    <2>5. CASE ~OutOfRange
      <3>1. /\ pc' = "narrow" /\ ret' = ret
            /\ res' = IF negative THEN AsSigned(0 - number, Modulus)
                      ELSE IF signed THEN AsSigned(number, Modulus) ELSE number
        BY <1>7, <2>5 DEF EndOfDigits
      <3>2. res' = Meant
        <4>1. CASE signed
          BY <2>2, <2>3, <2>5, <3>1, <4>1, SignChecks
        <4>2. CASE ~signed
          BY <1>2, <2>3, <3>1, <4>2
        <4> QED
          BY <4>1, <4>2
      <3>3. ResultIsMeant'
        BY <3>1 DEF ResultIsMeant
      <3> QED
        BY <1>1, <1>2, <2>1, <2>3, <3>1, <3>2, <3>3 DEF ResultInv
    <2> QED
      BY <2>4, <2>5
  <1>8. CASE ToNarrow
    <2>1. /\ pc = "narrow" /\ signed' = signed /\ width' = width /\ negative' = negative
          /\ exact' = exact /\ valid' = valid /\ pc' = "done"
      BY <1>8 DEF ToNarrow, Fail
    <2>2. exact \in Nat /\ valid /\ res = Meant /\ ret = "EOK"
      BY <1>1, <1>2, <2>1 DEF Inv
    <2>3. Meant' = Meant /\ res \in Int
      BY <2>1, <2>2 DEF Meant
    <2>4. Narrowed(res) = res <=> Fits(res)
      BY <1>2, <2>3, NarrowIsExact
    <2>5. \A n : Fits(n)' = Fits(n)
      BY <2>1 DEF Fits
    <2>6. \/ Narrowed(res) # res /\ ret' = "ERANGE"
          \/ Narrowed(res) = res /\ res' = res /\ ret' = ret
      BY <1>8 DEF ToNarrow, Fail
    <2>7. ResultIsMeant'
      <3>1. CASE Narrowed(res) # res /\ ret' = "ERANGE"
        <4>1. ~Fits(Meant)'
          BY <2>1, <2>2, <2>3, <2>4, <3>1 DEF Fits
        <4> QED
          BY <3>1, <4>1 DEF ResultIsMeant
      <3>2. CASE Narrowed(res) = res /\ res' = res /\ ret' = ret
        <4>1. Fits(res)'
          BY <2>1, <2>4, <3>2 DEF Fits
        <4> QED
          BY <2>1, <2>2, <2>3, <3>2, <4>1 DEF ResultIsMeant
      <3> QED
        BY <2>6, <3>1, <3>2
    <2> QED
      BY <1>1, <1>2, <2>1, <2>7 DEF ResultInv
  <1>9. CASE UNCHANGED vars
    BY <1>1, <1>2, <1>9 DEF vars, ResultInv, ResultIsMeant, Meant, Fits
  <1> QED
    BY <1>3, <1>4, <1>5, <1>6, <1>7, <1>8, <1>9 DEF Next

(***************************************************************************)
(* For every string, sign, base and width of the result: a conversion that *)
(* returns EOK returns the number that was written, which the type holds,  *)
(* and ERANGE is returned only for a digit that the base does not have or  *)
(* a number that the type does not hold.                                   *)
(***************************************************************************)
THEOREM ConversionsAreExact == Spec => []ResultIsMeant
  <1>1. ResultInv => ResultIsMeant
    BY DEF ResultInv
  <1> QED
    BY <1>1, InitResultInv, NextResultInv, PTL DEF Spec
=============================================================================
