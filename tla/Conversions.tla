----------------------------- MODULE Conversions -----------------------------
(***************************************************************************)
(* Strings to integers, kernel/common/conversions.c: the sign, the base,   *)
(* the loop over the digits with its test for overflow, and the narrowing  *)
(* to the type that the caller wants.  Modulus is 2^64 in the code; its    *)
(* arithmetic wraps at it here as there.                                   *)
(***************************************************************************)
EXTENDS Integers, Sequences

CONSTANTS
    Strings,        \* the strings that are converted, as sequences of characters
    Modulus,        \* 2^64: the width of number and next
    Widths,         \* 2^8, 2^16, 2^32 and 2^64: the widths of the results
    Bases           \* the bases callers name: 0 (as written) and 10

ASSUME ModulusAssumption ==
    /\ Modulus \in Nat /\ Modulus > 16 /\ Modulus % 2 = 0
    /\ \A w \in Widths : w \in 1 .. Modulus /\ w % 2 = 0

ASSUME BasesAssumption == Bases \subseteq {0, 2, 8, 10, 16}

\* The value of a character as a digit, in any base; -1 for the others.
Digits == [c \in {"0", "1", "2", "3", "4", "5", "6", "7", "8", "9",
                  "a", "b", "c", "d", "e", "f"} |->
    CASE c = "0" -> 0  [] c = "1" -> 1  [] c = "2" -> 2  [] c = "3" -> 3
      [] c = "4" -> 4  [] c = "5" -> 5  [] c = "6" -> 6  [] c = "7" -> 7
      [] c = "8" -> 8  [] c = "9" -> 9  [] c = "a" -> 10 [] c = "b" -> 11
      [] c = "c" -> 12 [] c = "d" -> 13 [] c = "e" -> 14 [] c = "f" -> 15]

IsDigit(c) == c \in DOMAIN Digits

VARIABLES
    str,            \* the string that is left
    signed, width,  \* the caller's type
    base,           \* the caller's base; 0 until it is known
    negative,       \* whether a minus sign was consumed
    number,         \* the accumulator of do_str_to_u64_unchecked
    pc,             \* "sign", "base", "digits", "narrow", "done"
    ret,            \* "EOK", "EINVAL", "ERANGE"
    res,            \* the result, when ret is EOK
    exact,          \* history: the value of the digits, not wrapped
    valid           \* history: every digit was below the base

vars == <<str, signed, width, base, negative, number, pc, ret, res, exact, valid>>

StartsWith(s, prefix) ==
    Len(prefix) <= Len(s) /\ \A i \in DOMAIN prefix : s[i] = prefix[i]

OffsetBy(s, n) == SubSeq(s, n + 1, Len(s))

Init ==
    /\ str \in Strings
    /\ signed \in BOOLEAN /\ width \in Widths
    /\ base \in Bases
    /\ negative = FALSE
    /\ number = 0
    /\ pc = "sign"
    /\ ret = "EOK"
    /\ res = 0
    /\ exact = 0
    /\ valid = TRUE

Fail(error) == pc' = "done" /\ ret' = error

(***************************************************************************)
(* str_to_i64_with_base and str_to_u64_with_base up to their do_str_to_u64.*)
(* Only the unsigned one looks for a minus sign behind a plus sign.        *)
(***************************************************************************)
ConsumeSign ==
    /\ pc = "sign"
    /\ LET plus  == StartsWith(str, <<"+">>)
           minus == StartsWith(str, <<"-">>)
           rest  == IF plus THEN OffsetBy(str, 1) ELSE str
       IN  \/ /\ signed
              /\ negative' = minus
              /\ str' = IF minus THEN OffsetBy(str, 1) ELSE rest
              /\ pc' = "base" /\ UNCHANGED ret
           \/ /\ ~signed /\ ~StartsWith(rest, <<"-">>)
              /\ str' = rest
              /\ pc' = "base" /\ UNCHANGED <<negative, ret>>
           \/ /\ ~signed /\ StartsWith(rest, <<"-">>)
              /\ str' = rest
              /\ Fail("EINVAL") /\ UNCHANGED negative
    /\ UNCHANGED <<signed, width, base, number, res, exact, valid>>

\* The base that a string is written in, 0 if it does not say, and the length
\* of the prefix that says so.
WrittenBase(s) ==
    IF StartsWith(s, <<"0", "x">>) THEN [base |-> 16, prefix |-> 2]
    ELSE IF StartsWith(s, <<"0", "b">>) THEN [base |-> 2, prefix |-> 2]
    ELSE IF StartsWith(s, <<"0">>) THEN [base |-> 8, prefix |-> 1]
    ELSE IF Len(s) > 0 /\ IsDigit(s[1]) /\ Digits[s[1]] <= 9
    THEN [base |-> 10, prefix |-> 0]
    ELSE [base |-> 0, prefix |-> 0]

\* consume_base: the prefix goes even when the caller names the base.
ConsumeBase ==
    /\ pc = "base"
    /\ LET w == WrittenBase(str)
       IN  /\ str' = OffsetBy(str, w.prefix)
           /\ base' = IF base = 0 THEN w.base ELSE base
           /\ IF base' = 0 THEN Fail("EINVAL")
                           ELSE pc' = "digits" /\ UNCHANGED ret
    /\ UNCHANGED <<signed, width, negative, number, res, exact, valid>>

\* Mutant: the sum is compared with what it was before.
Accumulates_if_larger(d) ==
    (number * base + d) % Modulus >= number

(***************************************************************************)
(* The test of do_str_to_u64_unchecked: dividing the new number by the     *)
(* base gives back the old one.                                            *)
(***************************************************************************)
Accumulates(d) ==
    ((number * base + d) % Modulus) \div base = number

NextDigit ==
    /\ pc = "digits" /\ str # <<>>
    /\ IsDigit(str[1])
    /\ LET d == Digits[str[1]]
       IN  /\ exact' = exact * base + d
           /\ valid' = (valid /\ d < base)
           /\ IF Accumulates(d)
              THEN /\ number' = (number * base + d) % Modulus
                   /\ UNCHANGED <<pc, ret>>
              ELSE Fail("ERANGE") /\ UNCHANGED number
    /\ str' = OffsetBy(str, 1)
    /\ UNCHANGED <<signed, width, base, negative, res>>

BadDigit ==
    /\ pc = "digits" /\ str # <<>>
    /\ ~IsDigit(str[1])
    /\ str' = OffsetBy(str, 1)
    /\ Fail("EINVAL")
    /\ UNCHANGED <<signed, width, base, negative, number, res, exact, valid>>

\* n as a signed integer of the width that wraps at w.
AsSigned(n, w) == IF n % w >= w \div 2 THEN (n % w) - w ELSE n % w

\* Mutant: the most negative number has no room.
OutOfRange_symmetric ==
    IF negative THEN number > Modulus \div 2 - 1
    ELSE signed /\ number > Modulus \div 2 - 1

\* The range checks at the end of str_to_i64_with_base.
OutOfRange ==
    IF negative THEN AsSigned(0 - number, Modulus) > 0
    ELSE signed /\ number > Modulus \div 2 - 1

\* The digits are used up; what is left is the sign.
EndOfDigits ==
    /\ pc = "digits" /\ str = <<>>
    /\ IF OutOfRange
       THEN Fail("ERANGE") /\ UNCHANGED res
       ELSE /\ pc' = "narrow"
            /\ res' = IF negative THEN AsSigned(0 - number, Modulus)
                      ELSE IF signed THEN AsSigned(number, Modulus) ELSE number
            /\ UNCHANGED ret
    /\ UNCHANGED <<str, signed, width, base, negative, number, exact, valid>>

\* The conversion to the narrow type, which must not change the number.
Narrowed(n) == IF signed THEN AsSigned(n, width) ELSE n % width

ToNarrow ==
    /\ pc = "narrow"
    /\ IF Narrowed(res) # res THEN Fail("ERANGE") /\ UNCHANGED res
       ELSE pc' = "done" /\ res' = Narrowed(res) /\ UNCHANGED ret
    /\ UNCHANGED <<str, signed, width, base, negative, number, exact, valid>>

Next ==
    \/ ConsumeSign \/ ConsumeBase \/ NextDigit \/ BadDigit \/ EndOfDigits
    \/ ToNarrow

Spec == Init /\ [][Next]_vars

-----------------------------------------------------------------------------
\* The variables hold values of their types.
TypeOK ==
    /\ str \in Seq(STRING)
    /\ signed \in BOOLEAN /\ width \in Widths /\ negative \in BOOLEAN /\ valid \in BOOLEAN
    /\ base \in {0, 2, 8, 10, 16}
    /\ number \in 0 .. (Modulus - 1)
    /\ pc \in {"sign", "base", "digits", "narrow", "done"}
    /\ ret \in {"EOK", "EINVAL", "ERANGE"}
    /\ res \in (-(Modulus \div 2)) .. (Modulus - 1) /\ exact \in Nat

(***************************************************************************)
(* The division in do_str_to_u64_unchecked catches every overflow, and     *)
(* every digit that is too large for the base as well: as long as it lets  *)
(* digits through, nothing has wrapped.                                    *)
(***************************************************************************)
NothingWraps == pc \in {"digits", "narrow"} => number = exact /\ valid

\* The value that the string stands for, and the values the type can hold.
Meant == IF negative THEN -exact ELSE exact

Fits(n) == IF signed THEN n \in (-(width \div 2)) .. (width \div 2 - 1)
                     ELSE n \in 0 .. (width - 1)

(***************************************************************************)
(* A conversion that succeeds returns the number the string stands for,    *)
(* and ERANGE is an error of the string: it has a digit that the base does *)
(* not have, or the type cannot hold its number.                           *)
(***************************************************************************)
ResultIsMeant ==
    pc = "done" => /\ ret = "EOK" => valid /\ res = Meant /\ Fits(res)
                   /\ ret = "ERANGE" => ~valid \/ ~Fits(Meant)

=============================================================================
