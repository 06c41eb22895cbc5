-------------------------------- MODULE Format --------------------------------
(***************************************************************************)
(* vsnprintf, kernel/common/format.c, and what its callers make of the     *)
(* result: vprint of kernel/log.c, which formats into the static log_buf   *)
(* and writes it to the consoles, and the param_get_<type> functions of    *)
(* kernel/param.c, which format into the string of their caller.  The      *)
(* arguments are taken from small sets when va_arg asks for them: a call   *)
(* has the arguments that its format names.                                *)
(***************************************************************************)
EXTENDS Integers, SequencesExt

CONSTANTS
    Messages,       \* the formats given to vprint, as sequences of characters
    ParamFormats,   \* the formats of param_get_<type>
    LogSize,        \* sizeof(log_buf)
    ParamSizes,     \* the sizes of the strings given to param_get_<type>
    Modulus,        \* 2^64: the width of value, min_width and precision
    Size,           \* 2^8, 2^16 ...: the width that each length names
    Numbers,        \* the integers given as arguments
    Texts,          \* the strings given as arguments
    NULL,           \* the null pointer, in the place of a string
    PointerWidth,   \* ULTRA_ARCH_WIDTH * 2
    Warning,        \* what WARN_ON prints
    MaxWritten      \* bound: characters written before a hang is called one

ASSUME FormatAssumption ==
    /\ LogSize \in Nat \ {0} /\ ParamSizes \subseteq Nat
    /\ Modulus \in Nat \ {0} /\ Modulus % 2 = 0
    /\ <<>> \in DOMAIN Size
    /\ \A l \in DOMAIN Size : Size[l] \in 1 .. Modulus /\ Size[l] % 2 = 0

ASSUME ArgumentsAssumption ==
    /\ Numbers \subseteq Int /\ PointerWidth \in Nat
    /\ \A s \in Messages \cup ParamFormats \cup DOMAIN Size \cup (Texts \ {NULL})
                \cup {Warning} : s \in Seq(STRING)

LOG_LEVEL_PREFIX_CHAR == "SOH"
NUL == "NUL"

LowerHex == <<"0", "1", "2", "3", "4", "5", "6", "7", "8", "9",
              "a", "b", "c", "d", "e", "f">>
UpperHex == <<"0", "1", "2", "3", "4", "5", "6", "7", "8", "9",
              "A", "B", "C", "D", "E", "F">>
DecimalDigits == {LowerHex[i] : i \in 1 .. 10}

VARIABLES
    caller,     \* "vprint" or "param_get"
    fmt,        \* the format that is left
    fb,         \* struct fmt_buf_state; all is history: the output, not cut
    fm,         \* struct fmt_spec of the conversion that is read
    pc,
    ret,        \* "EOK", "EINVAL" or "ERANGE"
    got,        \* the characters that the caller uses in the end
    input,      \* history: the format as vsnprintf gets it
    shown,      \* history: the last argument, what it stands for and its text
    warned      \* history: a WARN_ON has printed in the meantime

vars == <<caller, fmt, fb, fm, pc, ret, got, input, shown, warned>>

OffsetBy(s, n) == SubSeq(s, n + 1, Len(s))

\* What consume and consume_one_of look at; no character is "".
First(s) == IF s = <<>> THEN "" ELSE s[1]

\* The number of characters at the start of s that are in set.
Span(s, set) ==
    CHOOSE n \in 0 .. Len(s) :
        /\ \A i \in 1 .. n : s[i] \in set
        /\ n = Len(s) \/ s[n + 1] \notin set

\* n as a signed integer of the width that wraps at w.
AsSigned(n, w) == IF n % w >= w \div 2 THEN (n % w) - w ELSE n % w

NoSpec == [prepend_char |-> "", left_justify |-> FALSE, pad_char |-> " ",
           alternate_form |-> FALSE, has_precision |-> FALSE,
           min_width |-> 0, precision |-> 0]

Nothing == [kind |-> "nothing", meant |-> 0, base |-> 10, text |-> <<>>]

Init ==
    /\ \/ /\ caller = "vprint" /\ fmt \in Messages
          /\ fb = [buffer |-> [i \in 0 .. LogSize - 1 |-> "old"],
                   capacity |-> LogSize, bytes_written |-> 0, all |-> <<>>]
          /\ pc = "level"
       \/ /\ caller = "param_get" /\ fmt \in ParamFormats
          /\ \E size \in ParamSizes :
                fb = [buffer |-> [i \in 0 .. size - 1 |-> "old"],
                      capacity |-> size, bytes_written |-> 0, all |-> <<>>]
          /\ pc = "text"
    /\ fm = NoSpec
    /\ ret = "EOK"
    /\ got = <<>>
    /\ input = fmt
    /\ shown = Nothing
    /\ warned = FALSE

-----------------------------------------------------------------------------
(***************************************************************************)
(* Writing.  Each operator gives the state of the buffer after the call.   *)
(* Nothing but the tests of the code keeps a character inside the buffer.  *)
(***************************************************************************)
Stored(buffer, at, s) ==
    [i \in DOMAIN buffer \cup at .. (at + Len(s) - 1) |->
        IF i \in at .. (at + Len(s) - 1) THEN s[i - at + 1] ELSE buffer[i]]

\* A loop of write_one, one call for each character of s, each with its test.
write_each(b, s) ==
    LET inside == {i \in DOMAIN s : b.bytes_written + i - 1 < b.capacity}
    IN  [b EXCEPT !.buffer = Stored(@, b.bytes_written,
                                    SubSeq(s, 1, Cardinality(inside))),
                  !.bytes_written = @ + Len(s),
                  !.all = @ \o s]

write_one(b, c) == write_each(b, <<c>>)

\* Mutant: a string that starts inside the buffer is copied as a whole.
write_many_whole(b, s) ==
    [b EXCEPT !.buffer = IF b.bytes_written < b.capacity
                         THEN Stored(@, b.bytes_written, s) ELSE @,
              !.bytes_written = @ + Len(s),
              !.all = @ \o s]

write_many(b, s) ==
    LET count == Min({Len(s), b.capacity - b.bytes_written})
    IN  [b EXCEPT !.buffer = IF b.bytes_written < b.capacity
                             THEN Stored(@, b.bytes_written, SubSeq(s, 1, count))
                             ELSE @,
                  !.bytes_written = @ + Len(s),
                  !.all = @ \o s]

Repeat(c, n) == [i \in 1 .. Max({n, 0}) |-> c]

\* Mutant: the padding on the right is the one on the left.
write_padding_same(b, spec, repr_size) ==
    write_each(b, Repeat(spec.pad_char, spec.min_width - repr_size))

write_padding(b, spec, repr_size) ==
    write_each(b, Repeat(IF spec.left_justify THEN " " ELSE spec.pad_char,
                         spec.min_width - repr_size))

\* The digits of value, at least one.
Repr(value, base, uppercase) ==
    LET hex_char(d) == (IF uppercase THEN UpperHex ELSE LowerHex)[d + 1]
        digits[n \in 0 .. value] ==
            IF n = 0 THEN <<>>
            ELSE Append(digits[n \div base], hex_char(n % base))
    IN  IF value = 0 THEN <<"0">> ELSE digits[value]

AlternatePrefix(base, uppercase) ==
    CASE base = 16 -> <<"0", IF uppercase THEN "X" ELSE "x">>
      [] base = 8  -> <<"0">>
      [] OTHER     -> <<>>

write_integer(b, spec, value, is_signed, base, uppercase) ==
    LET negative  == is_signed /\ AsSigned(value, Modulus) < 0
        magnitude == IF negative THEN -AsSigned(value, Modulus) ELSE value
        repr == (IF spec.alternate_form THEN AlternatePrefix(base, uppercase) ELSE <<>>)
                \o Repr(magnitude, base, uppercase)
        signed == IF negative THEN write_one(b, "-")
                  ELSE IF spec.prepend_char # "" THEN write_one(b, spec.prepend_char)
                  ELSE b
    IN  IF spec.left_justify
        THEN write_padding(write_many(signed, repr), spec, Len(repr))
        ELSE write_many(write_padding(signed, spec, Len(repr)), repr)

\* The end of vsnprintf.
Terminated(b) ==
    IF b.capacity = 0 THEN b
    ELSE [b EXCEPT !.buffer = Stored(@, Min({b.bytes_written, b.capacity - 1}), <<NUL>>)]

-----------------------------------------------------------------------------
\* Mutant: the flag that was found stays where it is.
ConsumeFlag_stays ==
    /\ pc = "flags" /\ First(fmt) \in {"+", " ", "-", "0", "#"}
    /\ fm' = [fm EXCEPT !.left_justify = TRUE]
    /\ UNCHANGED <<caller, fmt, fb, pc, ret, got, input, shown, warned>>

\* extract_msg_level: two characters, unless the message ends behind the first.
ExtractLevel ==
    /\ pc = "level"
    /\ fmt' = IF First(fmt) # LOG_LEVEL_PREFIX_CHAR THEN fmt ELSE OffsetBy(fmt, 2)
    /\ input' = fmt'
    /\ pc' = "text"
    /\ UNCHANGED <<caller, fb, fm, ret, got, shown, warned>>

(***************************************************************************)
(* The head of the loop: the text up to the next percent sign, and that    *)
(* sign, which stands for itself if it is doubled.                         *)
(***************************************************************************)
WriteText ==
    /\ pc = "text" /\ fmt # <<>>
    /\ LET n    == CHOOSE k \in 0 .. Len(fmt) :
                      /\ \A i \in 1 .. k : fmt[i] # "%"
                      /\ k = Len(fmt) \/ fmt[k + 1] = "%"
           text == write_many(fb, SubSeq(fmt, 1, n))
           rest == OffsetBy(fmt, n)
       IN  \/ /\ rest = <<>>
              /\ fb' = text /\ fmt' = rest /\ UNCHANGED <<fm, pc>>
           \/ /\ IsPrefix(<<"%", "%">>, rest)
              /\ fb' = write_one(text, "%") /\ fmt' = OffsetBy(rest, 2)
              /\ UNCHANGED <<fm, pc>>
           \/ /\ rest # <<>> /\ ~IsPrefix(<<"%", "%">>, rest)
              /\ fb' = text /\ fmt' = OffsetBy(rest, 1)
              /\ fm' = NoSpec /\ pc' = "flags"
    /\ UNCHANGED <<caller, ret, got, input, shown, warned>>

Flags == {"+", " ", "-", "0", "#"}

ConsumeFlag ==
    /\ pc = "flags" /\ First(fmt) \in Flags
    /\ fm' = CASE fmt[1] \in {"+", " "} -> [fm EXCEPT !.prepend_char = fmt[1]]
               [] fmt[1] = "-" -> [fm EXCEPT !.left_justify = TRUE]
               [] fmt[1] = "0" -> [fm EXCEPT !.pad_char = "0"]
               [] fmt[1] = "#" -> [fm EXCEPT !.alternate_form = TRUE]
    /\ fmt' = OffsetBy(fmt, 1)
    /\ UNCHANGED <<caller, fb, pc, ret, got, input, shown, warned>>

DigitValue(c) == (CHOOSE i \in DOMAIN LowerHex : LowerHex[i] = c) - 1

NumberOf(s) ==
    LET number[i \in 0 .. Len(s)] ==
            IF i = 0 THEN 0 ELSE 10 * number[i - 1] + DigitValue(s[i])
    IN  number[Len(s)]

\* parse_number: the digits at the start of s, and 0 where there are none.
Digits(s) == SubSeq(s, 1, Span(s, DecimalDigits))

Fail(error) == pc' = "done" /\ ret' = error /\ UNCHANGED fmt

ParseWidth ==
    /\ pc = "flags" /\ First(fmt) \notin Flags
    /\ LET digits == Digits(fmt)
       IN  \/ /\ First(fmt) = "*"
              /\ \E n \in Numbers : fm' = [fm EXCEPT !.min_width = n % Modulus]
              /\ fmt' = OffsetBy(fmt, 1)
              /\ pc' = "precision" /\ UNCHANGED ret
           \/ /\ First(fmt) # "*" /\ NumberOf(digits) < Modulus
              /\ fm' = [fm EXCEPT !.min_width = NumberOf(digits)]
              /\ fmt' = OffsetBy(fmt, Len(digits))
              /\ pc' = "precision" /\ UNCHANGED ret
           \/ /\ First(fmt) # "*" /\ NumberOf(digits) >= Modulus
              /\ Fail("ERANGE") /\ UNCHANGED fm
    /\ UNCHANGED <<caller, fb, got, input, shown, warned>>

\* Mutant: a point needs no number behind it.
ParsePrecision_maybe ==
    /\ pc = "precision"
    /\ LET rest == IF First(fmt) = "." THEN OffsetBy(fmt, 1) ELSE fmt
       IN  /\ fm' = [fm EXCEPT !.has_precision = First(fmt) = ".",
                               !.precision = NumberOf(Digits(rest)) % Modulus]
           /\ fmt' = OffsetBy(rest, Len(Digits(rest)))
    /\ pc' = "convert"
    /\ UNCHANGED <<caller, fb, ret, got, input, shown, warned>>

ParsePrecision ==
    /\ pc = "precision"
    /\ LET rest   == OffsetBy(fmt, 1)
           digits == Digits(rest)
           With(n) == [fm EXCEPT !.has_precision = TRUE, !.precision = n]
       IN  \/ /\ First(fmt) # "."
              /\ pc' = "convert" /\ UNCHANGED <<fm, fmt, ret>>
           \/ /\ First(fmt) = "." /\ First(rest) = "*"
              /\ \E n \in Numbers : fm' = With(n % Modulus)
              /\ fmt' = OffsetBy(rest, 1)
              /\ pc' = "convert" /\ UNCHANGED ret
           \/ /\ First(fmt) = "." /\ digits # <<>> /\ NumberOf(digits) < Modulus
              /\ fm' = With(NumberOf(digits))
              /\ fmt' = OffsetBy(rest, Len(digits))
              /\ pc' = "convert" /\ UNCHANGED ret
           \/ /\ First(fmt) = "." /\ First(rest) # "*"
              /\ \/ digits = <<>> /\ Fail("EINVAL")
                 \/ NumberOf(digits) >= Modulus /\ Fail("ERANGE")
              /\ UNCHANGED fm
    /\ UNCHANGED <<caller, fb, got, input, shown, warned>>

\* The end of an iteration: b is written, and shows what is meant.
Converted(consumed, b, kind, meant, base) ==
    /\ fb' = b
    /\ fmt' = OffsetBy(fmt, consumed)
    /\ shown' = [kind |-> kind, meant |-> meant, base |-> base,
                 text |-> OffsetBy(b.all, fb.bytes_written)]
    /\ UNCHANGED <<caller, fm, ret, got, input>>

WriteChar ==
    /\ pc = "convert" /\ First(fmt) = "c"
    /\ \E s \in Texts \ {NULL} :
          /\ s # <<>>
          /\ Converted(1, write_one(fb, s[1]), "char", <<s[1]>>, 10)
    /\ pc' = "text" /\ UNCHANGED warned

NullText == <<"<", ">">>    \* stands for "<null>" and "<null-string>"

\* As much of a string as the precision lets through.
Cut(s) == IF fm.has_precision THEN SubSeq(s, 1, Min({Len(s), fm.precision})) ELSE s

WriteString ==
    /\ pc = "convert" /\ First(fmt) = "s"
    /\ \E s \in Texts :
          LET string == IF s = NULL THEN NullText ELSE s
              blanks == Repeat(" ", fm.min_width - Len(Cut(string)))
          IN  Converted(1, write_each(write_each(fb, Cut(string)), blanks),
                        "string", string, 10)
    /\ pc' = "text" /\ UNCHANGED warned

(***************************************************************************)
(* %pS.  The WARN_ON of a null string is a message of its own: it is       *)
(* formatted into log_buf, too.  The loop that pads the name does not      *)
(* advance what it compares.                                               *)
(***************************************************************************)
WriteName ==
    /\ pc = "convert" /\ IsPrefix(<<"p", "S">>, fmt)
    /\ \E s \in Texts :
          LET name == IF s = NULL THEN NullText ELSE s
              over == Terminated(write_many([fb EXCEPT !.bytes_written = 0], Warning))
              b    == IF s = NULL THEN [fb EXCEPT !.buffer = over.buffer] ELSE fb
          IN  /\ Converted(2, write_many(b, Cut(name)), "name", name, 10)
              /\ warned' = (warned \/ s = NULL)
              /\ pc' = IF Len(Cut(name)) < fm.precision THEN "pad_name" ELSE "text"

PadName ==
    /\ pc = "pad_name" /\ fb.bytes_written < MaxWritten
    /\ fb' = write_one(fb, " ")
    /\ UNCHANGED <<caller, fmt, fm, pc, ret, got, input, shown, warned>>

WritePointer ==
    /\ pc = "convert" /\ First(fmt) = "p" /\ ~IsPrefix(<<"p", "S">>, fmt)
    /\ \E n \in Numbers :
          LET spec == [fm EXCEPT !.min_width = PointerWidth, !.pad_char = "0"]
          IN  Converted(1, write_integer(fb, spec, n % Modulus, FALSE, 16, FALSE),
                        "pointer", n % Modulus, 16)
    /\ pc' = "text" /\ UNCHANGED warned

-----------------------------------------------------------------------------
\* The length at the start of s: the longest one that is there.
LengthOf(s) ==
    CHOOSE l \in DOMAIN Size :
        /\ IsPrefix(l, s)
        /\ \A m \in DOMAIN Size : IsPrefix(m, s) => Len(m) <= Len(l)

Specifiers == {"d", "i", "o", "x", "X", "u"}

base_from_specifier(c) ==
    CASE c \in {"x", "X"} -> 16 [] c = "o" -> 8 [] OTHER -> 10

\* The number that an argument of a type stands for.
ArgumentOf(n, specifier, size) ==
    IF specifier \in {"d", "i"} THEN AsSigned(n, size) ELSE n % size

AtInteger == pc = "convert" /\ First(fmt) \notin {"c", "s", "p"}

WriteInteger ==
    /\ AtInteger
    /\ LET length == LengthOf(fmt)
           c      == First(OffsetBy(fmt, Len(length)))
       IN  /\ c \in Specifiers
           /\ \E n \in Numbers :
                 LET argument == ArgumentOf(n, c, Size[length])
                     base     == base_from_specifier(c)
                 IN  Converted(Len(length) + 1,
                        write_integer(fb, fm, argument % Modulus, c \in {"d", "i"},
                                      base, c = "X"),
                        "number", argument, base)
    /\ pc' = "text" /\ UNCHANGED warned

BadConversion ==
    /\ AtInteger
    /\ First(OffsetBy(fmt, Len(LengthOf(fmt)))) \notin Specifiers
    /\ Fail("EINVAL")
    /\ UNCHANGED <<caller, fb, fm, got, input, shown, warned>>

\* vscnprintf's answer for a vsnprintf that does not fail.
vscnprintf(written, capacity) ==
    IF written < capacity THEN written ELSE Max({capacity - 1, 0})

\* The size that param_get_<type> gives its string.
param_get(written, capacity) == Min({written, capacity})

(***************************************************************************)
(* vprint hands log_buf to console_write with the answer of vscnprintf;    *)
(* param_get_<type> makes the answer of snprintf the size of its string.   *)
(***************************************************************************)
Return ==
    /\ pc = "text" /\ fmt = <<>>
    /\ fb' = Terminated(fb)
    /\ LET chars == IF caller = "vprint"
                    THEN vscnprintf(fb.bytes_written, fb.capacity)
                    ELSE param_get(fb.bytes_written, fb.capacity)
       IN  got' = [i \in 1 .. chars |-> fb'.buffer[i - 1]]
    /\ pc' = "done"
    /\ UNCHANGED <<caller, fmt, fm, ret, input, shown, warned>>

Next ==
    \/ ExtractLevel \/ WriteText \/ ConsumeFlag \/ ParseWidth \/ ParsePrecision
    \/ WriteChar \/ WriteString \/ WriteName \/ PadName \/ WritePointer
    \/ WriteInteger \/ BadConversion \/ Return

\* The call is over, or it pads a name for longer than the bound.
Over ==
    /\ pc = "done" \/ (pc = "pad_name" /\ fb.bytes_written >= MaxWritten)
    /\ UNCHANGED vars

Spec == Init /\ [][Next \/ Over]_vars

-----------------------------------------------------------------------------
(***************************************************************************)
(* write_one, write_many and the terminator stay inside the buffer, and    *)
(* what the caller uses in the end, with the lengths that vscnprintf and   *)
(* param_get_<type> compute, is the start of the output: all of it if      *)
(* there is room for it and the terminator.  A string that param_get_<type>*)
(* cuts ends with the terminator, and the message of a WARN_ON inside      *)
(* vsnprintf is written over the one that is formatted.                    *)
(***************************************************************************)
CallerGetsOutput ==
    /\ DOMAIN fb.buffer = 0 .. (fb.capacity - 1)
    /\ pc = "done" /\ ret = "EOK" /\ ~warned =>
        IF Len(fb.all) < fb.capacity THEN got = fb.all
        ELSE LET start == SubSeq(fb.all, 1, Max({fb.capacity - 1, 0}))
             IN  \/ got = start
                 \/ caller = "param_get" /\ got = Append(start, NUL)

\* The number that a reader takes a text for, in a base.
Read(text, base) ==
    LET upper(c)  == IF c \in ToSet(UpperHex) THEN UpperHex ELSE LowerHex
        digit(c)  == (CHOOSE i \in 1 .. 16 : upper(c)[i] = c) - 1
        digits    == SelectSeq(text, LAMBDA c : c \notin {" ", "+", "-", "x", "X"})
        magnitude == FoldLeft(LAMBDA n, c : base * n + digit(c), 0, digits)
    IN  IF "-" \in ToSet(text) THEN -magnitude ELSE magnitude

(***************************************************************************)
(* With every flag, width and length, a number reads back as the argument, *)
(* a string is there up to its precision with nothing but blanks behind    *)
(* it, and neither is narrower than the width asks.                        *)
(***************************************************************************)
ShowsTheArgument ==
    LET kind == shown.kind
        s    == shown.meant
        text == shown.text
        n    == IF kind # "char" /\ fm.has_precision
                THEN Min({Len(s), fm.precision}) ELSE Len(s)
    IN  pc = "text" =>
        /\ kind \in {"number", "pointer"} => Read(text, shown.base) = s
        /\ kind \in {"char", "string", "name"} =>
              /\ IsPrefix(SubSeq(s, 1, n), text)
              /\ \A i \in (n + 1) .. Len(text) : text[i] = " "
        /\ kind \in {"number", "string"} => Len(text) >= fm.min_width

(***************************************************************************)
(* The formats that format.c is written for, as a grammar: %%, or flags, a *)
(* width, a precision with its number, and a conversion.                   *)
(***************************************************************************)
IsNumber(s) == \/ s = <<"*">>
               \/ (\A i \in DOMAIN s : s[i] \in DecimalDigits) /\ NumberOf(s) < Modulus

Conversions ==
    {<<"c">>, <<"s">>, <<"p">>, <<"p", "S">>}
        \cup {Append(l, c) : l \in DOMAIN Size, c \in Specifiers}

IsDirective(s) ==
    \/ s = <<"%">>
    \/ \E i \in 0 .. Len(s) : \E j \in i .. Len(s) : \E k \in j .. Len(s) :
          /\ \A f \in 1 .. i : s[f] \in Flags
          /\ IsNumber(SubSeq(s, i + 1, j))
          /\ \/ j = k
             \/ k >= j + 2 /\ s[j + 1] = "." /\ IsNumber(SubSeq(s, j + 2, k))
          /\ SubSeq(s, k + 1, Len(s)) \in Conversions

IsFormat(s) ==
    LET from[i \in 1 .. Len(s) + 1] ==
            \/ i = Len(s) + 1
            \/ i <= Len(s) /\ s[i] # "%" /\ from[i + 1]
            \/ /\ i <= Len(s) /\ s[i] = "%"
               /\ \E j \in (i + 1) .. Len(s) :
                     IsDirective(SubSeq(s, i + 1, j)) /\ from[j + 1]
    IN  from[1]

\* A format is refused if, and only if, it is not one of the grammar.
RefusesOnlyMalformed ==
    pc = "done" => (ret = "EOK") = IsFormat(input)

(***************************************************************************)
(* vsnprintf returns, whatever the format: every step uses up characters   *)
(* of the format or goes on to a later part of the conversion, and (no     *)
(* state is a deadlock) there is a next step until the end.  Only the      *)
(* padding of a name (%pS) does not advance.                               *)
(***************************************************************************)
Rank == [done |-> 0, pad_name |-> 0, text |-> 1, convert |-> 1,
         precision |-> 2, flags |-> 3, level |-> 4]

Measure == 4 * Len(fmt) + Rank[pc]

EveryStepAdvances == [][pc # "pad_name" => Measure' < Measure]_vars

\* vsnprintf returns.  It does not: %pS pads without end.
NeverPads == pc # "pad_name"

\* A string that param_get_<type> returns has no terminator in it.
ParamHasNoTerminator ==
    pc = "done" /\ caller = "param_get" => NUL \notin ToSet(got)

\* The message that reaches the consoles is the one that was formatted.
WarningLeavesTheMessage ==
    pc = "done" /\ ret = "EOK" /\ caller = "vprint" => IsPrefix(got, fb.all)
=============================================================================
