------------------------------ MODULE MCFormat ------------------------------
(***************************************************************************)
(* Formats of three kinds: everything short, over the characters that the  *)
(* parser tells apart; one conversion with flags, widths, precisions and   *)
(* lengths, between two texts; and messages with a level.  Integers have   *)
(* five bits, the other lengths fewer.                                     *)
(***************************************************************************)
EXTENDS Format

CONSTANT MaxLength      \* bound: the length of a format of the first kind

Alphabet == {"%", "0", "-", "7", "*", ".", "l", "h", "p", "S", "s", "d"}

ShortFormats == UNION {[1 .. n -> Alphabet] : n \in 0 .. MaxLength}

Directive(flags, widths, precisions, lengths, conversions) ==
    {<<"a", "%">> \o f \o w \o p \o l \o c \o <<"b">> :
        f \in flags, w \in widths, p \in precisions, l \in lengths, c \in conversions}

None == {<<>>}

SomeFlags == {<<>>, <<"+">>, <<" ", "#">>, <<"-">>, <<"0">>, <<"0", "-">>, <<"#", "0">>}

Lengths == {<<"h", "h">>, <<"h">>, <<"l", "l">>, <<"l">>, <<"z">>}

MCSize == [l \in Lengths \cup {<<>>} |->
    CASE l = <<"h", "h">> -> 4 [] l = <<"h">> -> 8 [] l = <<>> -> 16 [] OTHER -> 32]

Letters == {<<"d">>, <<"u">>, <<"o">>, <<"X">>}

MCMessages ==
    ShortFormats
    \cup Directive(SomeFlags, {<<>>, <<"5">>}, None, None, Letters)
    \cup Directive(None, None, None, Lengths, Letters \cup {<<"i">>, <<"x">>, <<"c">>})
    \cup Directive({<<>>, <<"-">>}, {<<>>, <<"*">>, <<"4">>, <<"4", "0">>},
                   {<<>>, <<".">>, <<".", "*">>, <<".", "1">>, <<".", "9", "9">>},
                   None, {<<"s">>, <<"c">>, <<"p">>, <<"p", "S">>, <<"d">>})
    \cup {<<"SOH">>, <<"SOH", "6">>, <<"SOH", "6", "%", "%", "%", "d">>}

MCParamFormats == {<<"%", "d">>, <<"%", "u">>, <<"%", "l", "l", "d">>, <<"%", "l", "l", "u">>}

MCNumbers == {-16, -3, 0, 2, 15}

MCWarning == <<"W", "!">>

MCTexts == {<<>>, <<"t">>, <<"t", "e", "x">>, NULL}
=============================================================================
