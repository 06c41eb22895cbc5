------------------------------ MODULE MCCmdline ------------------------------
(***************************************************************************)
(* Two sets of command lines for TLC: every line over five characters up   *)
(* to a length, and lines that are written out of settings, for which it   *)
(* is known what they mean.                                                *)
(***************************************************************************)
EXTENDS Cmdline, SequencesExt

CONSTANTS
    MaxLength,      \* bound: the length of an arbitrary line
    MaxSettings     \* bound: the settings of a written line

Chars == {"a", "-", "=", "\"", " "}

ArbitraryLines == UNION {[1 .. n -> Chars] : n \in 0 .. MaxLength}

\* A parameter of type bool, and a string with an underscore in its name.
TwoParams == << <<"a">>, <<"b", "_", "c">> >>

(***************************************************************************)
(* Written lines: settings between spaces and then, perhaps, two dashes    *)
(* and something for init.                                                 *)
(***************************************************************************)
Names == { <<"a">>, <<"b", "-", "c">>, <<"b", "_", "c">>, <<"x">> }
PlainValues == { <<>>, <<"1">>, <<"F">>, <<"=", "-">>, <<"-", "-">> }
QuotedValues == { <<"1", " ", "2">>, <<>> }
Tails == { <<>>, <<"-", "-", " ", "a", " ", "1">> }

Settings ==
    [name : Names, quoted : {FALSE}, assigned : {FALSE}, value : {<<>>}]
    \cup [name : Names, quoted : {FALSE}, assigned : {TRUE}, value : PlainValues]
    \cup [name : Names, quoted : {TRUE}, assigned : {TRUE}, value : QuotedValues]

Written(s) ==
    s.name \o (IF s.assigned THEN <<"=">> ELSE <<>>)
           \o (IF s.quoted THEN <<"\"">> \o s.value \o <<"\"">> ELSE s.value)

WrittenLine(settings, tail) ==
    FlattenSeq([i \in DOMAIN settings |-> Written(settings[i]) \o <<" ">>]) \o tail

SettingLists == UNION {[1 .. n -> Settings] : n \in 0 .. MaxSettings}

WrittenLines == {WrittenLine(l[1], l[2]) : l \in SettingLists \X Tails}

AllLines == ArbitraryLines \cup WrittenLines

-----------------------------------------------------------------------------
Kept(c) == c \notin {" ", "=", "\""}

\* What cmdline_parse has passed on to setters and to unknown_cb.
PassedOn == FlattenSeq([n \in DOMAIN calls |-> calls[n].key \o calls[n].value])

OneWord(s) == \A i \in DOMAIN s : s[i] \notin {" ", "="}

\* A key that was begun right before the two dashes, which are then read with
\* the spaces behind them.
KeyBeforeDashes(s) ==
    /\ OneWord(key)
    /\ StartsWith(s, key \o <<"-", "-">>)
    /\ \A i \in (Len(key) + 3) .. Len(s) : isspace(s[i])

\* The value of an empty key.
ValueWithoutKey(s) ==
    /\ key = <<>>
    /\ s = <<"=">> \o value \/ s = <<"=", "\"">> \o value

(***************************************************************************)
(* No character of a name or a value is used twice or moved, and none is   *)
(* lost but in two places, both where the parser returns.  While it runs,  *)
(* what it has passed on and is about to pass on, put together again, is   *)
(* the part of the line that it has read.  When it has returned, what it   *)
(* has passed on is all that it has read up to the last word: there it may *)
(* drop a key that runs into the dashes ("a--"), or the value of an empty  *)
(* key ("=a").                                                             *)
(***************************************************************************)
NothingLost ==
    /\ pc # "done" =>
           SelectSeq(SubSeq(text, 1, pos), Kept)
             = SelectSeq(PassedOn \o key \o value, Kept)
    /\ pc = "done" =>
           \E n \in 0 .. pos :
               /\ SelectSeq(SubSeq(text, 1, n), Kept) = SelectSeq(PassedOn, Kept)
               /\ LET last == SubSeq(text, n + 1, pos)
                  IN  last = <<>> \/ KeyBeforeDashes(last) \/ ValueWithoutKey(last)

\* The calls that concern a parameter of the kernel.
KnownCalls == SelectSeq(calls, LAMBDA c : c.param # 0)

KnownSettings(settings) == SelectSeq(settings, LAMBDA s : find_param(s.name) # 0)

(***************************************************************************)
(* A line that is written out of settings calls the setters of these       *)
(* parameters with these values, in this order; a parameter is left with   *)
(* the last value that its setter takes, and what follows the two dashes   *)
(* is returned.                                                            *)
(***************************************************************************)
SetsAsWritten ==
    pc = "done" /\ text \in WrittenLines =>
        \A settings \in SettingLists, tail \in Tails :
            text = WrittenLine(settings, tail) =>
                LET known == KnownSettings(settings)
                IN  /\ Len(KnownCalls) = Len(known)
                    /\ \A n \in DOMAIN known :
                         /\ KnownCalls[n].param = find_param(known[n].name)
                         /\ KnownCalls[n].value = known[n].value
                    /\ \A p \in DOMAIN params :
                         LET taken == SelectSeq(known, LAMBDA s :
                                 find_param(s.name) = p /\ ~Refused(p, s.value))
                         IN  taken # <<>> =>
                                 store[p] = Converted(p, taken[Len(taken)].value)
                    /\ cmdline = SubSeq(tail, 4, Len(tail))
=============================================================================
