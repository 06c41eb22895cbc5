------------------------------- MODULE Cmdline -------------------------------
(***************************************************************************)
(* The parser of the kernel command line, cmdline_parse of kernel/param.c, *)
(* one iteration of its loops per step.  A line is a sequence of           *)
(* characters of which the parser tells apart the ones below; a struct     *)
(* string is the sequence of its characters.                               *)
(*                                                                         *)
(* The helpers of common/string_container.h stop the kernel when they are  *)
(* asked for more characters than there are; bug says that one did.        *)
(***************************************************************************)
EXTENDS Integers, Sequences, FiniteSets

CONSTANTS
    Lines,          \* the command lines that are parsed
    params,         \* the names of the parameters, a sequence of strings
    BoolParams      \* indices of the parameters of type bool; others are strings

\* A line may hold any characters; names are compared and must have one.
ASSUME ParamsAssumption ==
    /\ \A i \in DOMAIN params : Len(params[i]) > 0
    /\ BoolParams \subseteq DOMAIN params

VARIABLES
    text,           \* the whole line, never changed
    pos,            \* how much of it is behind the start of cmdline
    key, value,
    pc,             \* "key": the inner loop; "apply": after it; "done"
    calls,          \* history: what was done for each key
    store,          \* the values of the parameters
    bug

vars == <<text, pos, key, value, pc, calls, store, bug>>

isspace(c) == c = " "

\* What is left of the line, and whether it is empty.
cmdline == SubSeq(text, pos + 1, Len(text))
Left == Len(text) - pos
Char == text[pos + 1]

StartsWith(s, prefix) ==
    Len(prefix) <= Len(s) /\ \A i \in DOMAIN prefix : s[i] = prefix[i]

\* cmdline_trim: past the spaces that follow position p.
TrimmedFrom(p) ==
    CHOOSE n \in p .. Len(text) :
        /\ \A i \in (p + 1) .. n : isspace(text[i])
        /\ n < Len(text) => ~isspace(text[n + 1])

(***************************************************************************)
(* find_param: the first parameter of that name, dashes and underscores    *)
(* being one; 0 when there is none.                                        *)
(***************************************************************************)
dash_to_underscore(c) == IF c = "-" THEN "_" ELSE c

names_equal(lhs, rhs) ==
    /\ Len(lhs) = Len(rhs)
    /\ \A i \in DOMAIN lhs : dash_to_underscore(lhs[i]) = dash_to_underscore(rhs[i])

find_param(name) ==
    LET found == {i \in DOMAIN params : names_equal(params[i], name)}
    IN  IF found = {} THEN 0 ELSE CHOOSE i \in found : \A j \in found : i <= j

(***************************************************************************)
(* What the setter of parameter p makes of a value: param_set_string keeps *)
(* it, param_set_bool looks it up.  Only the latter gets to see an empty   *)
(* one.  The setters of the integer types are in module Conversions.       *)
(***************************************************************************)
tolower(c) == IF c \in {"Y", "T", "O", "N", "F"}
              THEN [Y |-> "y", T |-> "t", O |-> "o", N |-> "n", F |-> "f"][c] ELSE c

TrueOptions == { <<"y">>, <<"t">>, <<"o", "n">>, <<"1">> }
FalseOptions == { <<"n">>, <<"f">>, <<"o", "f", "f">>, <<"0">> }

Lowered(v) == [i \in DOMAIN v |-> tolower(v[i])]

Refused(p, v) ==
    IF p \in BoolParams THEN v # <<>> /\ Lowered(v) \notin TrueOptions \cup FalseOptions
                        ELSE v = <<>>

Converted(p, v) ==
    IF p \in BoolParams THEN v = <<>> \/ Lowered(v) \in TrueOptions ELSE v

-----------------------------------------------------------------------------
Init ==
    /\ text \in Lines
    /\ pos = TrimmedFrom(0)
    /\ key = <<>> /\ value = <<>>
    /\ pc = "key"
    /\ calls = <<>>
    /\ store = [i \in DOMAIN params |-> IF i \in BoolParams THEN FALSE ELSE <<>>]
    /\ bug = FALSE

InKey == pc = "key" /\ ~bug

Dashes == StartsWith(cmdline, <<"-", "-">>)

\* The rest of the line is for init; a key that was begun is dropped.
StopAtDashes ==
    /\ InKey /\ Left > 0 /\ Dashes
    /\ pos' = TrimmedFrom(pos + 2)
    /\ pc' = "done"
    /\ UNCHANGED <<text, key, value, calls, store, bug>>

\* The key has no value.
KeyEndsAtSpace ==
    /\ InKey /\ Left > 0 /\ ~Dashes /\ isspace(Char)
    /\ pos' = TrimmedFrom(pos)
    /\ pc' = "apply"
    /\ UNCHANGED <<text, key, value, calls, store, bug>>

\* Where a value ends that begins at position p: the first character that
\* ends it, or the end of the line.
ValueEnd(p, ends(_)) ==
    LET found == {n \in p .. (Len(text) - 1) : ends(text[n + 1])}
    IN  IF found = {} THEN Len(text) ELSE CHOOSE n \in found : \A k \in found : n <= k

IsQuote(c) == c = "\""

\* Mutant: a quoted value ends at a space as well.
ParseValue_unquoted ==
    /\ InKey /\ Left > 0 /\ ~Dashes /\ Char = "="
    /\ LET quoted == Left > 1 /\ IsQuote(text[pos + 2])
           begin  == IF quoted THEN pos + 2 ELSE pos + 1
           end    == ValueEnd(begin, isspace)
       IN  /\ bug' = (begin > Len(text) \/ end > Len(text))
           /\ value' = SubSeq(text, begin + 1, end)
           /\ pos' = end
    /\ pc' = "apply"
    /\ UNCHANGED <<text, key, calls, store>>

(***************************************************************************)
(* The key has a value, up to the closing quote or the next space.  The    *)
(* closing quote is left where it is, and begins the next key.             *)
(***************************************************************************)
ParseValue ==
    /\ InKey /\ Left > 0 /\ ~Dashes /\ Char = "="
    /\ LET quoted == Left > 1 /\ IsQuote(text[pos + 2])
           begin  == IF quoted THEN pos + 2 ELSE pos + 1
           end    == IF quoted THEN ValueEnd(begin, IsQuote)
                               ELSE ValueEnd(begin, isspace)
       IN  /\ bug' = (begin > Len(text) \/ end > Len(text))
           /\ value' = SubSeq(text, begin + 1, end)
           /\ pos' = end
    /\ pc' = "apply"
    /\ UNCHANGED <<text, key, calls, store>>

ExtendKey ==
    /\ InKey /\ Left > 0 /\ ~Dashes /\ ~isspace(Char) /\ Char # "="
    /\ key' = Append(key, Char)
    /\ pos' = pos + 1
    /\ UNCHANGED <<text, value, pc, calls, store, bug>>

KeyEndsAtEnd ==
    /\ InKey /\ Left = 0
    /\ pc' = "apply"
    /\ UNCHANGED <<text, pos, key, value, calls, store, bug>>

\* Mutant: an empty key is passed over.
Finish_goes_on ==
    /\ pc = "apply" /\ ~bug
    /\ key = <<>>
    /\ pc' = "key"
    /\ UNCHANGED <<text, pos, key, value, calls, store, bug>>

\* The line ends at an empty key.
Finish ==
    /\ pc = "apply" /\ ~bug
    /\ key = <<>>
    /\ pc' = "done"
    /\ UNCHANGED <<text, pos, key, value, calls, store, bug>>

\* Mutant: the key is kept when the next one begins.
Apply_keeps_key ==
    /\ pc = "apply" /\ ~bug
    /\ key # <<>>
    /\ LET p == find_param(key)
       IN  /\ calls' = Append(calls, [key |-> key, value |-> value, param |-> p])
           /\ store' = IF p = 0 \/ Refused(p, value) THEN store
                       ELSE [store EXCEPT ![p] = Converted(p, value)]
    /\ pos' = TrimmedFrom(pos)
    /\ value' = <<>>
    /\ pc' = "key"
    /\ UNCHANGED <<text, key, bug>>

(***************************************************************************)
(* The parameter is set unless its setter refuses the value; the next key  *)
(* begins behind the spaces.                                               *)
(***************************************************************************)
Apply ==
    /\ pc = "apply" /\ ~bug
    /\ key # <<>>
    /\ LET p == find_param(key)
       IN  /\ calls' = Append(calls, [key |-> key, value |-> value, param |-> p])
           /\ store' = IF p = 0 \/ Refused(p, value) THEN store
                       ELSE [store EXCEPT ![p] = Converted(p, value)]
    /\ pos' = TrimmedFrom(pos)
    /\ key' = <<>> /\ value' = <<>>
    /\ pc' = "key"
    /\ UNCHANGED <<text, bug>>

Next ==
    \/ StopAtDashes \/ KeyEndsAtSpace \/ ParseValue \/ ExtendKey \/ KeyEndsAtEnd
    \/ Finish \/ Apply

\* cmdline_parse runs until it returns.
Spec == Init /\ [][Next]_vars /\ WF_vars(Next)

-----------------------------------------------------------------------------
(***************************************************************************)
(* cmdline_parse returns, whatever the line: every iteration advances, and *)
(* none asks for more characters than are left, which a BUG_ON of          *)
(* str_offset_by or str_substring would stop.                              *)
(***************************************************************************)
Returns == <>(pc = "done")

(***************************************************************************)
(* "Parses the given command line and returns the string (if any) after    *)
(* --": what is returned is empty, or comes right after two dashes.        *)
(***************************************************************************)
ReturnsAfterDashes ==
    pc = "done" /\ Left > 0 =>
        \E n \in 2 .. pos :
            /\ text[n - 1] = "-" /\ text[n] = "-"
            /\ \A i \in (n + 1) .. pos : isspace(text[i])
=============================================================================
