------------------------------ MODULE MCSymbols ------------------------------
(***************************************************************************)
(* Tables of up to four functions, some of them at one address, with names *)
(* of one, two and three tokens; a block is two symbols, and a byte of a   *)
(* length counts to one.                                                   *)
(***************************************************************************)
EXTENDS Symbols

CONSTANTS MaxSymbols, Weak      \* bound: symbols; and which kinds there are

Names == {<<1>>, <<0, 1>>, <<1, 1, 0>>}

Texts == (0 :> <<"u", "a">>) @@ (1 :> <<"x">>)

Gaps == {0, 3}

\* A symbol, and its distance to the one before.
Table(n, gaps, names, weak) ==
    [i \in 1 .. n |-> [addr |-> TextBegin + SumFunctionOnSet(gaps, 2 .. i),
                       tokens |-> names[i], weak |-> weak[i]]]

SmallSymbolTables ==
    UNION {{t \in {Table(n, g, m, w) : g \in [1 .. n -> Gaps], m \in [1 .. n -> Names],
                                       w \in [1 .. n -> Weak]} : IsSymbolTable(t)} :
           n \in 0 .. MaxSymbols}

SmallKeys == (TextBegin - 1) .. (TextEnd + 1)

NoTables == {}
=============================================================================
