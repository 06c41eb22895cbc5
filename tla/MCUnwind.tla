------------------------------- MODULE MCUnwind -------------------------------
(***************************************************************************)
(* A kernel of eight functions, without gaps between them: one that keeps  *)
(* a frame pointer, one that ends in a call of panic, the path from panic  *)
(* to the unwinder, and an exception trampoline as in interrupts.S.        *)
(***************************************************************************)
EXTENDS StackLayout

Function(begin, body) == [a \in begin .. (begin + Len(body) - 1) |-> body[a - begin + 1]]

Merge(f, g) == [a \in DOMAIN f \cup DOMAIN g |-> IF a \in DOMAIN f THEN f[a] ELSE g[a]]

Others ==
    FoldLeft(Merge, << >>, <<
        Function(101, <<                                \* entry
            <<"push">>, <<"call", 105>>, <<"pop">>, <<"jump", {104}>> >>),
        Function(105, <<                                \* with a frame pointer
            <<"push">>, <<"mov">>, <<"sub">>, <<"jump", {109, 110}>>,
            <<"call", 113>>, <<"add">>, <<"pop">>, <<"ret">> >>),
        Function(119, <<                                \* panic
            <<"sub">>, <<"call", 122>>, <<"jump", {121}>> >>),
        Function(122, <<                                \* unwind_walk
            <<"sub">>, <<"call", 126>>, <<"add">>, <<"ret">> >>),
        Function(126, << <<"call", 128>>, <<"ret">> >>),\* unwind_begin
        Function(128, << <<"capture">> >>),             \* arch_unwind_current_begin
        Function(129, <<                                \* an exception
            <<"push">>, <<"jump", {131, 132}>>, <<"call", 119>>,
            <<"pop">>, <<"add">>, <<"iretq">> >>) >>)

\* A function that ends in panic, and one that goes on behind it.
EndsInPanic == Function(113, <<
    <<"push">>, <<"mov">>, <<"jump", {116, 118}>>, <<"pop">>, <<"ret">>,
    <<"call", 119>> >>)

GoesOn == Function(113, <<
    <<"jump", {114, 117}>>, <<"push">>, <<"mov">>, <<"call", 119>>,
    <<"nop">>, <<"ret">> >>)

KernelCode == Merge(EndsInPanic, Others)

KernelCodeGoesOn == Merge(GoesOn, Others)

CieCode == << <<"def_cfa", "sp", 1>>, <<"offset", "pc", 1>>, <<"nop">> >>

Fde(begin, size, ops) ==
    [begin |-> begin, size |-> size, signal |-> FALSE,
     cie_code |-> CieCode, fde_code |-> ops]

Pushed == << <<"def_cfa_offset", 2>>, <<"offset", "bp", 2>> >>

Popped == << <<"def_cfa_offset", 1>>, <<"restore", "bp">> >>

Advance(n) == << <<"advance_loc", n>> >>

FdeEndsInPanic ==
    Fde(113, 6, Advance(1) \o Pushed \o Advance(3) \o Popped \o Advance(1) \o Pushed)

FdeGoesOn == Fde(113, 6, Advance(2) \o Pushed \o Advance(2) \o Popped)

KernelFdesWith(f) == <<
    Fde(101, 4, Advance(1) \o Pushed \o Advance(2) \o Popped),
    Fde(105, 8, Advance(1) \o Pushed
                \o Advance(1) \o << <<"def_cfa_register", "bp">> >>
                \o Advance(5) \o << <<"def_cfa", "sp", 1>>, <<"restore", "bp">> >>),
    f,
    Fde(119, 3, Advance(1) \o << <<"def_cfa_offset", 2>> >>),
    Fde(122, 4, Advance(1) \o << <<"def_cfa_offset", 2>> >>
                \o Advance(2) \o << <<"def_cfa_offset", 1>> >>),
    Fde(126, 2, << >>),
    Fde(128, 1, << >>),
    [Fde(129, 6, << <<"def_cfa", "sp", 3>>, <<"offset", "ss", 1>>,
                    <<"offset", "sp", 1>>, <<"offset", "pc", 2>> >>
                 \o Advance(1) \o << <<"def_cfa_offset", 4>>, <<"offset", "bp", 4>> >>
                 \o Advance(3) \o << <<"def_cfa_offset", 3>>, <<"restore", "bp">> >>
                 \o Advance(1) \o << <<"def_cfa_offset", 2>> >>)
        EXCEPT !.signal = TRUE] >>

KernelFdes == KernelFdesWith(FdeEndsInPanic)

KernelFdesGoesOn == KernelFdesWith(FdeGoesOn)

(***************************************************************************)
(* The same code with worse information: none on entry and unwind_begin, a *)
(* CFA that depends on an untracked register, an unknown operation.        *)
(***************************************************************************)
PoorFdes ==
    LET odd == [KernelFdes EXCEPT
            ![2].fde_code = Advance(1) \o Pushed \o Advance(1)
                            \o << <<"def_cfa_register", "ss">> >>,
            ![3].fde_code = Advance(1) \o Pushed \o Advance(2)
                            \o << <<"remember_state">> >>]
    IN  SelectSeq(odd, LAMBDA f : f.begin \notin {101, 126})

FullFdes == {KernelFdes}

FullFdesGoesOn == {KernelFdesGoesOn}

FullAndPoorFdes == {KernelFdes, PoorFdes}

Everywhere == DOMAIN Code

\* Not at the first instruction of a function.
InsideFunctions == DOMAIN Code \ {KernelFdes[i].begin : i \in DOMAIN KernelFdes}

Nowhere == {}

-----------------------------------------------------------------------------
(***************************************************************************)
(* How this kernel lays its frames out; the information that is checked is *)
(* right about it, the poor one too.                                       *)
(***************************************************************************)
Laid(fn, depths, saved, based) ==
    [a \in fn .. (fn + Len(depths) - 1) |->
        LET depth == depths[a - fn + 1]
        IN  [depth |-> depth,
             saved |-> IF a \in saved THEN depths[2] ELSE 0,
             base  |-> IF a \in based THEN depths[2] ELSE 0,
             fn    |-> fn]]

KernelLayout ==
    FoldLeft(Merge, << >>, <<
        Laid(101, <<1, 2, 2, 1>>, 102 .. 103, {}),
        Laid(105, <<1, 2, 2, 3, 3, 3, 2, 1>>, 106 .. 111, 107 .. 111),
        Laid(113, <<1, 2, 2, 2, 1, 2>>, {114, 115, 116, 118}, {115, 116, 118}),
        Laid(119, <<1, 2, 2>>, {}, {}),
        Laid(122, <<1, 2, 2, 1>>, {}, {}),
        Laid(126, <<1, 1>>, {}, {}),
        Laid(128, <<1>>, {}, {}),
        Laid(129, <<3, 4, 4, 4, 3, 2>>, 130 .. 132, {}) >>)

ASSUME InformationAssumption ==
    Code = KernelCode /\ Interruptible = InsideFunctions => InformationIsRight(KernelLayout)
=============================================================================
