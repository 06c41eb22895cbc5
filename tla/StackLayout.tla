----------------------------- MODULE StackLayout ------------------------------
(***************************************************************************)
(* What the call frame information of kernel/unwind.c is about, and when   *)
(* it is right: how the code lays its stack frames out, and that every row *)
(* that the unwinder may use says the same, or nothing.                    *)
(*                                                                         *)
(* A layout gives each address of the code, before its instruction, what   *)
(* is known of the frame there:                                            *)
(*   depth  the words between the stack pointer and the CFA,               *)
(*   saved  how far below the CFA the caller's frame pointer is kept, or 0 *)
(*          while the register holds it,                                   *)
(*   base   how far below the CFA the frame pointer points, or 0 when that *)
(*          is not known,                                                  *)
(*   fn     the first address of the function.                             *)
(***************************************************************************)
EXTENDS Unwind

Calls(to) == {a \in DOMAIN Code : Code[a] = <<"call", to>>}

AllCalls == {a \in DOMAIN Code : Code[a][1] = "call"}

\* The words of a frame that it does not push itself: the return address, or
\* what iretq takes.
Given(fn) == IF fn = Handler THEN 2 ELSE 1

Frames == [depth : Nat, saved : Nat, base : Nat, fn : DOMAIN Code]

AtEntry(fn, depth) == [depth |-> depth, saved |-> 0, base |-> 0, fn |-> fn]

\* What an instruction may leave behind, with a frame f before it.
Follows(layout, a, f) == a \in DOMAIN Code /\ layout[a] = f

\* The instruction at an address keeps to the layout.
KeepsLayout(layout, a) ==
    LET op   == Code[a][1]
        arg  == Code[a][2]
        f    == layout[a]
        next == a + 1
    IN  \/ op = "nop" /\ Follows(layout, next, f)
        \/ op = "jump" /\ \A to \in arg : Follows(layout, to, f)
        \/ /\ op = "push"
           /\ \/ Follows(layout, next, [f EXCEPT !.depth = @ + 1])
              \/ /\ f.saved = 0
                 /\ Follows(layout, next, [f EXCEPT !.depth = @ + 1, !.saved = f.depth + 1])
        \/ /\ op = "pop" /\ f.saved # 0 /\ f.saved = f.depth
           /\ Follows(layout, next, [f EXCEPT !.depth = @ - 1, !.saved = 0, !.base = 0])
        \/ /\ op = "mov" /\ f.saved # 0
           /\ Follows(layout, next, [f EXCEPT !.base = f.depth])
        \/ op = "sub" /\ Follows(layout, next, [f EXCEPT !.depth = @ + 1])
        \/ /\ op = "add" /\ f.saved # f.depth
           /\ Follows(layout, next, [f EXCEPT !.depth = @ - 1])
        \/ /\ op = "call" /\ Code[a] = <<"call", arg>> /\ arg # Handler
           /\ Follows(layout, arg, AtEntry(arg, 1))
        \/ /\ op = "ret" /\ f.fn \notin {Entry, Handler} /\ f.depth = 1 /\ f.saved = 0
           /\ \A b \in Calls(f.fn) : Follows(layout, b + 1, layout[b])
        \/ op = "iretq" /\ f.fn = Handler /\ f.depth = 2 /\ f.saved = 0
        \/ op = "capture" /\ f.depth = 1 /\ f.saved = 0

(***************************************************************************)
(* arch_unwind_current_begin is called by unwind_begin only, that by       *)
(* unwind_walk only, and that from one place.                              *)
(***************************************************************************)
CapturesInWalk(layout) ==
    \A a \in DOMAIN Code : Code[a][1] = "capture" =>
        \E unwind_begin, unwind_walk \in DOMAIN Code :
            /\ {layout[a].fn, unwind_begin, unwind_walk} \cap {Entry, Handler} = {}
            /\ \A b \in Calls(layout[a].fn) :
                  layout[b].fn = unwind_begin /\ b + 1 # WalkReturns
            /\ \A b \in Calls(unwind_begin) :
                  layout[b].fn = unwind_walk /\ b + 1 # WalkReturns
            /\ \A b \in Calls(unwind_walk) : b + 1 = WalkReturns

LayoutIsKept(layout) ==
    /\ layout \in [DOMAIN Code -> Frames]
    /\ \A a \in DOMAIN Code :
          /\ layout[a].saved <= layout[a].depth
          /\ Given(layout[a].fn) <= layout[a].depth
          /\ KeepsLayout(layout, a)
    /\ Follows(layout, Entry, AtEntry(Entry, 1))
    /\ Follows(layout, Handler, AtEntry(Handler, 3))
    /\ CapturesInWalk(layout)

-----------------------------------------------------------------------------
(***************************************************************************)
(* The rows of an FDE: what DWARF means by its operations.  A row failed   *)
(* when an operation before it is none that the kernel knows, or makes the *)
(* CFA depend on a register that it does not track.                        *)
(***************************************************************************)
FirstRow(fde) ==
    [loc |-> fde.begin, cfa_reg |-> "bp", cfa_offset |-> 0, rules |-> NoRules,
     failed |-> FALSE]

RowWithRule(row, reg, rule, offset) ==
    IF reg \in Registers
    THEN [row EXCEPT !.rules = [@ EXCEPT ![reg] = [rule |-> rule, offset |-> offset]]]
    ELSE row

RowWithCfa(row, reg, offset) ==
    IF reg \in Registers THEN [row EXCEPT !.cfa_reg = reg, !.cfa_offset = offset]
                         ELSE [row EXCEPT !.failed = TRUE]

Executed(row, op) ==
    CASE op[1] = "nop"              -> row
      [] op[1] = "advance_loc"      -> [row EXCEPT !.loc = @ + op[2]]
      [] op[1] = "offset"           -> RowWithRule(row, op[2], "offset", op[3])
      [] op[1] = "restore"          -> RowWithRule(row, op[2], "same_value", 0)
      [] op[1] = "def_cfa"          -> RowWithCfa(row, op[2], op[3])
      [] op[1] = "def_cfa_register" -> RowWithCfa(row, op[2], row.cfa_offset)
      [] op[1] = "def_cfa_offset"   -> [row EXCEPT !.cfa_offset = op[2]]
      [] OTHER                      -> [row EXCEPT !.failed = TRUE]

Program(fde) == fde.cie_code \o fde.fde_code

\* The row behind each number of operations.
Rows(fde) ==
    LET row[k \in 0 .. Len(Program(fde))] ==
            IF k = 0 THEN FirstRow(fde) ELSE Executed(row[k - 1], Program(fde)[k])
    IN  row

\* The row at an address: the last one that does not begin above it ends with
\* the operation before the one that goes too far.
IsEnd(fde, addr, k) ==
    k = Len(Program(fde)) \/ Rows(fde)[k].loc > addr \/ Rows(fde)[k].failed

Row(fde, addr) ==
    LET ends == {k \in 0 .. Len(Program(fde)) : IsEnd(fde, addr, k)}
    IN  Rows(fde)[CHOOSE k \in ends : \A j \in ends : k <= j]

\* A row says of a frame what its layout is.
Describes(row, f) ==
    /\ \/ row.cfa_reg = "sp" /\ row.cfa_offset = f.depth
       \/ row.cfa_reg = "bp" /\ f.base # 0 /\ row.cfa_offset = f.base
    /\ row.rules["pc"] = [rule |-> "offset", offset |-> Given(f.fn)]
    /\ \/ row.rules["sp"].rule = "def_cfa"
       \/ f.fn = Handler /\ row.rules["sp"] = [rule |-> "offset", offset |-> 1]
    /\ IF f.saved = 0 THEN row.rules["bp"].rule = "same_value"
       ELSE row.rules["bp"] = [rule |-> "offset", offset |-> f.saved]

(***************************************************************************)
(* The addresses that the unwinder looks up: an exact one in the registers *)
(* of an exception, those behind calls, and interrupted ones; with the     *)
(* layout that the frame then has.                                         *)
(***************************************************************************)
View(addr, exact, f) == [addr |-> addr, exact |-> exact, frame |-> f]

Views(layout) ==
    {View(a, TRUE, layout[a]) : a \in DOMAIN Code}
        \cup {View(a + 1, FALSE, layout[a]) : a \in AllCalls}
        \cup {View(a, FALSE, layout[a]) : a \in Interruptible}

LookedUp(v) == IF v.exact THEN v.addr ELSE v.addr - 1

\* Entry i of a table may be found for v, and is accepted.
MayTake(t, i, v) ==
    LET compared == IF v.exact \/ t[i].signal THEN v.addr ELSE v.addr - 1
    IN  /\ i = 1 \/ t[i].begin <= LookedUp(v)
        /\ t[i].begin <= compared /\ compared < t[i].begin + t[i].size

\* What is in a table is right, or the unwinder does not understand it.
IsRight(t, layout) ==
    \A i \in DOMAIN t :
        /\ t[i].begin \in Int /\ t[i].size \in Int /\ t[i].signal \in BOOLEAN
        /\ Program(t[i]) \in Seq(ToSet(Program(t[i])))
        /\ Program(t[i]) # <<>>
        /\ Program(t[i])[1][1] = "def_cfa" /\ Program(t[i])[1][2] \in Registers
        /\ \A v \in Views(layout) : MayTake(t, i, v) =>
              \/ Row(t[i], v.addr).failed
              \/ Describes(Row(t[i], v.addr), v.frame)

\* A table that leaves nothing out.
IsFull(t, layout) ==
    /\ \A i, j \in DOMAIN t : i < j => t[i].begin + t[i].size <= t[j].begin
    /\ \A v \in Views(layout) : \E i \in DOMAIN t :
          /\ t[i].begin <= LookedUp(v)
          /\ MayTake(t, i, v)
          /\ ~Row(t[i], v.addr).failed

(***************************************************************************)
(* The code and its call frame information go together.                    *)
(***************************************************************************)
InformationIsRight(layout) ==
    /\ LayoutIsKept(layout)
    /\ \A t \in FdeTables : IsRight(t, layout)
    /\ \A t \in FullTables : IsFull(t, layout)
=============================================================================
