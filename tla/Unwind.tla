-------------------------------- MODULE Unwind --------------------------------
(***************************************************************************)
(* The stack unwinder of kernel/unwind.c, run against a small machine: the *)
(* machine calls, returns, pushes and is interrupted, and at some moment   *)
(* its stack is walked, either by panic (with no registers, from inside)   *)
(* or with the registers of an exception.  The unwinder sees the registers,*)
(* the memory and the call frame information of .eh_frame, and nothing     *)
(* else; the history variable calls knows the truth.                       *)
(*                                                                         *)
(* Addresses count instructions in the code and words on the stack.  An    *)
(* FDE is a record whose program is a sequence of decoded operations.      *)
(***************************************************************************)
EXTENDS Integers, Sequences, SequencesExt

CONSTANTS
    Code,           \* address |-> instruction
    FdeTables,      \* what .eh_frame_hdr may list: FDEs by ascending address
    FullTables,     \* those that describe all code in known operations
    Handler,        \* where an interrupt goes
    Entry,          \* where the kernel starts
    WalkReturns,    \* the address behind the call of unwind_walk
    StackSize,      \* bound: words of stack
    Interrupts,     \* bound: interrupts that nest
    Interruptible   \* the addresses at which an interrupt may happen

Registers == {"bp", "sp", "pc"}

\* The operations that dwarf_exec knows.
Operations == {"nop", "advance_loc", "offset", "restore", "def_cfa",
               "def_cfa_register", "def_cfa_offset"}

\* What the memory outside of the stack holds.
Garbage == -1

ASSUME CodeAssumption ==
    /\ StackSize \in Nat \ {0}
    /\ \A a \in DOMAIN Code : a \in Nat /\ a > StackSize
    /\ \A t \in FdeTables : t \in Seq(ToSet(t)) /\ t # <<>> /\
          \A i, j \in DOMAIN t : i < j => t[i].begin < t[j].begin
    /\ FullTables \subseteq FdeTables
    /\ Interruptible \subseteq DOMAIN Code

VARIABLES
    regs, mem,      \* the machine: its registers and its stack
    calls,          \* history: what is really on the stack, innermost first
    g_unwinder_available,
    Fdes,           \* the table of this kernel, constant
    state,          \* struct unwind_state
    ret,            \* what unwind_next_frame, and then unwind_walk, returns
    loc, rules, program,    \* dwarf_exec: state->pc, reg_rules, the rest of data
    caller,         \* who called unwind_next_frame
    trace,          \* history: the calls of the callback
    expected,       \* history: what they should be
    strayed,        \* history: a word was read that is not on the live stack
    pc              \* where the machine, or the unwinder, is

machine == <<regs, mem, calls>>
unwinder == <<g_unwinder_available, Fdes, state, ret, loc, rules, program, caller,
              trace, expected, strayed>>
vars == <<regs, mem, calls, g_unwinder_available, Fdes, state, ret, loc, rules,
          program, caller, trace, expected, strayed, pc>>

\* An entry of a trace: an address, and whether it is behind a call.
Frame(addr, after_call) == [addr |-> addr, after_call |-> after_call]

NoState == [frame |-> [r \in Registers |-> 0], cfa_reg_idx |-> "bp",
            cfa_offset |-> 0, end |-> FALSE, signal_frame |-> FALSE]

\* The rules before any operation: the stack pointer is the CFA.
NoRules == [r \in Registers |->
    [rule |-> IF r = "sp" THEN "def_cfa" ELSE "same_value", offset |-> 0]]

Init ==
    /\ regs = [bp |-> Garbage, sp |-> StackSize, pc |-> Entry]
    /\ mem = [a \in 1 .. StackSize |-> IF a = StackSize THEN 0 ELSE Garbage]
    /\ calls = <<>>
    /\ g_unwinder_available \in BOOLEAN
    /\ Fdes \in FdeTables
    /\ state = NoState
    /\ ret = "EOK"
    /\ loc = 0 /\ rules = NoRules /\ program = <<>>
    /\ caller = "unwind_walk"
    /\ trace = <<>> /\ expected = <<>>
    /\ strayed = FALSE
    /\ pc = "run"

-----------------------------------------------------------------------------
(* The machine *)

Op == Code[regs["pc"]][1]

Arg == Code[regs["pc"]][2]

Push(v) == mem' = [mem EXCEPT ![regs["sp"] - 1] = v]

\* The words that are given back are anybody's.
Release(n) ==
    mem' = [a \in DOMAIN mem |->
        IF a \in regs["sp"] .. (regs["sp"] + n - 1) THEN Garbage ELSE mem[a]]

\* One instruction.  "capture" is arch_unwind_current_begin, below.
Step ==
    /\ pc = "run"
    /\ regs["sp"] > 2
    /\ LET next == regs["pc"] + 1
           down == regs["sp"] - 1
           up   == regs["sp"] + 1
       IN  \/ /\ Op = "nop"
              /\ regs' = [regs EXCEPT !["pc"] = next]
              /\ UNCHANGED <<mem, calls>>
           \/ /\ Op = "jump"            \* to one of several places
              /\ \E to \in Arg : regs' = [regs EXCEPT !["pc"] = to]
              /\ UNCHANGED <<mem, calls>>
           \/ /\ Op = "push"
              /\ Push(regs["bp"])
              /\ regs' = [regs EXCEPT !["pc"] = next, !["sp"] = down]
              /\ UNCHANGED calls
           \/ /\ Op = "pop"
              /\ regs' = [bp |-> mem[regs["sp"]], sp |-> up, pc |-> next]
              /\ Release(1)
              /\ UNCHANGED calls
           \/ /\ Op = "mov"             \* to the frame pointer
              /\ regs' = [regs EXCEPT !["pc"] = next, !["bp"] = regs["sp"]]
              /\ UNCHANGED <<mem, calls>>
           \/ /\ Op = "sub"             \* room for a local variable
              /\ regs' = [regs EXCEPT !["pc"] = next, !["sp"] = down]
              /\ UNCHANGED <<mem, calls>>
           \/ /\ Op = "add"
              /\ regs' = [regs EXCEPT !["pc"] = next, !["sp"] = up]
              /\ Release(1)
              /\ UNCHANGED calls
           \/ /\ Op = "call"
              /\ Push(next)
              /\ regs' = [regs EXCEPT !["pc"] = Arg, !["sp"] = down]
              /\ calls' = <<Frame(next, TRUE)>> \o calls
           \/ /\ Op = "ret"
              /\ regs' = [regs EXCEPT !["pc"] = mem[regs["sp"]], !["sp"] = up]
              /\ calls' = Tail(calls)
              /\ Release(1)
           \/ /\ Op = "iretq"
              /\ regs' = [regs EXCEPT !["pc"] = mem[regs["sp"]],
                                      !["sp"] = mem[regs["sp"] + 1]]
              /\ calls' = Tail(calls)
              /\ Release(2)
    /\ UNCHANGED <<unwinder, pc>>

\* The processor pushes rsp, rip and the AUX value; what lies between them
\* does not matter to the unwinder.
Interrupt ==
    /\ pc = "run"
    /\ regs["sp"] > 4
    /\ regs["pc"] \in Interruptible
    /\ Len(SelectSeq(calls, LAMBDA c : ~c.after_call)) < Interrupts
    /\ mem' = [mem EXCEPT ![regs["sp"] - 1] = regs["sp"],
                          ![regs["sp"] - 2] = regs["pc"],
                          ![regs["sp"] - 3] = Garbage]
    /\ regs' = [regs EXCEPT !["sp"] = regs["sp"] - 3, !["pc"] = Handler]
    /\ calls' = <<Frame(regs["pc"], FALSE)>> \o calls
    /\ UNCHANGED <<unwinder, pc>>

-----------------------------------------------------------------------------
(* The unwinder *)

unwind_get_return_address(s) == IF s.end THEN 0 ELSE s.frame["pc"]

\* Mutant: the address behind the call is looked up.
get_reliable_pc_raw(s) == unwind_get_return_address(s)

get_reliable_pc(s) ==
    unwind_get_return_address(s) - (IF s.signal_frame THEN 0 ELSE 1)

\* The last FDE that does not begin above the address; the first one if all do.
find_fde(addr) ==
    LET below == {i \in DOMAIN Fdes : Fdes[i].begin <= addr}
    IN  IF below = {} THEN Fdes[1]
        ELSE Fdes[CHOOSE i \in below : \A j \in below : j <= i]

\* Mutant: whatever FDE was found is taken.
parse_fde_unbounded(s, fde) ==
    [state |-> [s EXCEPT !.signal_frame = @ \/ fde.signal], ret |-> "EOK"]

(***************************************************************************)
(* parse_cie and parse_fde.  An 'S' in the augmentation of the CIE makes   *)
(* this a signal frame before the address is compared with the bounds.     *)
(***************************************************************************)
parse_fde(s, fde) ==
    LET t == [s EXCEPT !.signal_frame = @ \/ fde.signal]
        current_pc == get_reliable_pc(t)
    IN  [state |-> t,
         ret   |-> IF current_pc < fde.begin \/ current_pc >= fde.begin + fde.size
                   THEN "EINVAL" ELSE "EOK"]

\* out_error of unwind_next_frame; the caller looks at ret.
OutError(error) ==
    /\ state' = [state EXCEPT !.end = TRUE]
    /\ ret' = error
    /\ pc' = "return"

(***************************************************************************)
(* unwind_next_frame, up to the program of the frame: find the FDE, parse  *)
(* it, and start with NoRules.                                             *)
(***************************************************************************)
PrepareFrame ==
    /\ pc = "prepare"
    /\ LET fde == find_fde(get_reliable_pc(state))
           p   == parse_fde(state, fde)
       IN  \/ /\ state.end \/ p.ret # "EOK"
              /\ OutError("EINVAL")
              /\ UNCHANGED <<loc, rules, program>>
           \/ /\ ~state.end /\ p.ret = "EOK"
              /\ state' = [p.state EXCEPT !.signal_frame = FALSE]
              /\ loc' = fde.begin
              /\ rules' = NoRules
              /\ program' = fde.cie_code \o fde.fde_code
              /\ pc' = "exec"
              /\ UNCHANGED ret
    /\ UNCHANGED <<machine, g_unwinder_available, Fdes, caller, trace, expected, strayed>>

(***************************************************************************)
(* An iteration of dwarf_exec.  The code runs it on the program of the CIE *)
(* and then on that of the FDE.  Rules for registers that the kernel does  *)
(* not track are skipped, but the CFA may not depend on one.               *)
(***************************************************************************)
SetRule(reg, rule, offset) ==
    rules' = IF reg \in Registers
             THEN [rules EXCEPT ![reg] = [rule |-> rule, offset |-> offset]]
             ELSE rules

SetCfa(reg, offset) ==
    \/ /\ reg \in Registers
       /\ state' = [state EXCEPT !.cfa_reg_idx = reg, !.cfa_offset = offset]
       /\ UNCHANGED <<ret, pc>>
    \/ reg \notin Registers /\ OutError("EINVAL")

ExecOp(op) ==
    \/ op[1] = "nop" /\ UNCHANGED <<state, ret, loc, rules, pc>>
    \/ op[1] = "advance_loc" /\ loc' = loc + op[2]
       /\ UNCHANGED <<state, ret, rules, pc>>
    \/ op[1] = "offset" /\ SetRule(op[2], "offset", op[3])
       /\ UNCHANGED <<state, ret, loc, pc>>
    \/ op[1] = "restore" /\ SetRule(op[2], "same_value", 0)
       /\ UNCHANGED <<state, ret, loc, pc>>
    \/ op[1] = "def_cfa" /\ SetCfa(op[2], op[3]) /\ UNCHANGED <<loc, rules>>
    \/ op[1] = "def_cfa_register" /\ SetCfa(op[2], state.cfa_offset)
       /\ UNCHANGED <<loc, rules>>
    \/ op[1] = "def_cfa_offset" /\ state' = [state EXCEPT !.cfa_offset = op[2]]
       /\ UNCHANGED <<ret, loc, rules, pc>>
    \/ op[1] \notin Operations /\ OutError("ENOSYS") /\ UNCHANGED <<loc, rules>>

\* Mutant: a row that begins at the address does not count.
Reached_before == loc >= unwind_get_return_address(state)

\* The loop ends at the first row that begins above the return address.
Reached == loc > unwind_get_return_address(state)

DwarfExec ==
    /\ pc = "exec"
    /\ program # <<>> /\ ~Reached
    /\ ExecOp(Head(program))
    /\ program' = Tail(program)
    /\ UNCHANGED <<machine, g_unwinder_available, Fdes, caller, trace, expected, strayed>>

OnStack(addr) == addr \in regs["sp"] .. StackSize

Read(addr) == IF addr \in DOMAIN mem THEN mem[addr] ELSE Garbage

\* apply_reg_rules, and the rest of unwind_next_frame.
ApplyRules ==
    /\ pc = "exec"
    /\ program = <<>> \/ Reached
    /\ LET cfa == state.frame[state.cfa_reg_idx] + state.cfa_offset
           new_frame == [r \in Registers |->
               CASE rules[r].rule = "same_value" -> state.frame[r]
                 [] rules[r].rule = "offset"     -> Read(cfa - rules[r].offset)
                 [] rules[r].rule = "def_cfa"    -> cfa]
       IN  /\ state' = [state EXCEPT !.frame = new_frame, !.cfa_reg_idx = "sp",
                                     !.cfa_offset = 0,
                                     !.end = (new_frame["pc"] = 0)]
           /\ strayed' = (strayed \/ \E r \in Registers :
                  rules[r].rule = "offset" /\ ~OnStack(cfa - rules[r].offset))
    /\ ret' = "EOK"
    /\ pc' = "return"
    /\ UNCHANGED <<machine, g_unwinder_available, Fdes, loc, rules, program, caller,
                   trace, expected>>

-----------------------------------------------------------------------------
(* unwind_walk *)

Unavailable ==
    /\ ~g_unwinder_available
    /\ ret' = "ENODEV" /\ pc' = "stopped"
    /\ UNCHANGED <<state, expected, caller>>

\* unwind_walk(regs): from the registers at the time of an exception.
BeginWithRegs ==
    /\ pc = "run"
    /\ \/ Unavailable
       \/ /\ g_unwinder_available
          /\ state' = [NoState EXCEPT !.frame = regs, !.signal_frame = TRUE]
          /\ expected' = <<Frame(regs["pc"], FALSE)>> \o calls
          /\ pc' = "report"
          /\ UNCHANGED <<ret, caller>>
    /\ UNCHANGED <<machine, g_unwinder_available, Fdes, loc, rules, program, trace, strayed>>

(***************************************************************************)
(* unwind_walk(NULL) has called unwind_begin, and that has called          *)
(* arch_unwind_current_begin, which saves the registers as its caller will *)
(* see them.                                                               *)
(***************************************************************************)
BeginCurrent ==
    /\ pc = "run"
    /\ Op = "capture"
    /\ \/ Unavailable
       \/ /\ g_unwinder_available
          /\ state' = [NoState EXCEPT !.frame =
                [bp |-> regs["bp"], sp |-> regs["sp"] + 1, pc |-> mem[regs["sp"]]]]
          /\ expected' = LET returns == {i \in DOMAIN calls : calls[i].addr = WalkReturns}
                             first   == CHOOSE i \in returns : \A j \in returns : i <= j
                         IN  SubSeq(calls, first, Len(calls))
          /\ caller' = "unwind_current_begin"
          /\ pc' = "prepare"
          /\ UNCHANGED ret
    /\ UNCHANGED <<machine, g_unwinder_available, Fdes, loc, rules, program, trace, strayed>>

\* Mutant: only the address that is looked for ends the loop.
BeginNext_until_found ==
    /\ pc = "return" /\ caller = "unwind_current_begin"
    /\ IF unwind_get_return_address(state) # WalkReturns
       THEN pc' = "prepare" /\ UNCHANGED caller
       ELSE pc' = "report" /\ caller' = "unwind_walk"
    /\ UNCHANGED <<machine, g_unwinder_available, Fdes, state, ret, loc, rules, program,
                   trace, expected, strayed>>

\* The loop of unwind_current_begin, up to the caller of unwind_walk.
BeginNext ==
    /\ pc = "return" /\ caller = "unwind_current_begin"
    /\ IF ~state.end /\ unwind_get_return_address(state) # WalkReturns
       THEN pc' = "prepare" /\ UNCHANGED caller
       ELSE /\ pc' = IF ret # "EOK" THEN "done" ELSE "report"
            /\ caller' = "unwind_walk"
    /\ UNCHANGED <<machine, g_unwinder_available, Fdes, state, ret, loc, rules, program,
                   trace, expected, strayed>>

\* The callback, which may have seen enough, and the call of unwind_next_frame.
Report ==
    /\ pc = "report"
    /\ trace' = Append(trace, Frame(unwind_get_return_address(state),
                                    ~state.signal_frame))
    /\ pc' \in {"prepare", "stopped"}
    /\ UNCHANGED <<machine, g_unwinder_available, Fdes, state, ret, loc, rules, program,
                   caller, expected, strayed>>

WalkNext ==
    /\ pc = "return" /\ caller = "unwind_walk"
    /\ pc' = IF state.end THEN "done" ELSE "report"
    /\ UNCHANGED <<machine, g_unwinder_available, Fdes, state, ret, loc, rules, program,
                   caller, trace, expected, strayed>>

Unwinding == PrepareFrame \/ DwarfExec \/ ApplyRules \/ BeginNext \/ Report \/ WalkNext

Next == Step \/ Interrupt \/ BeginWithRegs \/ BeginCurrent \/ Unwinding

\* A walk that has begun goes on: nothing else runs meanwhile.
Fairness == WF_vars(Unwinding)

Spec == Init /\ [][Next]_vars /\ Fairness

-----------------------------------------------------------------------------
Addresses(frames) == [i \in DOMAIN frames |-> frames[i].addr]

(***************************************************************************)
(* The callback gets addresses that are really on the stack, in order and  *)
(* without a gap.  When the information on a function is missing or says   *)
(* what the unwinder does not understand, the walk stops; it does not go   *)
(* on with the information of another function.  An address that is said   *)
(* to be exact is exact: do_dump_frame names the symbol at such an         *)
(* address, and not the one before it.                                     *)
(***************************************************************************)
FramesAreReal ==
    /\ IsPrefix(Addresses(trace), Addresses(expected))
    /\ \A i \in DOMAIN trace : ~trace[i].after_call => ~expected[i].after_call

(***************************************************************************)
(* unwind.h: "Walk all frames of a stack".  A walk that the callback does  *)
(* not cut short gets to all of them and returns EOK.                      *)
(***************************************************************************)
WalkReportsCallStack ==
    Fdes \in FullTables =>
        /\ FramesAreReal
        /\ pc = "done" => Len(trace) = Len(expected) /\ ret = "EOK"

(***************************************************************************)
(* apply_reg_rules dereferences nothing but words of the stack that are in *)
(* use: what a frame that was left behind holds is not trusted.            *)
(***************************************************************************)
ReadsOnlyTheStack == ~strayed

\* A walk ends: no chain of frames makes unwind_walk go round.
WalkEnds == pc # "run" ~> pc \in {"stopped", "done"}
=============================================================================
