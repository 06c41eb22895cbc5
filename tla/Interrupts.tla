------------------------------ MODULE Interrupts ------------------------------
(***************************************************************************)
(* The way of an interrupt through kernel/arch/x86/interrupts.S: the thunk *)
(* of its vector, interrupt_begin, the handler in C (exceptions.c, irq.c)  *)
(* and interrupt_end, one instruction at a time, with the unwind hints     *)
(* (unwind_hints.h) that the assembler turns into call frame information.  *)
(*                                                                         *)
(* The stack is a sequence of words, the first one pushed first, so a word *)
(* is named by its distance below the CFA, the address above the frame of  *)
(* the processor.  Registers hold tokens: what they held when interrupted. *)
(***************************************************************************)
EXTENDS Integers, Sequences, SequencesExt

-----------------------------------------------------------------------------
(* Registers and struct registers *)

\* struct registers, lowest address first; "aux" is the union.
Layout == <<"r15", "r14", "r13", "r12", "rbp", "rbx",
            "r11", "r10", "r9", "r8", "rax", "rcx", "rdx", "rsi", "rdi",
            "aux", "rip", "cs", "flags", "rsp", "ss">>

Offset == [f \in ToSet(Layout) |-> (CHOOSE i \in DOMAIN Layout : Layout[i] = f) - 1]

Preserved == {"r15", "r14", "r13", "r12", "rbp", "rbx"}
Scratch == {"r11", "r10", "r9", "r8", "rax", "rcx", "rdx", "rsi", "rdi"}
GpRegs == Preserved \cup Scratch
HardwareFrame == {"rip", "cs", "flags", "rsp", "ss"}

\* What register r held when the interrupt came; other words there are.
Interrupted(r) == <<"interrupted", r>>
Word(w) == <<"word", w>>

\* push imm8 extends the sign; interrupt_idx is the lowest byte.
Imm8(n) == <<"word", IF n < 128 THEN n ELSE n - 256>>
interrupt_idx(w) == w[2] % 256

-----------------------------------------------------------------------------
(***************************************************************************)
(* Unwind hints.  The assembler keeps a row: the words between the stack   *)
(* pointer and the CFA, and for each register the word that holds its      *)
(* value, 0 when the register does.  A hint moves the CFA, says where      *)
(* registers are relative to the stack pointer as it then knows it, or     *)
(* that they hold their values again, and moves the CFA again.             *)
(***************************************************************************)
Hint(before, offsets, restored, after) ==
    [before |-> before, offsets |-> offsets, restored |-> restored, after |-> after]

Applied(row, h) ==
    LET cfa == row.cfa + h.before
    IN  [cfa   |-> cfa + h.after,
         saved |-> [r \in GpRegs \cup HardwareFrame |->
             IF r \in DOMAIN h.offsets THEN cfa - h.offsets[r]
             ELSE IF r \in h.restored THEN 0 ELSE row.saved[r]]]

NoHint == Hint(0, << >>, {}, 0)
UNWIND_HINT_AFTER_PUSH == Hint(0, << >>, {}, 1)
UNWIND_HINT_AFTER_POP == Hint(0, << >>, {}, -1)
UNWIND_HINT_AFTER_REG_PUSH(reg) == Hint(0, [r \in {reg} |-> 0], {}, 1)
UNWIND_HINT_AFTER_REG_POP(reg) == Hint(0, << >>, {reg}, -1)

\* Mutant: the caller's frame is forgotten when the CFA moves.
UNWIND_HINT_GP_REGS_unadjusted(base, adjust) ==
    Hint(0, [r \in GpRegs |-> Offset[r] + base], {}, 0)

UNWIND_HINT_GP_REGS(base, adjust) ==
    Hint(IF adjust THEN Offset["aux"] ELSE 0,
         [r \in GpRegs |-> Offset[r] + base], {}, 0)

\* The row at the start of a function with UNWIND_HINT_INTERRUPT_FRAME.
UNWIND_HINT_INTERRUPT_FRAME(extra) ==
    LET size == Len(Layout) - Offset["rip"]
    IN  [cfa   |-> size + extra,
         saved |-> [r \in GpRegs \cup HardwareFrame |->
             IF r \in GpRegs THEN 0 ELSE size - (Offset[r] - Offset["rip"])]]

-----------------------------------------------------------------------------
(***************************************************************************)
(* The code: for each function the instructions, each with the hint behind *)
(* it, and the row it starts with.                                         *)
(***************************************************************************)
Ins(op, arg, hint) == [op |-> op, arg |-> arg, hint |-> hint]

PUSH_WITH_UNWIND_HINT(r) == Ins("push", r, UNWIND_HINT_AFTER_PUSH)
POP_REG_WITH_UNWIND_HINT(r) == Ins("pop", r, UNWIND_HINT_AFTER_REG_POP(r))

\* The registers that PUSH_GP_REGS pushes behind rdi and rsi.
PUSH_GP_REGS == <<"rdx", "rcx", "rax", "r8", "r9", "r10", "r11",
                  "rbx", "rbp", "r12", "r13", "r14", "r15">>

\* Mutant: rsi is popped before rdx.
POP_GP_REGS_swapped == <<"r15", "r14", "r13", "r12", "rbp", "rbx", "r11", "r10",
                         "r9", "r8", "rax", "rcx", "rsi", "rdx", "rdi">>

POP_GP_REGS == <<"r15", "r14", "r13", "r12", "rbp", "rbx", "r11", "r10",
                 "r9", "r8", "rax", "rcx", "rdx", "rsi", "rdi">>

\* Mutant: the return address is not taken before rdi overwrites it.
interrupt_begin_overwrites ==
    <<Ins("push", "rsi", UNWIND_HINT_AFTER_REG_PUSH("rsi")),
      Ins("store_below", "rdi", NoHint)>>
    \o [i \in DOMAIN PUSH_GP_REGS |-> PUSH_WITH_UNWIND_HINT(PUSH_GP_REGS[i])]
    \o <<Ins("push", "rsi", UNWIND_HINT_AFTER_PUSH), Ins("ret", "", NoHint)>>

\* With preserve_ret_addr the return address moves through rsi to the top, and
\* rdi takes its place.  cld changes nothing that is modelled.
interrupt_begin ==
    <<Ins("push", "rsi", UNWIND_HINT_AFTER_REG_PUSH("rsi")),
      Ins("load_below", "rsi", NoHint),
      Ins("store_below", "rdi", NoHint)>>
    \o [i \in DOMAIN PUSH_GP_REGS |-> PUSH_WITH_UNWIND_HINT(PUSH_GP_REGS[i])]
    \o <<Ins("push", "rsi", Hint(1, UNWIND_HINT_GP_REGS(1, FALSE).offsets, {}, 0)),
         Ins("ret", "", NoHint)>>

interrupt_end ==
    [i \in DOMAIN POP_GP_REGS |-> POP_REG_WITH_UNWIND_HINT(POP_GP_REGS[i])]
    \o <<Ins("drop", "", UNWIND_HINT_AFTER_POP), Ins("iretq", "", NoHint)>>

\* X86_IRQ_DISPATCH_ASM and the exception trampolines differ in what they call.
trampoline ==
    <<Ins("call", "interrupt_begin", UNWIND_HINT_GP_REGS(0, TRUE)),
      Ins("mov_rdi_rsp", "", NoHint),
      Ins("call_c", "", NoHint),
      Ins("jmp", "interrupt_end", NoHint)>>

\* MAKE_EXCEPTION_HANDLER with pushes_error_code=1.
PushesErrorCode == {8, 10, 11, 12, 13, 14, 17, 21, 29, 30}

\* MAKE_RESERVED_EXCEPTION_THUNK.
Reserved == {15, 31} \cup 22 .. 27

Vectors == 0 .. 255

IsException(v) == v < 32

\* Mutant: the number of an IRQ is that of its vector.
AuxValue_vector(v) == IF IsException(v) /\ v \notin Reserved THEN 255 ELSE v

\* The aux_value of MAKE_IDT_THUNK; IRQs are counted from 0.
AuxValue(v) ==
    IF v \in Reserved THEN v ELSE IF IsException(v) THEN 255 ELSE v - 32

\* The thunk of vector v, at idt_thunks[v].
Thunk(v) ==
    (IF v \in PushesErrorCode THEN << >>
     ELSE <<Ins("push_imm8", AuxValue(v), UNWIND_HINT_AFTER_PUSH)>>)
    \o <<Ins("jmp", "trampoline", NoHint)>>

Text(function, v) ==
    IF function = "thunk" THEN Thunk(v)
    ELSE IF function = "trampoline" THEN trampoline
    ELSE IF function = "interrupt_begin" THEN interrupt_begin
    ELSE interrupt_end

FirstRow(function, v) ==
    UNWIND_HINT_INTERRUPT_FRAME(
        IF function = "thunk" THEN IF v \in PushesErrorCode THEN 1 ELSE 0
        ELSE IF function = "trampoline" THEN 1
        ELSE IF function = "interrupt_begin" THEN 2
        ELSE Offset["rip"])

\* interrupt_end starts with UNWIND_HINT_GP_REGS behind the frame's hint.
StartRow(function, v) ==
    IF function = "interrupt_end"
    THEN Applied(FirstRow(function, v), UNWIND_HINT_GP_REGS(0, FALSE))
    ELSE FirstRow(function, v)

-----------------------------------------------------------------------------
VARIABLES
    vector,     \* the vector that was delivered
    function,   \* the function that runs, or "interrupted" or "panic"
    index,      \* of the next instruction in it
    regs,       \* the general purpose registers
    stack,      \* the words below the CFA
    row,        \* the unwind row in force at the next instruction
    caller_row  \* the one behind the call of interrupt_begin

vars == <<vector, function, index, regs, stack, row, caller_row>>

NoRow == UNWIND_HINT_INTERRUPT_FRAME(0)

Init ==
    /\ vector = 0 /\ function = "interrupted" /\ index = 1
    /\ regs = [r \in GpRegs |-> Interrupted(r)]
    /\ stack = << >>
    /\ row = NoRow /\ caller_row = NoRow

\* The instruction that is next.
Instruction == Text(function, vector)[index]

Running == function \notin {"interrupted", "panic"}

Is(op) == Running /\ Instruction.op = op

Top == stack[Len(stack)]
Pop == SubSeq(stack, 1, Len(stack) - 1)

\* On to the next instruction of the function.
GoOn ==
    /\ index' = index + 1
    /\ row' = Applied(row, Instruction.hint)
    /\ UNCHANGED <<vector, function, caller_row>>

GoTo(f) ==
    /\ function' = f
    /\ index' = 1
    /\ row' = StartRow(f, vector)
    /\ UNCHANGED vector

\* The processor's part: exceptions 8, 10 to 14, 17, 21, 29 and 30 have an error
\* code, and the gate is that of the vector's thunk.
Deliver(v) ==
    /\ function = "interrupted"
    /\ vector' = v
    /\ function' = "thunk"
    /\ index' = 1
    /\ row' = StartRow("thunk", v)
    /\ stack' = [i \in 1 .. 5 |-> Interrupted(Layout[Len(Layout) + 1 - i])]
                \o IF v \in {8, 17, 21, 29, 30} \cup 10 .. 14
                   THEN <<Word("error")>> ELSE << >>
    /\ UNCHANGED <<regs, caller_row>>

\* Instructions that only move words.
Move ==
    /\ \/ /\ Is("push")
          /\ stack' = Append(stack, regs[Instruction.arg])
          /\ UNCHANGED regs
       \/ /\ Is("push_imm8")
          /\ stack' = Append(stack, Imm8(Instruction.arg))
          /\ UNCHANGED regs
       \/ /\ Is("pop")
          /\ regs' = [regs EXCEPT ![Instruction.arg] = Top]
          /\ stack' = Pop
       \/ /\ Is("drop")
          /\ stack' = Pop
          /\ UNCHANGED regs
       \/ /\ Is("load_below")
          /\ regs' = [regs EXCEPT ![Instruction.arg] = stack[Len(stack) - 1]]
          /\ UNCHANGED stack
       \/ /\ Is("store_below")
          /\ stack' = [stack EXCEPT ![Len(stack) - 1] = regs[Instruction.arg]]
          /\ UNCHANGED regs
       \/ /\ Is("mov_rdi_rsp")
          /\ regs' = [regs EXCEPT !["rdi"] = <<"rsp", Len(stack)>>]
          /\ UNCHANGED stack
    /\ GoOn

Jump ==
    /\ Is("jmp")
    /\ GoTo(Instruction.arg)
    /\ UNCHANGED <<regs, stack, caller_row>>

Call ==
    /\ Is("call")
    /\ GoTo(Instruction.arg)
    /\ stack' = Append(stack, Word("return"))
    /\ caller_row' = Applied(row, Instruction.hint)
    /\ UNCHANGED regs

Return ==
    /\ Is("ret") /\ Top = Word("return")
    /\ function' = "trampoline"
    /\ index' = 2
    /\ stack' = Pop
    /\ row' = caller_row
    /\ UNCHANGED <<vector, regs, caller_row>>

\* The handler of every exception panics.
HandleException ==
    /\ Is("call_c") /\ IsException(vector)
    /\ function' = "panic"
    /\ UNCHANGED <<vector, index, regs, stack, row, caller_row>>

\* irq_dispatch prints and returns; the scratch registers are anything then.
irq_dispatch ==
    /\ Is("call_c") /\ ~IsException(vector)
    /\ regs' = [r \in GpRegs |-> IF r \in Scratch THEN Word("any") ELSE regs[r]]
    /\ GoOn
    /\ UNCHANGED stack

\* iretq loads rip, cs, flags, rsp and ss from the frame.
Iretq ==
    /\ Is("iretq") /\ Len(stack) = 5
    /\ function' = "interrupted"
    /\ vector' = 0
    /\ index' = 1
    /\ stack' = << >>
    /\ row' = NoRow /\ caller_row' = NoRow
    /\ UNCHANGED regs

Steps == Move \/ Jump \/ Call \/ Return \/ HandleException \/ irq_dispatch \/ Iretq

Next == (\E v \in Vectors : Deliver(v)) \/ Steps

\* The processor goes on with the handler; whether an interrupt comes is open.
Spec == Init /\ [][Next]_vars /\ WF_vars(Steps)

-----------------------------------------------------------------------------
(***************************************************************************)
(* What the unwinder makes of the hints, at the next instruction.          *)
(***************************************************************************)

\* The word of the stack that the row names for a register: the CFA is where
\* the row says, counted from the real stack pointer.
Slot(r) == row.saved[r] + Len(stack) - row.cfa

Found(r) ==
    IF row.saved[r] = 0 THEN regs[r]
    ELSE IF Slot(r) \in DOMAIN stack THEN stack[Slot(r)] ELSE Word("outside")

(***************************************************************************)
(* An interrupt handler may itself be interrupted, by an NMI or a fault,   *)
(* at any instruction: the hints then lead the stack trace from there to   *)
(* the interrupted code, with its instruction and stack pointers and the   *)
(* registers that its own rows may be relative to.                         *)
(***************************************************************************)
TraceGoesThrough ==
    Running => \A r \in Preserved \cup {"rip", "rsp"} : Found(r) = Interrupted(r)

(***************************************************************************)
(* The same of every register.                                             *)
(***************************************************************************)
EveryRegisterIsFound ==
    Running => \A r \in GpRegs \cup HardwareFrame : Found(r) = Interrupted(r)

(***************************************************************************)
(* A handler in C is passed a struct registers with the values of the      *)
(* interrupted code in the fields of their names, whatever the processor   *)
(* pushed, and the error code or the number of the interrupt between them. *)
(***************************************************************************)
HandlerSeesRegisters ==
    Is("call_c") =>
        LET field(f) == stack[regs["rdi"][2] - Offset[f]]
        IN  /\ regs["rdi"][1] = "rsp"
            /\ \A f \in GpRegs \cup HardwareFrame : field(f) = Interrupted(f)
            /\ IF vector \in PushesErrorCode THEN field("aux") = Word("error")
               ELSE IF vector >= 32 THEN interrupt_idx(field("aux")) = vector - 32
               ELSE vector \in Reserved => interrupt_idx(field("aux")) = vector

(***************************************************************************)
(* When the interrupted code runs again it has all its registers, and the  *)
(* frame that iretq loaded was its own.                                    *)
(***************************************************************************)
NothingIsLost ==
    /\ function = "interrupted" => \A r \in GpRegs : regs[r] = Interrupted(r)
    /\ Is("iretq") => stack = [i \in 1 .. 5 |-> Interrupted(Layout[Len(Layout) + 1 - i])]

\* An interrupt that has come is handled: the kernel panics or goes on.
IsHandled == Running ~> ~Running
=============================================================================
