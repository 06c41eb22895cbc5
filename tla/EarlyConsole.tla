----------------------------- MODULE EarlyConsole ----------------------------
(***************************************************************************)
(* The kernel's one early way to say something: the parameter earlycon     *)
(* (kernel/arch/x86/earlycon.c) registers and unregisters the console of   *)
(* port 0xE9 (kernel/console.c), which writes to a window of I/O ports     *)
(* (kernel/io.c).  Every message goes through the list of consoles         *)
(* (kernel/log.c), and a panic prints messages too (kernel/panic.c).       *)
(* Module Boot makes the calls.                                            *)
(*                                                                         *)
(* There is one thread.  A message that is being printed and a panic that  *)
(* is under way are frames of its stack.                                   *)
(***************************************************************************)
EXTENDS Integers, Sequences, FiniteSets

CONSTANT MaxDepth   \* bound: the frames that a stack trace prints

EOK == "EOK"
ENOMEM == "ENOMEM"
EBUSY == "EBUSY"
EINVAL == "EINVAL"

NULL == 0

\* "other" is any value that is rejected, the empty one included.
Modes == {"none", "e9", "other"}

VARIABLES
    is_in_hyperv,   \* what cpuid says, constant
    port_e9,        \* whether reading port 0xE9 returns 0xE9, constant
    hardened,       \* whether the build defines ULTRA_HARDENED_IO, constant
    listed,         \* whether consoles points to e9_console
    priv,           \* e9_console.priv: NULL or a window
    g_earlycon,     \* "none" or "e9"
    g_in_panic,
    g_unwinder_available,
    depth,          \* struct dump_state
    stack           \* what runs, innermost last

machine == <<is_in_hyperv, port_e9, hardened>>
console == <<listed, priv, g_earlycon>>
log == <<machine, console, g_in_panic, g_unwinder_available, depth, stack>>

LogInit ==
    /\ is_in_hyperv \in BOOLEAN /\ port_e9 \in BOOLEAN /\ hardened \in BOOLEAN
    /\ listed = FALSE
    /\ priv = NULL
    /\ g_earlycon = "none"
    /\ g_in_panic = FALSE
    /\ g_unwinder_available = FALSE
    /\ depth = 0
    /\ stack = <<"boot">>

Top == stack[Len(stack)]

\* The stack with another frame on it, or with the innermost one replaced.
Pushed(frame) == Append(stack, frame)
Replaced(frame) == [stack EXCEPT ![Len(stack)] = frame]
Popped == SubSeq(stack, 1, Len(stack) - 1)

-----------------------------------------------------------------------------
(***************************************************************************)
(* Windows of I/O ports.  One is an address below all memory, that of its  *)
(* first port above ULTRA_ARCH_PORT_IO_WINDOW_OFFSET.  The hardened build  *)
(* allocates a structure instead, and the heap is a stub that never has    *)
(* memory.  Windows of memory are not supported yet.                       *)
(***************************************************************************)
PORT_IO_WINDOW_OFFSET == 65536
PORT_IO_WINDOW_LEN == 65535
PORT_IO_WINDOW_END == PORT_IO_WINDOW_OFFSET + PORT_IO_WINDOW_LEN + 1

io_window_map_pio(base) ==
    IF base + PORT_IO_WINDOW_OFFSET >= PORT_IO_WINDOW_END THEN [ret |-> EINVAL, iow |-> NULL]
    ELSE IF hardened THEN [ret |-> ENOMEM, iow |-> NULL]
    ELSE [ret |-> EOK, iow |-> base + PORT_IO_WINDOW_OFFSET]

io_window_get_type(iow) ==
    IF iow >= PORT_IO_WINDOW_END THEN "MEM_IO"
    ELSE IF iow < PORT_IO_WINDOW_OFFSET THEN "INVALID" ELSE "PORT_IO"

\* Behind its BUG_ONs, which hold of a window of this type.
port_io_window_get_port(iow, offset) == iow - PORT_IO_WINDOW_OFFSET + offset

-----------------------------------------------------------------------------
(***************************************************************************)
(* Setting the parameter.                                                  *)
(***************************************************************************)
E9 == 233

\* Mutant: the window is kept although the console was not registered.
e9_console_init_keeps_window(l, p) ==
    LET w == io_window_map_pio(E9)
    IN  IF ~is_in_hyperv THEN [ret |-> EOK, listed |-> l, priv |-> p]
        ELSE IF w.ret # EOK THEN [ret |-> w.ret, listed |-> l, priv |-> p]
        ELSE IF ~port_e9 THEN [ret |-> EOK, listed |-> l, priv |-> w.iow]
        ELSE IF l THEN [ret |-> EBUSY, listed |-> l, priv |-> w.iow]
        ELSE [ret |-> EOK, listed |-> TRUE, priv |-> w.iow]

(***************************************************************************)
(* e9_console_init, as [ret, listed, priv].  Outside a hypervisor, or when *)
(* the port does not answer, it does nothing and succeeds.                 *)
(* register_console puts e9_console on the empty list, and refuses it with *)
(* EBUSY when it is there already.                                         *)
(***************************************************************************)
e9_console_init(l, p) ==
    LET w == io_window_map_pio(E9)
    IN  IF ~is_in_hyperv THEN [ret |-> EOK, listed |-> l, priv |-> p]
        ELSE IF w.ret # EOK THEN [ret |-> w.ret, listed |-> l, priv |-> p]
        ELSE IF ~port_e9 THEN [ret |-> EOK, listed |-> l, priv |-> NULL]
        ELSE IF l THEN [ret |-> EBUSY, listed |-> l, priv |-> NULL]
        ELSE [ret |-> EOK, listed |-> TRUE, priv |-> w.iow]

\* unregister_console of the only console, the first of its list: it is found
\* or it is not, and stays where it is.
earlycon_destroy ==
    IF g_earlycon # "e9" THEN EOK ELSE IF listed THEN EOK ELSE EINVAL

earlycon_set(mode) ==
    LET e == e9_console_init(listed, priv)
    IN  IF earlycon_destroy # EOK
        THEN [ret |-> earlycon_destroy, listed |-> listed, priv |-> priv,
              mode |-> g_earlycon]
        ELSE IF mode = "none"
        THEN [ret |-> EOK, listed |-> listed, priv |-> priv, mode |-> "none"]
        ELSE IF mode = "e9"
        THEN [ret |-> e.ret, listed |-> e.listed, priv |-> e.priv,
              mode |-> IF e.ret = EOK THEN "e9" ELSE g_earlycon]
        ELSE [ret |-> EINVAL, listed |-> listed, priv |-> priv,
              mode |-> g_earlycon]

(***************************************************************************)
(* cmdline_parse meets earlycon=mode.  It prints the error; earlycon_set   *)
(* itself says when it has chosen the console.                             *)
(***************************************************************************)
SetEarlycon(mode) ==
    /\ LET s == earlycon_set(mode)
       IN  /\ listed' = s.listed
           /\ priv' = s.priv
           /\ g_earlycon' = s.mode
           /\ stack' = IF s.ret # EOK \/ mode = "e9" THEN Pushed("print") ELSE stack
    /\ UNCHANGED <<machine, g_in_panic, g_unwinder_available, depth>>

-----------------------------------------------------------------------------
(***************************************************************************)
(* Printing.                                                               *)
(***************************************************************************)

\* do_write_many finds that the window is of no type, and calls BUG().
WriteFails == listed /\ io_window_get_type(priv) = "INVALID"

\* vprint: console_write has no console to call, or writes to its port.
PrintReturns ==
    /\ Top = "print" /\ ~WriteFails
    /\ stack' = Popped
    /\ UNCHANGED <<machine, console, g_in_panic, g_unwinder_available, depth>>

WriteBug ==
    /\ Top = "print" /\ WriteFails
    /\ stack' = Pushed("panic")
    /\ UNCHANGED <<machine, console, g_in_panic, g_unwinder_available, depth>>

-----------------------------------------------------------------------------
(***************************************************************************)
(* Panicking.                                                              *)
(***************************************************************************)

\* Mutant: the flag is set but not looked at.
EnterPanic_again ==
    /\ Top = "panic"
    /\ g_in_panic' = TRUE
    /\ stack' = Append(Replaced("panic_said"), "print")
    /\ UNCHANGED <<machine, console, g_unwinder_available, depth>>

\* Mutant: a panic inside a panic returns to its caller.
EnterPanic_returns ==
    /\ Top = "panic"
    /\ g_in_panic' = TRUE
    /\ stack' = IF g_in_panic THEN Popped
                              ELSE Append(Replaced("panic_said"), "print")
    /\ UNCHANGED <<machine, console, g_unwinder_available, depth>>

\* The first panic says why and dumps the stack; one inside it only hangs.
EnterPanic ==
    /\ Top = "panic"
    /\ g_in_panic' = TRUE
    /\ stack' = IF g_in_panic THEN Replaced("hang")
                              ELSE Append(Replaced("panic_said"), "print")
    /\ UNCHANGED <<machine, console, g_unwinder_available, depth>>

\* dump_stack prints a heading,
DumpStack ==
    /\ Top = "panic_said"
    /\ depth' = 0
    /\ stack' = Append(Replaced("panic_dumping"), "print")
    /\ UNCHANGED <<machine, console, g_in_panic, g_unwinder_available>>

\* and do_dump_frame a line per frame that the unwinder finds, if there is one.
DumpFrame ==
    /\ Top = "panic_dumping" /\ g_unwinder_available /\ depth < MaxDepth
    /\ depth' = depth + 1
    /\ stack' = Pushed("print")
    /\ UNCHANGED <<machine, console, g_in_panic, g_unwinder_available>>

\* Mutant: panic returns.
Hang_returns ==
    /\ Top = "panic_dumping"
    /\ stack' = Popped
    /\ UNCHANGED <<machine, console, g_in_panic, g_unwinder_available, depth>>

\* The walk has ended, or could not begin.
Hang ==
    /\ Top = "panic_dumping"
    /\ stack' = Replaced("hang")
    /\ UNCHANGED <<machine, console, g_in_panic, g_unwinder_available, depth>>

LogSteps == PrintReturns \/ WriteBug \/ EnterPanic \/ DumpStack \/ DumpFrame \/ Hang

-----------------------------------------------------------------------------
(***************************************************************************)
(* A window that is mapped belongs to a console that is on the list: the   *)
(* error paths of e9_console_init give it back.  What is written to it     *)
(* goes to port 0xE9.                                                      *)
(***************************************************************************)
WindowIsInUse ==
    priv # NULL => /\ listed
                   /\ io_window_get_type(priv) = "PORT_IO"
                   /\ port_io_window_get_port(priv, 0) = E9

(***************************************************************************)
(* The reason of a panic is said once, by the first panic: a panic that    *)
(* its own messages or an exception cause does not print, and so does not  *)
(* overwrite panic_buf or print the reason of another.                     *)
(***************************************************************************)
ReasonSaidOnce ==
    Cardinality({i \in DOMAIN stack : stack[i] \in {"panic_said", "panic_dumping"}}) <= 1

(***************************************************************************)
(* The BUG() of do_write_many is not reached: a console that messages are  *)
(* written to has a window.                                                *)
(***************************************************************************)
ConsoleHasWindow == ~(Top = "print" /\ WriteFails)
=============================================================================
