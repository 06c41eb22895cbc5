------------------------------ MODULE BootProofs ------------------------------
(***************************************************************************)
(* The early kernel, for every list of attributes that a loader passes,    *)
(* every command line, and any number of messages, panics and exceptions.  *)
(***************************************************************************)
EXTENDS Boot, FiniteSetTheorems, TLAPS

-----------------------------------------------------------------------------
(***************************************************************************)
(* The stack.  A panic that has begun leaves a frame that is never popped. *)
(***************************************************************************)
Frames == {"boot", "print", "panic", "panic_said", "panic_dumping", "hang", "reset"}

SayingFrames == {"panic_said", "panic_dumping"}
PanicFrames == SayingFrames \cup {"hang"}

\* Stack s, with p for g_in_panic: the boot code is at the bottom only, a panic
\* is on the stack, and one frame at most is that of a panic that speaks.
GoodStack(s, p) ==
    /\ s \in Seq(Frames) /\ Len(s) >= 1 /\ s[1] = "boot"
    /\ \A i \in 2 .. Len(s) : s[i] # "boot"
    /\ p => \E i \in 2 .. Len(s) : s[i] \in PanicFrames
    /\ \A i \in 1 .. Len(s) : s[i] \in SayingFrames => p
    /\ \A i, j \in 1 .. Len(s) : s[i] \in SayingFrames /\ s[j] \in SayingFrames => i = j

LEMMA PushGood ==
    ASSUME NEW s, NEW p \in BOOLEAN, GoodStack(s, p),
           NEW f \in {"print", "panic", "reset"}
    PROVE  GoodStack(Append(s, f), p)
  <1>1. /\ s \in Seq(Frames) /\ Len(s) \in Nat /\ Len(s) >= 1
        /\ f \in Frames /\ f # "boot" /\ f \notin SayingFrames
    BY DEF GoodStack, Frames, SayingFrames
  <1> DEFINE t == Append(s, f)
  <1>2. /\ t \in Seq(Frames) /\ Len(t) = Len(s) + 1 /\ t[Len(s) + 1] = f
        /\ \A i \in 1 .. Len(s) : t[i] = s[i]
    BY <1>1
  <1> HIDE DEF t
  <1>3. \A i \in 1 .. Len(t) : i \in 1 .. Len(s) \/ i = Len(s) + 1
    BY <1>1, <1>2
  <1>4. \A i \in 1 .. Len(t) : t[i] \in SayingFrames => i \in 1 .. Len(s) /\ s[i] \in SayingFrames
    BY <1>1, <1>2, <1>3
  <1>5. \A i \in 2 .. Len(t) : t[i] # "boot"
    BY <1>1, <1>2 DEF GoodStack
  <1>6. p => \E i \in 2 .. Len(t) : t[i] \in PanicFrames
    BY <1>1, <1>2 DEF GoodStack
  <1>7. t[1] = "boot" /\ Len(t) >= 1
    BY <1>1, <1>2 DEF GoodStack
  <1> QED
    BY <1>2, <1>4, <1>5, <1>6, <1>7 DEF GoodStack, t

LEMMA PopGood ==
    ASSUME NEW s, NEW p \in BOOLEAN, GoodStack(s, p), s[Len(s)] = "print"
    PROVE  GoodStack(SubSeq(s, 1, Len(s) - 1), p)
  <1>1. s \in Seq(Frames) /\ Len(s) \in Nat /\ Len(s) >= 1 /\ s[1] = "boot"
    BY DEF GoodStack
  <1>2. Len(s) >= 2
    BY <1>1
  <1> DEFINE n == Len(s) - 1
             t == SubSeq(s, 1, n)
  <1>3. n \in Nat /\ n >= 1 /\ n + 1 = Len(s)
    BY <1>1, <1>2
  <1>4. t \in Seq(Frames) /\ Len(t) = n /\ \A i \in 1 .. n : t[i] = s[i]
    BY <1>1, <1>3
  <1> HIDE DEF t, n
  <1>5. \A i \in 1 .. n : i \in 1 .. Len(s)
    BY <1>3
  <1>6. "print" \notin PanicFrames
    BY DEF PanicFrames, SayingFrames
  <1>7. p => \E i \in 2 .. n : t[i] \in PanicFrames
    <2> SUFFICES ASSUME p PROVE \E i \in 2 .. n : t[i] \in PanicFrames
      OBVIOUS
    <2>1. PICK i \in 2 .. Len(s) : s[i] \in PanicFrames
      BY DEF GoodStack
    <2>2. i # Len(s)
      BY <1>6, <2>1
    <2>3. i \in 2 .. n /\ i \in 1 .. n
      BY <1>3, <2>1, <2>2
    <2> QED
      BY <1>4, <2>1, <2>3
  <1>8. \A i \in 2 .. n : t[i] # "boot"
    BY <1>3, <1>4 DEF GoodStack
  <1>9. t[1] = "boot"
    BY <1>1, <1>3, <1>4, SMTT(30)
  <1> QED
    BY <1>3, <1>4, <1>5, <1>7, <1>8, <1>9 DEF GoodStack, t, n

\* The innermost frame becomes one of a panic, the only one that speaks if it does.
LEMMA PanicGood ==
    ASSUME NEW s, NEW p \in BOOLEAN, GoodStack(s, p), s[Len(s)] # "boot",
           NEW f \in PanicFrames, f \in SayingFrames => ~p \/ s[Len(s)] \in SayingFrames
    PROVE  GoodStack([s EXCEPT ![Len(s)] = f], TRUE)
  <1>1. s \in Seq(Frames) /\ Len(s) \in Nat /\ Len(s) >= 1 /\ s[1] = "boot"
    BY DEF GoodStack
  <1>2. Len(s) >= 2 /\ Len(s) # 1
    BY <1>1
  <1> DEFINE n == Len(s)
             t == [s EXCEPT ![n] = f]
  <1>3. f \in Frames /\ f # "boot"
    BY DEF PanicFrames, SayingFrames, Frames
  <1>4. /\ t \in Seq(Frames) /\ Len(t) = n /\ t[n] = f
        /\ \A i \in 1 .. n : i # n => t[i] = s[i]
    BY <1>1, <1>3
  <1> HIDE DEF t
  <1>5. \E i \in 2 .. n : t[i] \in PanicFrames
    BY <1>1, <1>2, <1>4
  <1>6. \A i \in 2 .. n : t[i] # "boot"
    BY <1>1, <1>3, <1>4 DEF GoodStack
  <1>7. t[1] = "boot"
    BY <1>1, <1>2, <1>4
  <1>8. ASSUME NEW i \in 1 .. n, NEW j \in 1 .. n,
               t[i] \in SayingFrames, t[j] \in SayingFrames, i # j
        PROVE  FALSE
    <2>1. ASSUME NEW k \in 1 .. n, k # n, t[k] \in SayingFrames, f \in SayingFrames
          PROVE  FALSE
      <3>1. s[k] \in SayingFrames /\ k \in 1 .. Len(s) /\ Len(s) \in 1 .. Len(s)
        BY <1>1, <1>4, <2>1
      <3>2. p
        BY <3>1 DEF GoodStack
      <3>3. s[Len(s)] \in SayingFrames
        BY <2>1, <3>2
      <3> QED
        BY <2>1, <3>1, <3>3 DEF GoodStack
    <2>2. CASE i = n
      BY <1>4, <1>8, <2>1, <2>2
    <2>3. CASE j = n
      BY <1>4, <1>8, <2>1, <2>3
    <2>4. CASE i # n /\ j # n
      BY <1>4, <1>8, <2>4 DEF GoodStack
    <2> QED
      BY <2>2, <2>3, <2>4
  <1> QED
    BY <1>1, <1>4, <1>5, <1>6, <1>7, <1>8, ZenonT(40) DEF GoodStack, t

-----------------------------------------------------------------------------
(***************************************************************************)
(* The steps, by what they do to the stack.                                *)
(***************************************************************************)

\* The boot code runs when nothing else does, and calls at most one function.
LEMMA BootStepFacts ==
    ASSUME BootSteps
    PROVE  /\ Top = "boot" /\ g_in_panic' = g_in_panic
           /\ \/ stack' = stack
              \/ stack' = Append(stack, "print")
              \/ stack' = Append(stack, "panic")
  <1>1. CASE x86_entry
    BY <1>1 DEF x86_entry, In, Quiet, log
  <1>2. CASE SayBanner
    BY <1>2 DEF SayBanner, In, Say, Pushed
  <1>3. CASE arch_init_early
    BY <1>3 DEF arch_init_early, In, Quiet, log
  <1>4. CASE ExtractAttribute
    BY <1>4 DEF ExtractAttribute, In, Quiet, log, Say, Pushed
  <1>5. CASE MissingAttribute
    BY <1>5 DEF MissingAttribute, In, Pushed
  <1>6. CASE SetDirectMap
    BY <1>6 DEF SetDirectMap, In, Quiet, log
  <1>7. CASE cmdline_parse
    BY <1>7 DEF cmdline_parse, In, SetEarlycon, Pushed
  <1>8. CASE cmdline_parsed
    BY <1>8 DEF cmdline_parsed, In, Quiet, log
  <1>9. CASE SayMessages
    BY <1>9 DEF SayMessages, In, Say, Pushed
  <1>10. CASE unwind_init
    BY <1>10 DEF unwind_init, In, Pushed
  <1>11. CASE boot_alloc_init
    BY <1>11 DEF boot_alloc_init, In, Quiet, log, Say, Pushed
  <1> QED
    BY <1>1, <1>2, <1>3, <1>4, <1>5, <1>6, <1>7, <1>8, <1>9, <1>10, <1>11 DEF BootSteps

StackInv == g_in_panic \in BOOLEAN /\ GoodStack(stack, g_in_panic)

LEMMA LogStepKeeps ==
    ASSUME StackInv, LogSteps
    PROVE  StackInv' /\ UNCHANGED console
  <1> DEFINE s == stack
             p == g_in_panic
  <1>1. p \in BOOLEAN /\ GoodStack(s, p)
    BY DEF StackInv
  <1>2. s \in Seq(Frames) /\ Len(s) \in Nat /\ Len(s) >= 1 /\ Len(s) \in 1 .. Len(s)
    BY <1>1 DEF GoodStack
  <1>3. /\ "panic_said" \in PanicFrames /\ "panic_dumping" \in PanicFrames
        /\ "hang" \in PanicFrames /\ "hang" \notin SayingFrames
        /\ "panic_said" \in SayingFrames /\ "panic_dumping" \in SayingFrames
        /\ "print" # "boot" /\ "panic" # "boot" /\ "panic_said" # "boot"
        /\ "panic_dumping" # "boot"
    BY DEF PanicFrames, SayingFrames
  <1>4. CASE PrintReturns
    <2>1. s[Len(s)] = "print" /\ stack' = SubSeq(s, 1, Len(s) - 1) /\ g_in_panic' = p
      BY <1>4 DEF PrintReturns, Popped, Top
    <2>2. GoodStack(stack', p)
      BY <1>1, <2>1, PopGood
    <2> QED
      BY <1>1, <1>4, <2>1, <2>2 DEF StackInv, PrintReturns
  <1>5. CASE WriteBug
    <2>1. stack' = Append(s, "panic") /\ g_in_panic' = p
      BY <1>5 DEF WriteBug, Pushed
    <2>2. GoodStack(stack', p)
      BY <1>1, <2>1, PushGood
    <2> QED
      BY <1>1, <1>5, <2>1, <2>2 DEF StackInv, WriteBug
  <1>6. CASE EnterPanic
    <2>1. /\ s[Len(s)] = "panic" /\ g_in_panic' = TRUE
          /\ stack' = IF p THEN [s EXCEPT ![Len(s)] = "hang"]
                      ELSE Append([s EXCEPT ![Len(s)] = "panic_said"], "print")
      BY <1>6 DEF EnterPanic, Replaced, Top
    <2>2. CASE p
      <3>1. GoodStack([s EXCEPT ![Len(s)] = "hang"], TRUE)
        BY <1>1, <1>3, <2>1, PanicGood
      <3> QED
        BY <1>6, <2>1, <2>2, <3>1 DEF StackInv, EnterPanic
    <2>3. CASE ~p
      <3> DEFINE t == [s EXCEPT ![Len(s)] = "panic_said"]
      <3>1. GoodStack(t, TRUE)
        BY <1>1, <1>3, <2>1, <2>3, PanicGood
      <3> HIDE DEF t
      <3>2. GoodStack(Append(t, "print"), TRUE)
        BY <3>1, PushGood
      <3>3. stack' = Append(t, "print")
        BY <2>1, <2>3 DEF t
      <3> QED
        BY <1>6, <2>1, <3>2, <3>3 DEF StackInv, EnterPanic
    <2> QED
      BY <1>1, <2>2, <2>3
  <1>7. CASE DumpStack
    <2> DEFINE t == [s EXCEPT ![Len(s)] = "panic_dumping"]
    <2>1. s[Len(s)] = "panic_said" /\ g_in_panic' = p /\ stack' = Append(t, "print")
      BY <1>7 DEF DumpStack, Replaced, Top
    <2>2. GoodStack(t, TRUE)
      BY <1>1, <1>3, <2>1, PanicGood
    <2>3. p = TRUE
      BY <1>1, <1>2, <1>3, <2>1 DEF GoodStack
    <2> HIDE DEF t
    <2>4. GoodStack(Append(t, "print"), TRUE)
      BY <2>2, PushGood
    <2> QED
      BY <1>7, <2>1, <2>3, <2>4 DEF StackInv, DumpStack
  <1>8. CASE DumpFrame
    <2>1. stack' = Append(s, "print") /\ g_in_panic' = p
      BY <1>8 DEF DumpFrame, Pushed
    <2>2. GoodStack(stack', p)
      BY <1>1, <2>1, PushGood
    <2> QED
      BY <1>1, <1>8, <2>1, <2>2 DEF StackInv, DumpFrame
  <1>9. CASE Hang
    <2>1. /\ s[Len(s)] = "panic_dumping" /\ g_in_panic' = p
          /\ stack' = [s EXCEPT ![Len(s)] = "hang"]
      BY <1>9 DEF Hang, Replaced, Top
    <2>2. GoodStack(stack', TRUE)
      BY <1>1, <1>3, <2>1, PanicGood
    <2>3. p = TRUE
      BY <1>1, <1>2, <1>3, <2>1 DEF GoodStack
    <2> QED
      BY <1>9, <2>1, <2>2, <2>3 DEF StackInv, Hang
  <1> QED
    BY <1>4, <1>5, <1>6, <1>7, <1>8, <1>9 DEF LogSteps

LEMMA InitStackInv == Init => StackInv
  <1> SUFFICES ASSUME Init PROVE StackInv
    OBVIOUS
  <1>1. stack = <<"boot">> /\ g_in_panic = FALSE
    BY DEF Init, LogInit
  <1>2. "boot" \in Frames /\ "boot" \notin SayingFrames
    BY DEF Frames, SayingFrames
  <1>3. stack \in Seq(Frames) /\ Len(stack) = 1 /\ stack[1] = "boot"
    BY <1>1, <1>2
  <1>4. \A i \in 1 .. Len(stack) : stack[i] \notin SayingFrames
    BY <1>2, <1>3
  <1>5. \A i \in 2 .. Len(stack) : FALSE
    BY <1>3
  <1>6. Len(stack) >= 1
    BY <1>3
  <1>7. GoodStack(stack, FALSE)
    BY <1>3, <1>4, <1>5, <1>6, Zenon DEF GoodStack
  <1> QED
    BY <1>1, <1>7 DEF StackInv

LEMMA NextStackInv == StackInv /\ [Next]_vars => StackInv'
  <1> SUFFICES ASSUME StackInv, [Next]_vars PROVE StackInv'
    OBVIOUS
  <1>1. g_in_panic \in BOOLEAN /\ GoodStack(stack, g_in_panic)
    BY DEF StackInv
  <1>2. CASE BootSteps
    BY <1>1, <1>2, BootStepFacts, PushGood DEF StackInv
  <1>3. CASE LogSteps
    BY <1>3, LogStepKeeps
  <1>4. CASE Exception
    <2>1. /\ g_in_panic' = g_in_panic
          /\ stack' = Append(stack, "panic") \/ stack' = Append(stack, "reset")
      BY <1>4 DEF Exception, Pushed
    <2> QED
      BY <1>1, <2>1, PushGood DEF StackInv
  <1>5. CASE UNCHANGED vars
    <2>1. stack' = stack /\ g_in_panic' = g_in_panic
      BY <1>5 DEF vars, log
    <2> QED
      BY <1>1, <2>1 DEF StackInv
  <1> QED
    BY <1>2, <1>3, <1>4, <1>5 DEF Next, KernelSteps

(***************************************************************************)
(* However messages, panics inside messages and exceptions inside panics   *)
(* nest, the reason that panic() formats into panic_buf is printed by one  *)
(* panic only.                                                             *)
(***************************************************************************)
THEOREM OnePanicSpeaks == Spec => []ReasonSaidOnce
  <1>1. StackInv => ReasonSaidOnce
    <2> SUFFICES ASSUME StackInv PROVE ReasonSaidOnce
      OBVIOUS
    <2> DEFINE S == {i \in DOMAIN stack : stack[i] \in SayingFrames}
    <2>1. \A i, j \in S : i = j
      BY DEF StackInv, GoodStack
    <2> HIDE DEF S
    <2>2. CASE S = {}
      BY <2>2, FS_EmptySet DEF ReasonSaidOnce, SayingFrames, S
    <2>3. CASE S # {}
      <3>1. PICK i \in S : TRUE
        BY <2>3
      <3>2. S = {i}
        BY <2>1, <3>1
      <3>3. Cardinality(S) = 1
        BY <3>2, FS_Singleton
      <3> QED
        BY <3>3 DEF ReasonSaidOnce, SayingFrames, S
    <2> QED
      BY <2>2, <2>3
  <1> QED
    BY <1>1, InitStackInv, NextStackInv, PTL DEF Spec

(***************************************************************************)
(* Once panic() has begun the code it interrupted never runs again: entry  *)
(* makes no step and the console stays what it was, for any sequence of    *)
(* messages, faults of the console and exceptions.                         *)
(***************************************************************************)
THEOREM NothingFollowsAPanic == Spec => PanicIsFinal
  <1>1. StackInv /\ [Next]_vars =>
            [g_in_panic => UNCHANGED <<context, stage, at, console>>]_vars
    <2> SUFFICES ASSUME StackInv, Next, g_in_panic
                 PROVE  UNCHANGED <<context, stage, at, console>>
      OBVIOUS
    <2>1. CASE BootSteps
      <3>1. Top = "boot"
        BY <2>1, BootStepFacts
      <3>2. /\ stack \in Seq(Frames) /\ Len(stack) \in Nat /\ Len(stack) >= 1
            /\ \A i \in 2 .. Len(stack) : stack[i] # "boot"
            /\ \E i \in 2 .. Len(stack) : stack[i] \in PanicFrames
        BY DEF StackInv, GoodStack
      <3> QED
        BY <3>1, <3>2 DEF Top
    <2>2. CASE LogSteps /\ UNCHANGED <<context, stage, at, idt_loaded, exceptions>>
      BY <2>2, LogStepKeeps
    <2>3. CASE Exception
      BY <2>3 DEF Exception
    <2> QED
      BY <2>1, <2>2, <2>3 DEF Next, KernelSteps
  <1> QED
    BY <1>1, InitStackInv, NextStackInv, PTL DEF Spec, PanicIsFinal

-----------------------------------------------------------------------------
(***************************************************************************)
(* The window of the console.  Only the parameter earlycon changes it.     *)
(***************************************************************************)
LEMMA OnlyEarlyconSets ==
    ASSUME StackInv, Next
    PROVE  UNCHANGED <<listed, priv>> \/ \E mode : SetEarlycon(mode)
  <1>1. CASE BootSteps
    <2>1. CASE cmdline_parse
      BY <2>1 DEF cmdline_parse
    <2>2. CASE x86_entry
      BY <2>2 DEF x86_entry, Quiet, log, console
    <2>3. CASE SayBanner
      BY <2>3 DEF SayBanner, Say, console
    <2>4. CASE arch_init_early
      BY <2>4 DEF arch_init_early, Quiet, log, console
    <2>5. CASE ExtractAttribute
      BY <2>5 DEF ExtractAttribute, Say, Quiet, log, console
    <2>6. CASE MissingAttribute
      BY <2>6 DEF MissingAttribute, console
    <2>7. CASE SetDirectMap
      BY <2>7 DEF SetDirectMap, Quiet, log, console
    <2>8. CASE cmdline_parsed
      BY <2>8 DEF cmdline_parsed, Quiet, log, console
    <2>9. CASE SayMessages
      BY <2>9 DEF SayMessages, Say, console
    <2>10. CASE unwind_init
      BY <2>10 DEF unwind_init, console
    <2>11. CASE boot_alloc_init
      BY <2>11 DEF boot_alloc_init, Say, Quiet, log, console
    <2> QED
      BY <1>1, <2>1, <2>2, <2>3, <2>4, <2>5, <2>6, <2>7, <2>8, <2>9, <2>10, <2>11
         DEF BootSteps
  <1>2. CASE LogSteps
    BY <1>2, LogStepKeeps DEF console
  <1>3. CASE Exception
    BY <1>3 DEF Exception, console
  <1> QED
    BY <1>1, <1>2, <1>3 DEF Next, KernelSteps

LEMMA NextWindow == StackInv /\ WindowIsInUse /\ [Next]_vars => WindowIsInUse'
  <1> SUFFICES ASSUME StackInv, WindowIsInUse, [Next]_vars PROVE WindowIsInUse'
    OBVIOUS
  <1>1. CASE UNCHANGED <<listed, priv>>
    BY <1>1 DEF WindowIsInUse, io_window_get_type, port_io_window_get_port
  <1>2. ASSUME NEW mode, SetEarlycon(mode) PROVE WindowIsInUse'
    <2> DEFINE w == io_window_map_pio(E9)
               e == e9_console_init(listed, priv)
    <2>1. w.ret = EOK => w.iow = E9 + PORT_IO_WINDOW_OFFSET
      BY DEF io_window_map_pio, EINVAL, ENOMEM, EOK
    <2> HIDE DEF w
    <2>2. \/ e.listed = listed /\ (e.priv = priv \/ e.priv = NULL)
          \/ e.listed = TRUE /\ w.ret = EOK /\ e.priv = w.iow
      BY DEF e9_console_init, w
    <2> HIDE DEF e
    <2>3. \/ listed' = listed /\ priv' = priv
          \/ listed' = e.listed /\ priv' = e.priv
      BY <1>2 DEF SetEarlycon, earlycon_set, e
    <2>4. CASE listed' = listed /\ (priv' = priv \/ priv' = NULL)
      BY <2>4 DEF WindowIsInUse, io_window_get_type, port_io_window_get_port
    <2>5. CASE listed' = TRUE /\ priv' = E9 + PORT_IO_WINDOW_OFFSET
      BY <2>5 DEF WindowIsInUse, io_window_get_type, port_io_window_get_port, E9,
                  PORT_IO_WINDOW_OFFSET, PORT_IO_WINDOW_LEN, PORT_IO_WINDOW_END
    <2> QED
      BY <2>1, <2>2, <2>3, <2>4, <2>5
  <1>3. UNCHANGED vars => UNCHANGED <<listed, priv>>
    BY DEF vars, log, console
  <1> QED
    BY <1>1, <1>2, <1>3, OnlyEarlyconSets

(***************************************************************************)
(* Whatever the command line sets earlycon to, how often, and whatever the *)
(* machine answers, a window that e9_console_init mapped is the one of the *)
(* listed console, and writes to it reach port 0xE9.                       *)
(***************************************************************************)
THEOREM NoWindowIsLeaked == Spec => []WindowIsInUse
  <1>1. Init => WindowIsInUse
    BY DEF Init, LogInit, WindowIsInUse
  <1> QED
    BY <1>1, InitStackInv, NextStackInv, NextWindow, PTL DEF Spec

-----------------------------------------------------------------------------
(***************************************************************************)
(* The boot context.  While the loop of boot_context_init is at position   *)
(* k, the context is that of the attributes before k.                      *)
(***************************************************************************)
Known == Single \cup {"COMMAND_LINE", "MODULE_INFO"}

Before(t, k) == {n \in DOMAIN attributes : attributes[n].type = t /\ n < k}

IsLast(x, S) == (S = {} /\ x = 0) \/ (x \in S /\ \A y \in S : y <= x)
IsFirst(x, S) == x \in S /\ \A y \in S : x <= y

Gathered(k) ==
    /\ \A t \in Single \cup {"COMMAND_LINE"} : IsLast(g_boot_ctx[t], Before(t, k))
    /\ num_modules = Cardinality(Before("MODULE_INFO", k))
    /\ num_modules > 0 => IsFirst(g_boot_ctx["MODULE_INFO"], Before("MODULE_INFO", k))

Early == {"x86_entry", "banner", "arch_init_early", "refused"}
Late == {"cmdline", "messages", "unwind_init", "boot_alloc_init", "idle"}

Complete ==
    /\ Gathered(Len(attributes) + 1)
    /\ \A t \in Mandatory : g_boot_ctx[t] # 0
    /\ g_direct_map_base = g_boot_ctx["PLATFORM_INFO"]

ContextInv ==
    /\ attributes \in AttributeLists
    /\ g_boot_ctx \in [Known -> Nat]
    /\ \/ stage \in Early /\ at = 1 /\ Gathered(1)
       \/ stage = "attributes" /\ at \in 1 .. (Len(attributes) + 1) /\ Gathered(at)
       \/ stage \in Late /\ Complete

LEMMA AttributeFacts ==
    ASSUME attributes \in AttributeLists
    PROVE  /\ Len(attributes) \in Nat /\ DOMAIN attributes = 1 .. Len(attributes)
           /\ \A n \in 1 .. Len(attributes) : attributes[n].type \in AttributeTypes
  <1> DEFINE A == [type : AttributeTypes, text : Seq(Modes)]
  <1>1. \A a \in A : a.type \in AttributeTypes
    OBVIOUS
  <1>2. attributes \in Seq(A)
    BY AttributeListsAssumption
  <1> HIDE DEF A
  <1>3. /\ Len(attributes) \in Nat /\ DOMAIN attributes = 1 .. Len(attributes)
        /\ \A n \in 1 .. Len(attributes) : attributes[n] \in A
    BY <1>2
  <1> QED
    BY <1>1, <1>3

LEMMA BeforeFacts ==
    ASSUME attributes \in AttributeLists, NEW t, NEW k \in 1 .. (Len(attributes) + 1)
    PROVE  /\ Before(t, k) \subseteq Nat /\ IsFiniteSet(Before(t, k))
           /\ \A y \in Before(t, k) : y < k
           /\ Before(t, 1) = {}
           /\ Before(t, Len(attributes) + 1) = Positions(t)
           /\ k <= Len(attributes) =>
                Before(t, k + 1) = Before(t, k) \cup
                                     (IF attributes[k].type = t THEN {k} ELSE {})
  <1>1. Len(attributes) \in Nat /\ DOMAIN attributes = 1 .. Len(attributes)
    BY AttributeFacts
  <1>2. Before(t, k) \subseteq Nat /\ \A y \in Before(t, k) : y <= Len(attributes)
    BY <1>1 DEF Before
  <1>3. IsFiniteSet(Before(t, k))
    BY <1>1, <1>2, FS_BoundedSetOfNaturals
  <1>4. \A y \in Before(t, k) : y < k
    BY DEF Before
  <1>5. Before(t, 1) = {}
    BY <1>1 DEF Before
  <1>6. Before(t, Len(attributes) + 1) = Positions(t)
    BY <1>1 DEF Before, Positions
  <1>7. ASSUME k <= Len(attributes)
        PROVE  Before(t, k + 1) = Before(t, k) \cup
                                    (IF attributes[k].type = t THEN {k} ELSE {})
    <2>1. k \in DOMAIN attributes
      BY <1>1, <1>7
    <2>2. \A n \in DOMAIN attributes : n < k + 1 <=> n < k \/ n = k
      BY <1>1
    <2> QED
      BY <2>1, <2>2 DEF Before
  <1> QED
    BY <1>2, <1>3, <1>4, <1>5, <1>6, <1>7

\* One turn of the loop.
LEMMA GatherOne ==
    ASSUME attributes \in AttributeLists, g_boot_ctx \in [Known -> Nat],
           NEW n \in 1 .. Len(attributes), n = at, Gathered(n), ExtractAttribute
    PROVE  /\ g_boot_ctx' \in [Known -> Nat] /\ attributes' = attributes
           /\ at' = n + 1 /\ stage' = stage /\ Gathered(n + 1)'
  <1> DEFINE t == attributes[n].type
  <1>1. /\ g_boot_ctx' = Extracted(g_boot_ctx, t, n)
        /\ num_modules' = num_modules + IF t = "MODULE_INFO" THEN 1 ELSE 0
        /\ at' = n + 1 /\ stage' = stage /\ attributes' = attributes
    BY DEF ExtractAttribute, NextAttribute
  <1>2. Len(attributes) \in Nat /\ t \in AttributeTypes /\ n \in Nat
    BY AttributeFacts
  <1>3. n \in 1 .. (Len(attributes) + 1) /\ n <= Len(attributes)
    BY <1>2
  <1>4. \A u : /\ Before(u, n) \subseteq Nat /\ IsFiniteSet(Before(u, n))
               /\ \A y \in Before(u, n) : y < n
               /\ Before(u, n + 1) = Before(u, n) \cup (IF t = u THEN {n} ELSE {})
    BY <1>3, BeforeFacts
  <1>5. \A u, k : Before(u, k)' = Before(u, k)
    BY <1>1 DEF Before
  <1>6. t # "UNKNOWN" => t \in Known
    BY <1>2 DEF AttributeTypes, Known
  <1> HIDE DEF t
  <1>7. g_boot_ctx' \in [Known -> Nat]
    BY <1>1, <1>2, <1>6 DEF Extracted
  <1>8. "MODULE_INFO" \notin Single \cup {"COMMAND_LINE"} /\ "UNKNOWN" \notin Known
    BY DEF Single, Known
  <1>9. ASSUME NEW u \in Single \cup {"COMMAND_LINE"}
        PROVE  IsLast(g_boot_ctx'[u], Before(u, n + 1))
    <2>1. IsLast(g_boot_ctx[u], Before(u, n))
      BY DEF Gathered
    <2>2. u \in Known
      BY DEF Known
    <2>3. CASE t = u
      <3>1. t # "UNKNOWN" /\ t # "MODULE_INFO"
        BY <1>8, <2>2, <2>3
      <3>2. g_boot_ctx' = [g_boot_ctx EXCEPT ![t] = n]
        BY <1>1, <3>1 DEF Extracted
      <3>3. g_boot_ctx'[u] = n
        BY <2>2, <2>3, <3>2
      <3>4. Before(u, n + 1) = Before(u, n) \cup {n} /\ \A y \in Before(u, n) : y \in Nat /\ y < n
        BY <1>4, <2>3
      <3>5. \A y \in Before(u, n + 1) : y <= n
        BY <1>2, <3>4
      <3> QED
        BY <3>3, <3>4, <3>5 DEF IsLast
    <2>4. CASE t # u
      <3>1. g_boot_ctx'[u] = g_boot_ctx[u]
        BY <1>1, <2>4 DEF Extracted
      <3>2. Before(u, n + 1) = Before(u, n) \cup {}
        BY <1>4, <2>4, Zenon
      <3> QED
        BY <2>1, <3>1, <3>2, Before(u, n) \cup {} = Before(u, n)
    <2> QED
      BY <2>3, <2>4
  <1> DEFINE M == "MODULE_INFO"
             U == Before(M, n)
  <1>10. /\ num_modules = Cardinality(U) /\ Cardinality(U) \in Nat
         /\ num_modules > 0 => IsFirst(g_boot_ctx[M], U)
         /\ IsFiniteSet(U) /\ \A y \in U : y \in Nat /\ y < n
    <2>1. num_modules = Cardinality(U) /\ (num_modules > 0 => IsFirst(g_boot_ctx[M], U))
      BY DEF Gathered
    <2>2. IsFiniteSet(U) /\ \A y \in U : y \in Nat /\ y < n
      BY <1>4
    <2>3. Cardinality(U) \in Nat
      BY <2>2, FS_CardinalityType
    <2> QED
      BY <2>1, <2>2, <2>3
  <1>11. /\ num_modules' = Cardinality(Before(M, n + 1))
         /\ num_modules' > 0 => IsFirst(g_boot_ctx'[M], Before(M, n + 1))
    <2>1. CASE t = M
      <3>1. Before(M, n + 1) = U \cup {n} /\ n \notin U
        BY <1>2, <1>4, <1>10, <2>1
      <3>2. Cardinality(U \cup {n}) = Cardinality(U) + 1
        BY <1>10, <3>1, FS_AddElement
      <3>3. num_modules' = num_modules + 1
        BY <1>1, <2>1
      <3>4. CASE num_modules > 0
        <4>1. g_boot_ctx'[M] = g_boot_ctx[M]
          BY <1>1, <2>1, <3>4 DEF Extracted
        <4>2. IsFirst(g_boot_ctx[M], U)
          BY <1>10, <3>4
        <4>3. IsFirst(g_boot_ctx[M], U \cup {n})
          <5>1. g_boot_ctx[M] \in U /\ g_boot_ctx[M] \in Nat /\ g_boot_ctx[M] < n
            BY <1>10, <4>2 DEF IsFirst
          <5> HIDE DEF U
          <5> QED
            BY <1>2, <4>2, <5>1 DEF IsFirst
        <4> QED
          BY <1>10, <3>1, <3>2, <3>3, <4>1, <4>3
      <3>5. CASE num_modules = 0
        <4>1. U = {}
          BY <1>10, <3>5, FS_EmptySet
        <4>2. t # "UNKNOWN" /\ ~(num_modules > 0)
          BY <2>1, <3>5
        <4>3. g_boot_ctx' = [g_boot_ctx EXCEPT ![t] = n]
          BY <1>1, <4>2 DEF Extracted
        <4>4. g_boot_ctx'[M] = n
          BY <2>1, <4>3 DEF Known
        <4>5. IsFirst(n, U \cup {n})
          BY <1>2, <4>1 DEF IsFirst
        <4> QED
          BY <1>10, <3>1, <3>2, <3>3, <4>4, <4>5
      <3> QED
        BY <1>10, <3>4, <3>5
    <2>2. CASE t # M
      <3>1. Before(M, n + 1) = U
        BY <1>4, <2>2
      <3>2. g_boot_ctx'[M] = g_boot_ctx[M]
        BY <1>1, <2>2 DEF Extracted
      <3>3. num_modules' = num_modules
        BY <1>1, <1>10, <2>2
      <3> QED
        BY <1>10, <3>1, <3>2, <3>3
    <2> QED
      BY <2>1, <2>2
  <1>12. Gathered(n + 1)'
    BY <1>1, <1>5, <1>9, <1>11 DEF Gathered
  <1> QED
    BY <1>1, <1>7, <1>12

LEMMA InitContextInv == Init => ContextInv
  <1> SUFFICES ASSUME Init PROVE ContextInv
    OBVIOUS
  <1>1. /\ attributes \in AttributeLists /\ stage = "x86_entry" /\ at = 1 /\ num_modules = 0
        /\ g_boot_ctx = [t \in Known |-> 0]
    BY DEF Init, Known
  <1>2. Len(attributes) \in Nat
    BY <1>1, AttributeFacts
  <1>3. 1 \in 1 .. (Len(attributes) + 1)
    BY <1>2
  <1>4. \A t : Before(t, 1) = {}
    BY <1>1, <1>3, BeforeFacts
  <1>5. Cardinality({}) = 0
    BY FS_EmptySet
  <1>6. \A t \in Single \cup {"COMMAND_LINE"} : g_boot_ctx[t] = 0
    BY <1>1 DEF Known
  <1>7. Gathered(1)
    BY <1>1, <1>4, <1>5, <1>6 DEF Gathered, IsLast
  <1>8. g_boot_ctx \in [Known -> Nat] /\ stage \in Early
    BY <1>1 DEF Early
  <1> QED
    BY <1>1, <1>7, <1>8 DEF ContextInv

\* The context that is kept says of the attributes what it said.
LEMMA KeptContext ==
    ASSUME UNCHANGED context
    PROVE  /\ attributes' = attributes /\ g_boot_ctx' = g_boot_ctx
           /\ \A k : Gathered(k)' = Gathered(k)
           /\ Complete' = Complete
  <1>1. /\ attributes' = attributes /\ g_boot_ctx' = g_boot_ctx
        /\ num_modules' = num_modules /\ g_direct_map_base' = g_direct_map_base
    BY DEF context
  <1>2. \A t, k : Before(t, k)' = Before(t, k)
    BY <1>1 DEF Before
  <1> QED
    BY <1>1, <1>2 DEF Gathered, Complete

\* Where the steps that do not gather attributes go.
LEMMA StageSteps ==
    ASSUME BootSteps, ~ExtractAttribute, ~SetDirectMap
    PROVE  /\ UNCHANGED context
           /\ \/ stage \in {"x86_entry", "banner"} /\ stage' \in Early /\ at' = 1
              \/ stage = "arch_init_early" /\ stage' = "attributes" /\ at' = 1
              \/ stage' = stage /\ at' = at
              \/ stage \in Late /\ stage' \in Late
  <1>1. CASE x86_entry
    BY <1>1 DEF x86_entry, In, Then, Early
  <1>2. CASE SayBanner
    BY <1>2 DEF SayBanner, In, Then, Early
  <1>3. CASE arch_init_early
    BY <1>3 DEF arch_init_early, In, Then
  <1>4. CASE MissingAttribute
    BY <1>4 DEF MissingAttribute
  <1>5. CASE cmdline_parse
    BY <1>5 DEF cmdline_parse, In, Late
  <1>6. CASE cmdline_parsed
    BY <1>6 DEF cmdline_parsed, In, Then, Late
  <1>7. CASE SayMessages
    BY <1>7 DEF SayMessages, In, Then, Late
  <1>8. CASE unwind_init
    BY <1>8 DEF unwind_init, In, Then, Late
  <1>9. CASE boot_alloc_init
    BY <1>9 DEF boot_alloc_init, In, Then, Late
  <1> QED
    BY <1>1, <1>2, <1>3, <1>4, <1>5, <1>6, <1>7, <1>8, <1>9 DEF BootSteps

\* The disjuncts of ContextInv exclude each other.
LEMMA StagesDiffer ==
    /\ Early \cap Late = {} /\ "attributes" \notin Early /\ "attributes" \notin Late
    /\ "x86_entry" \in Early /\ "banner" \in Early /\ "arch_init_early" \in Early
    /\ "cmdline" \in Late
  BY DEF Early, Late

LEMMA NextContextInv == ContextInv /\ [Next]_vars => ContextInv'
  <1> SUFFICES ASSUME ContextInv, [Next]_vars PROVE ContextInv'
    OBVIOUS
  <1>1. /\ attributes \in AttributeLists /\ g_boot_ctx \in [Known -> Nat]
        /\ \/ stage \in Early /\ at = 1 /\ Gathered(1)
           \/ stage = "attributes" /\ at \in 1 .. (Len(attributes) + 1) /\ Gathered(at)
           \/ stage \in Late /\ Complete
    BY DEF ContextInv
  <1>2. Len(attributes) \in Nat
    BY <1>1, AttributeFacts
  <1>3. 1 \in 1 .. (Len(attributes) + 1)
    BY <1>2
  <1>4. ASSUME UNCHANGED context, stage' \in Early, at' = 1, Gathered(1)
        PROVE  ContextInv'
    <2>1. Gathered(1)'
      BY <1>4, KeptContext
    <2> QED
      BY <1>1, <1>4, <2>1, KeptContext DEF ContextInv
  <1>5. ASSUME UNCHANGED context, stage' \in Late, Complete
        PROVE  ContextInv'
    <2>1. Complete'
      BY <1>5, KeptContext
    <2> QED
      BY <1>1, <1>5, <2>1, KeptContext DEF ContextInv
  <1>6. ASSUME NEW k \in 1 .. (Len(attributes) + 1), Gathered(k)', at' = k, stage' = "attributes",
               attributes' = attributes, g_boot_ctx' \in [Known -> Nat]
        PROVE  ContextInv'
    <2>1. Gathered(at)'
      BY <1>6 DEF Gathered
    <2> QED
      BY <1>1, <1>6, <2>1 DEF ContextInv
  <1>7. CASE UNCHANGED <<context, stage, at>>
    <2>1. CASE stage \in Early /\ at = 1 /\ Gathered(1)
      BY <1>4, <1>7, <2>1
    <2>2. CASE stage = "attributes" /\ at \in 1 .. (Len(attributes) + 1) /\ Gathered(at)
      <3>1. PICK k \in 1 .. (Len(attributes) + 1) : k = at
        BY <2>2
      <3>2. Gathered(k)
        BY <2>2, <3>1
      <3>3. Gathered(k)'
        BY <1>7, <3>2, KeptContext
      <3> QED
        BY <1>1, <1>6, <1>7, <2>2, <3>1, <3>3, KeptContext
    <2>3. CASE stage \in Late /\ Complete
      BY <1>5, <1>7, <2>3
    <2> QED
      BY <1>1, <2>1, <2>2, <2>3
  <1>8. CASE ExtractAttribute
    <2>1. stage = "attributes" /\ at <= Len(attributes)
      BY <1>8 DEF ExtractAttribute, In
    <2>2. at \in 1 .. (Len(attributes) + 1) /\ Gathered(at)
      BY <1>1, <2>1, StagesDiffer
    <2>3. PICK n \in 1 .. Len(attributes) : n = at
      BY <1>2, <2>1, <2>2
    <2>4. Gathered(n)
      BY <2>2, <2>3
    <2>5. /\ g_boot_ctx' \in [Known -> Nat] /\ attributes' = attributes
          /\ at' = n + 1 /\ stage' = stage /\ Gathered(n + 1)'
      BY <1>1, <1>8, <2>3, <2>4, GatherOne
    <2>6. n + 1 \in 1 .. (Len(attributes) + 1)
      BY <1>2
    <2> QED
      BY <1>6, <2>1, <2>5, <2>6
  <1>9. CASE SetDirectMap
    <2>1. /\ stage = "attributes" /\ at > Len(attributes) /\ ~IsMissing
          /\ stage' = "cmdline" /\ g_direct_map_base' = g_boot_ctx["PLATFORM_INFO"]
          /\ attributes' = attributes /\ g_boot_ctx' = g_boot_ctx /\ num_modules' = num_modules
      BY <1>9 DEF SetDirectMap, In, Then
    <2>2. at \in 1 .. (Len(attributes) + 1) /\ Gathered(at)
      BY <1>1, <2>1, StagesDiffer
    <2>3. at = Len(attributes) + 1
      BY <1>2, <2>1, <2>2
    <2>4. Gathered(Len(attributes) + 1)
      BY <2>2, <2>3
    <2>5. \A t, k : Before(t, k)' = Before(t, k)
      BY <2>1 DEF Before
    <2>6. \A k : Gathered(k)' = Gathered(k)
      BY <2>1, <2>5 DEF Gathered
    <2>7. Gathered(Len(attributes) + 1)'
      BY <2>1, <2>4, <2>5 DEF Gathered
    <2>8. Complete'
      BY <2>1, <2>7 DEF Complete, IsMissing
    <2> QED
      BY <1>1, <2>1, <2>8, StagesDiffer DEF ContextInv
  <1>10. CASE BootSteps /\ ~ExtractAttribute /\ ~SetDirectMap
    <2>1. UNCHANGED context
      BY <1>10, StageSteps
    <2>2. CASE stage \in {"x86_entry", "banner"} /\ stage' \in Early /\ at' = 1
      <3>1. Gathered(1)
        BY <1>1, <2>2, StagesDiffer
      <3> QED
        BY <1>4, <2>1, <2>2, <3>1
    <2>3. CASE stage = "arch_init_early" /\ stage' = "attributes" /\ at' = 1
      <3>1. Gathered(1)
        BY <1>1, <2>3, StagesDiffer
      <3>2. Gathered(1)'
        BY <2>1, <3>1, KeptContext
      <3> QED
        BY <1>1, <1>3, <1>6, <2>1, <2>3, <3>2, KeptContext
    <2>4. CASE stage' = stage /\ at' = at
      BY <1>7, <2>1, <2>4
    <2>5. CASE stage \in Late /\ stage' \in Late
      <3>1. Complete
        BY <1>1, <2>5, StagesDiffer
      <3> QED
        BY <1>5, <2>1, <2>5, <3>1
    <2> QED
      BY <1>10, <2>2, <2>3, <2>4, <2>5, StageSteps
  <1>11. CASE LogSteps /\ UNCHANGED <<context, stage, at, idt_loaded, exceptions>>
    BY <1>7, <1>11
  <1>12. CASE Exception
    BY <1>7, <1>12 DEF Exception
  <1>13. CASE UNCHANGED vars
    BY <1>7, <1>13 DEF vars
  <1> QED
    BY <1>8, <1>9, <1>10, <1>11, <1>12, <1>13 DEF Next, KernelSteps

LEMMA LastIsMax ==
    ASSUME NEW S \in SUBSET Nat, NEW x, IsLast(x, S)
    PROVE  x = LastOf(S)
  <1>1. CASE S = {}
    BY <1>1 DEF IsLast, LastOf
  <1>2. CASE S # {}
    <2>1. x \in S /\ \A y \in S : x >= y
      BY <1>2 DEF IsLast
    <2>2. \A z \in S : (\A y \in S : z >= y) => z = x
      BY <2>1
    <2> QED
      BY <1>2, <2>1, <2>2 DEF LastOf, Max
  <1> QED
    BY <1>1, <1>2

LEMMA FirstIsMin ==
    ASSUME NEW S \in SUBSET Nat, NEW x, IsFirst(x, S)
    PROVE  x = Min(S)
  <1>1. x \in S /\ \A y \in S : x <= y
    BY DEF IsFirst
  <1>2. \A z \in S : (\A y \in S : z <= y) => z = x
    BY <1>1
  <1> QED
    BY <1>1, <1>2 DEF Min

(***************************************************************************)
(* Whatever list of attributes the loader passes, in whatever order and    *)
(* with whatever repetitions and unknown entries, the context that         *)
(* boot_context_init leaves is the loader's: nothing mandatory is missing, *)
(* the last attribute of each type counts, the modules are all counted and *)
(* found at the first, and the direct map is that of the platform.         *)
(***************************************************************************)
THEOREM ContextIsWhatWasPassed == Spec => []ContextIsTheLoaders
  <1>1. ContextInv => ContextIsTheLoaders
    <2> SUFFICES ASSUME ContextInv, stage \in Late PROVE ContextIsTheLoaders
      BY DEF ContextIsTheLoaders, Late
    <2>1. attributes \in AttributeLists /\ Complete
      BY StagesDiffer DEF ContextInv
    <2> DEFINE L == Len(attributes) + 1
    <2>2. Len(attributes) \in Nat
      BY <2>1, AttributeFacts
    <2>3. L \in 1 .. (Len(attributes) + 1)
      BY <2>2
    <2>4. \A t : Positions(t) \subseteq Nat /\ Before(t, L) = Positions(t)
      BY <2>1, <2>3, BeforeFacts
    <2>5. Gathered(L)
      BY <2>1 DEF Complete
    <2> HIDE DEF L
    <2>6. \A t \in Single \cup {"COMMAND_LINE"} : g_boot_ctx[t] = LastOf(Positions(t))
      BY <2>4, <2>5, LastIsMax DEF Gathered
    <2>7. num_modules = Cardinality(Positions("MODULE_INFO"))
      BY <2>4, <2>5 DEF Gathered
    <2>8. num_modules > 0 => g_boot_ctx["MODULE_INFO"] = Min(Positions("MODULE_INFO"))
      BY <2>4, <2>5, FirstIsMin DEF Gathered
    <2> QED
      BY <2>1, <2>6, <2>7, <2>8 DEF ContextIsTheLoaders, Complete
  <1> QED
    BY <1>1, InitContextInv, NextContextInv, PTL DEF Spec
=============================================================================
