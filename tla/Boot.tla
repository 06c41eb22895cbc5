--------------------------------- MODULE Boot ---------------------------------
(***************************************************************************)
(* The kernel from the loader's jump to its idle loop: x86_entry,          *)
(* arch_init_early (kernel/arch/x86/entry.c, idt.c) and entry              *)
(* (kernel/entry.c), with the early console, the messages and the panics   *)
(* of module EarlyConsole.  Interrupts stay disabled, but an exception     *)
(* that nobody masks, an NMI or a machine check, may come between any two  *)
(* steps: every handler panics (exceptions.c).                             *)
(***************************************************************************)
EXTENDS EarlyConsole, FiniteSetsExt

CONSTANTS
    AttributeLists,     \* what the loader may pass: sequences of attributes
    FreeEntries,        \* free ranges of its memory map, each is announced
    MaxExceptions       \* bound: exceptions that come

\* The attributes that struct boot_context has one pointer for.
Single == {"PLATFORM_INFO", "KERNEL_INFO", "MEMORY_MAP", "FRAMEBUFFER_INFO"}
Mandatory == {"PLATFORM_INFO", "KERNEL_INFO", "MEMORY_MAP"}

AttributeTypes == Single \cup {"COMMAND_LINE", "MODULE_INFO", "UNKNOWN"}

\* A command line counts by the values that it sets earlycon to.
ASSUME AttributeListsAssumption ==
    \A list \in AttributeLists : list \in Seq([type : AttributeTypes, text : Seq(Modes)])

VARIABLES
    magic_ok,           \* whether the loader's magic number is right, constant
    attributes,         \* the loader's list, constant
    stage,              \* where x86_entry and entry are
    at,                 \* the position in the loop of a stage
    g_boot_ctx,         \* attribute type |-> position of the one pointed to, or 0
    num_modules,
    g_direct_map_base,  \* position of the attribute it comes from, or 0
    idt_loaded,
    exceptions          \* history: how many came

context == <<magic_ok, attributes, g_boot_ctx, num_modules, g_direct_map_base>>
vars == <<log, context, stage, at, idt_loaded, exceptions>>

Init ==
    /\ LogInit
    /\ magic_ok \in BOOLEAN
    /\ attributes \in AttributeLists
    /\ stage = "x86_entry" /\ at = 1
    /\ g_boot_ctx = [t \in Single \cup {"COMMAND_LINE", "MODULE_INFO"} |-> 0]
    /\ num_modules = 0
    /\ g_direct_map_base = 0
    /\ idt_loaded = FALSE
    /\ exceptions = 0

-----------------------------------------------------------------------------
\* The steps of entry, each with the messages it begins.
In(s) == Top = "boot" /\ stage = s

Then(s) == stage' = s /\ at' = 1

Quiet == UNCHANGED log

Say == /\ stack' = Pushed("print")
       /\ UNCHANGED <<machine, console, g_in_panic, g_unwinder_available, depth>>

x86_entry ==
    /\ In("x86_entry")
    /\ Then(IF magic_ok THEN "banner" ELSE "refused")
    /\ Quiet
    /\ UNCHANGED <<context, idt_loaded, exceptions>>

SayBanner ==
    /\ In("banner") /\ Then("arch_init_early") /\ Say
    /\ UNCHANGED <<context, idt_loaded, exceptions>>

arch_init_early ==
    /\ In("arch_init_early") /\ Then("attributes") /\ Quiet
    /\ idt_loaded' = TRUE
    /\ UNCHANGED <<context, exceptions>>

\* Mutant: of the modules, too, the last one stays.
Extracted_last_module(ctx, t, n) ==
    IF t = "UNKNOWN" THEN ctx ELSE [ctx EXCEPT ![t] = n]

\* The context with attribute n, of type t, in it: of most the last one stays,
\* of the modules, which the loader lists together, the first.
Extracted(ctx, t, n) ==
    IF t = "UNKNOWN" \/ (t = "MODULE_INFO" /\ num_modules > 0)
    THEN ctx ELSE [ctx EXCEPT ![t] = n]

\* Mutant: an attribute that is unknown is not passed over.
NextAttribute_known(n) == IF attributes[n].type = "UNKNOWN" THEN n ELSE n + 1

NextAttribute(n) == n + 1

\* An attribute that is unknown, or given again, is worth a warning.
Warns(n) ==
    LET t == attributes[n].type
    IN  t = "UNKNOWN" \/ (t \in Single /\ g_boot_ctx[t] # 0)

ExtractAttribute ==
    /\ In("attributes") /\ at <= Len(attributes)
    /\ IF Warns(at) THEN Say ELSE Quiet
    /\ LET t == attributes[at].type
       IN  /\ g_boot_ctx' = Extracted(g_boot_ctx, t, at)
           /\ num_modules' = num_modules + IF t = "MODULE_INFO" THEN 1 ELSE 0
    /\ at' = NextAttribute(at)
    /\ UNCHANGED <<magic_ok, attributes, g_direct_map_base, stage, idt_loaded, exceptions>>

IsMissing == \E t \in Mandatory : g_boot_ctx[t] = 0

\* The BUG_ON of boot_context_init.
MissingAttribute ==
    /\ In("attributes") /\ at > Len(attributes) /\ IsMissing
    /\ stack' = Pushed("panic")
    /\ UNCHANGED <<machine, console, g_in_panic, g_unwinder_available, depth,
                   context, stage, at, idt_loaded, exceptions>>

\* Behind it, the direct map of the platform.
SetDirectMap ==
    /\ In("attributes") /\ at > Len(attributes) /\ ~IsMissing
    /\ g_direct_map_base' = g_boot_ctx["PLATFORM_INFO"]
    /\ Then("cmdline") /\ Quiet
    /\ UNCHANGED <<magic_ok, attributes, g_boot_ctx, num_modules, idt_loaded, exceptions>>

\* The values that the command line sets earlycon to; none without a line.
CommandLine ==
    IF g_boot_ctx["COMMAND_LINE"] = 0 THEN << >>
    ELSE attributes[g_boot_ctx["COMMAND_LINE"]].text

cmdline_parse ==
    /\ In("cmdline") /\ at <= Len(CommandLine)
    /\ SetEarlycon(CommandLine[at])
    /\ at' = at + 1
    /\ UNCHANGED <<context, stage, idt_loaded, exceptions>>

cmdline_parsed ==
    /\ In("cmdline") /\ at > Len(CommandLine)
    /\ Then("messages") /\ Quiet
    /\ UNCHANGED <<context, idt_loaded, exceptions>>

\* Who booted, where the direct map is, and the command line.
SayMessages ==
    /\ In("messages") /\ Say
    /\ IF at < 3 THEN at' = at + 1 /\ UNCHANGED stage ELSE Then("unwind_init")
    /\ UNCHANGED <<context, idt_loaded, exceptions>>

\* It says whether stack traces are available; module EhFrame says when.
unwind_init ==
    /\ In("unwind_init") /\ Then("boot_alloc_init")
    /\ g_unwinder_available' \in BOOLEAN
    /\ stack' = Pushed("print")
    /\ UNCHANGED <<machine, console, g_in_panic, depth, context, idt_loaded, exceptions>>

boot_alloc_init ==
    /\ In("boot_alloc_init")
    /\ IF at <= FreeEntries
       THEN Say /\ at' = at + 1 /\ UNCHANGED stage
       ELSE Quiet /\ Then("idle")
    /\ UNCHANGED <<context, idt_loaded, exceptions>>

BootSteps == \/ x86_entry \/ SayBanner \/ arch_init_early \/ ExtractAttribute
             \/ MissingAttribute \/ SetDirectMap \/ cmdline_parse \/ cmdline_parsed
             \/ SayMessages \/ unwind_init \/ boot_alloc_init

\* Without the kernel's IDT an exception resets the machine.
Exception ==
    /\ exceptions < MaxExceptions /\ Top # "reset"
    /\ stack' = Pushed(IF idt_loaded THEN "panic" ELSE "reset")
    /\ exceptions' = exceptions + 1
    /\ UNCHANGED <<machine, console, g_in_panic, g_unwinder_available, depth,
                   context, stage, at, idt_loaded>>

KernelSteps ==
    BootSteps \/ (LogSteps /\ UNCHANGED <<context, stage, at, idt_loaded, exceptions>>)

Next == KernelSteps \/ Exception

\* There is one thread and it goes on; exceptions need not come.
Spec == Init /\ [][Next]_vars /\ WF_vars(KernelSteps)

-----------------------------------------------------------------------------
Positions(t) == {n \in DOMAIN attributes : attributes[n].type = t}

LastOf(S) == IF S = {} THEN 0 ELSE Max(S)

(***************************************************************************)
(* From the moment that entry uses it, the boot context is what the loader *)
(* passed: no mandatory attribute is missing, the last of each type        *)
(* counts, the modules are counted from the first, and the direct map      *)
(* comes from the platform that stayed.                                    *)
(***************************************************************************)
ContextIsTheLoaders ==
    stage \in {"cmdline", "messages", "unwind_init", "boot_alloc_init", "idle"} =>
        /\ \A t \in Mandatory : g_boot_ctx[t] # 0
        /\ \A t \in Single \cup {"COMMAND_LINE"} : g_boot_ctx[t] = LastOf(Positions(t))
        /\ num_modules = Cardinality(Positions("MODULE_INFO"))
        /\ num_modules > 0 =>
              g_boot_ctx["MODULE_INFO"] = Min(Positions("MODULE_INFO"))
        /\ g_direct_map_base = g_boot_ctx["PLATFORM_INFO"]

(***************************************************************************)
(* A panic is the end of the kernel: none of the interrupted code runs     *)
(* again, whatever messages and exceptions the panic meets.                *)
(***************************************************************************)
PanicIsFinal == [][g_in_panic => UNCHANGED <<context, stage, at, console>>]_vars

(***************************************************************************)
(* Booting ends: in the idle loop, in a panic that hangs, with a loader    *)
(* that is refused, or with a machine that is reset.                       *)
(***************************************************************************)
Ended == Top \in {"hang", "reset"} \/ In("idle") \/ In("refused")

BootEnds == []<>Ended

\* A panic ends in the endless loop of panic(), even when the console that it
\* prints to panics as well, or an exception comes.
PanicHangs == g_in_panic ~> (Top = "hang")
=============================================================================
