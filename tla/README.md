# Ultra in TLA+

Ultra is a kernel in an early state: it boots, parses its command line, sets up
a console, a boot-time page allocator and a stack unwinder, and stops. It runs
on one processor with one thread; what makes it hard is not concurrency but
code that manages memory out of which it lives itself, code that runs while a
panic is under way, callbacks that re-enter their caller, interrupts that leave
frames on the stack, tables that a build script and the kernel must read in
the same way, and arithmetic at the edges of types.

The modules here model that code from its source under `src/`, TLC checks them
on small instances, and TLAPS proves what matters most for all instances.
`PROJECT.json` names for every definition the source lines it stands for.

## Inventory

| component | state | operations | calls |
|---|---|---|---|
| boot allocator, `kernel/memory/boot_alloc.c` | a sorted array of ranges, free or allocated; first static, later in pages the allocator takes from itself | `boot_alloc_init`, `boot_alloc`, `boot_alloc_at`, `boot_free` | the loader's memory map; its own `boot_free`, from the growth |
| console list, `kernel/console.c` | a singly linked intrusive list | `register_console`, `unregister_console`, `console_write` | the consoles' `write` |
| early console, `kernel/arch/x86/earlycon.c` | one console, its port window, the mode | the setter of `earlycon` | console list, port windows of `kernel/io.c`, the log |
| log and panic, `kernel/log.c`, `kernel/panic.c` | static buffers, `g_in_panic` | `print`, `dump_stack`, `panic` | `console_write`, the unwinder, symbol lookup |
| command line, `kernel/param.c` | the part of the line that is left, a key, a value | `cmdline_parse` | the parameters' setters, which call the conversions |
| conversions, `kernel/common/conversions.c` | an accumulator | `str_to_{i,u}{8,16,32,64}` | |
| symbol lookup, `kernel/symbols.c`, with `scripts/generate_symbol_tables.py` | read-only compressed tables | `symbol_lookup_by_address` | |
| unwinder, `kernel/unwind.c`, `kernel/arch/x86/unwind.{c,S}` | a register file, the rules of a frame, a DWARF program | `unwind_walk` and what it calls | memory and registers of the interrupted code; a callback |
| formatted output, `kernel/common/format.c` | an output buffer | `vsnprintf` | |
| I/O accessors, `kernel/io.c`, `kernel/arch/*/io.c` | windows | reads and writes | |
| entry, `kernel/entry.c`, `kernel/arch/x86/entry.c` | the boot context | the walk over the loader's attributes, then the initialisers | all of the above, once |
| interrupts, `kernel/arch/x86/interrupts.S`, `exceptions.c`, `irq.c` | the interrupted registers on the stack | thunk, `interrupt_begin`, handler, `interrupt_end` | `panic`, the log; the unwinder reads its hints |

`boot_alloc_init` runs last. Everything before it has no heap (`alloc` is a
stub that returns NULL). A panic may happen anywhere and prints through the
console list, so consoles, symbol lookup and unwinder must work, or at least
end, in whatever state the kernel is in.

What makes each part correct:

- **boot allocator**: a page has one owner; the map stays sorted; the buffer
  never overflows, although the pages for a larger one are found with the full
  one; only a caller's mistake panics, or a free of memory that a free of no
  pages has cut before; a request is refused only if memory is not there.
- **console list**: it never closes to a cycle; nobody is lost from it but whoever
  unregisters; a message reaches everyone once.
- **early console and panic**: a listed console has a window; a panic says its
  reason once and hangs, even if its message panics or an exception comes.
- **entry**: the boot context is what the loader passed, whatever else is in its
  list; booting ends.
- **interrupts**: a handler sees the registers of the interrupted code, which gets
  them back; the unwind hints are right at every instruction, as an NMI may
  come at any.
- **command line**: what is written is what is set; nothing is lost but a key that
  runs into `--` and the value of an empty key; the parser returns on every line.
- **conversions**: a result is the number that was written; an error of range is real.
- **formatted output**: nothing is written outside of the buffer; what is in it is the
  start of the output; numbers read back as the arguments.
- **symbol lookup**: the name is that of the function the address is in; kernel and
  generator agree on where names begin.
- **unwinder**: the callback gets the frames that are on the stack, all of them when
  the call frame information is complete, and reads live words only; it is switched
  on only with a table that it can read, and `unwind_init` reads nothing behind its
  section. (That the table has as many entries as the header says is trusted:
  `find_fde` does not compare them with the size of the section.)

`PROJECT.json` lists the hazards, each at its line.

## Modules

| module | models | kind |
|---|---|---|
| `MemoryMap` | ranges, `find_range` as a definition, merging, `allocate_out_of` | operators |
| `BootAlloc` | the allocator's globals; one action per call, and one per iteration of `boot_alloc_init` | component |
| `PageAllocator` | what `include/boot/alloc.h` promises, as sets of pages | abstract |
| `BootAllocRegrow` | the growth of a buffer that is dynamic already, activation by activation; extends `BootAlloc` | component |
| `FindRange` | the loop of `find_range` against its definition in `MemoryMap` | algorithm |
| `Console` | the linked list | component |
| `EarlyConsole` | the setter of `earlycon`, port windows, log and panic together | composition |
| `Boot` | from the loader's jump to the idle loop; extends `EarlyConsole` | composition |
| `Interrupts` | the code of an interrupt, instruction by instruction, and its unwind hints | component |
| `Cmdline` | `cmdline_parse`, one step per iteration, and the setters of strings and booleans | component |
| `Conversions` | sign, base, digits, narrowing | algorithm |
| `Format` | `vsnprintf`, one step per part of a conversion, and its callers `vprint` and `param_get_<type>` | component |
| `TableSearch` | the binary search that `find_fde` and `symbol_lookup_by_address` share | algorithm |
| `Symbols` | the generator's tables and the lookup over their bytes; extends `TableSearch` | composition |
| `EhFrame` | `unwind_init` and the way from an address to its decoded FDE, over bytes | component |
| `Unwind` | a machine that calls, pushes, returns and is interrupted; the unwinder that walks its stack | composition |
| `StackLayout` | how code lays its frames out, what DWARF means by its operations, and when the call frame information is right about the code; extends `Unwind` | hypothesis |
| `MC*` | instances for TLC | |
| `*Proofs` | theorems about the module they are named after; `BootProofs` is about `Boot` with `EarlyConsole`, `BootAllocProofs` about `BootAlloc` with `MemoryMap` and its refinement of `PageAllocator`, `SymbolsProofs` about `Symbols` with `TableSearch`, `UnwindProofs` about `Unwind` with the hypothesis of `StackLayout` | |

### How state and actions correspond to the code

*BootAlloc.* Addresses are page numbers. `ranges` is the first `g_entry_count`
entries of the buffer, `g_buffer` where it is, `g_capacity` its room. The
operators named after C functions take the globals as a record and return them
changed, so that a call (`Alloc`, `AllocAt`, `Free`, `AppendEntry`) is one
action with everything it does: growth, search, split, merge, BUG. `bug` is the
BUG the kernel stopped at. `held` and `call` are history: what callers own, and
the last call. Callers free what they hold, or no pages at all at any address
(`boot_free` asks nothing of `num_pages`), and also make mistakes; they do not
free the allocator's buffer, nor by mistake while a growth is due (the growth
might take the very pages named, and the mistake could not be seen by anyone).
A free of no pages may leave an empty free range, so two entries may begin at one
address. Which of them the binary search of `find_range` hits depends on how many
entries the map has; the operator `find_range` is the set of the indices that it
may return, and a call takes any of them. On a map without empty ranges the set
has one member. `Cuts` are the addresses of the empty ranges; `PageAllocator` has
them as `cuts`, as callers see them: memory that is cut may not be freed in one call.
An error address is any byte address up to `MAX_ERRNO`, thus page 0 reads as an
error (`error_phys_addr`).

*BootAllocRegrow.* The second growth frees the old buffer with `boot_free`, which
begins with `maybe_grow_buffer`. Each activation is a frame with the copy it
made; memory that was never written is any value of `Junk`.

*Console.* `next` keeps what it holds when a console is unlinked, as in the code;
`console_write` is `BeginWrite` and one `WriteOne` per console. Drivers call
register and unregister in any order.

*EarlyConsole.* The stack of C activations that matter (`boot`, `print`, `panic` and
how far a panic is) is a sequence. What cpuid and the port answer, and whether
the build is hardened, are chosen in Init. A port window is the number that the
code makes of its first port. The kernel has one console, so the list is
whether it is on it; `unregister_console` of the head leaves it there.

*Boot.* `stage` is where `x86_entry` and `entry` are, `at` the position in the loop of
a stage. An attribute is its type; a pointer of `g_boot_ctx` is the position of
the attribute it points to. A command line is the values it sets `earlycon` to;
what the parser makes of its characters is `Cmdline`. `Exception` is any vector
whose handler panics: before `lidt` it resets the machine.

*Interrupts.* The stack is the words below the frame's CFA. `Text` gives each function's
instructions with the hint behind them; `row` is the row that the assembler
makes of the hints, and `Found` what the unwinder makes of the row. Registers
hold tokens, so that a property can tell whose value it is. A row of a
`.cfi` directive is what the assembler documents.

*Cmdline.* A line is a sequence of characters; those that the parser does not tell
apart are one. Setters are entries of `calls`, with whether they were called;
`store` is what they leave in the parameters.

*Conversions.* The arithmetic wraps at `Modulus`, which is 2^64 in the code; `exact`
is the number without wrapping, and `valid` whether all digits were in the base.

*Format.* The format is a sequence of characters; `pc` is the part of the loop that
comes next (text, flags with width, precision, conversion). The operators named
after C functions take the buffer as a record and return it changed; its domain
grows when a write is out of bounds. `all` is the output as it would be without
a limit, `shown` the last argument with its text, `got` what the caller uses.
An argument is chosen when `va_arg` asks for it. A null `%pS` prints a warning
through the same `log_buf`. Integers have five bits for 64 (`Modulus`), and
`Size` gives the shorter lengths their widths.

*Symbols.* The tables are computed from the sequence of symbols as the generator's
`main` does, byte for byte; the kernel's steps read bytes. `Block` (256), `Leb`
(128) and `Wrap` (2^32) are parameters so that blocks and two-byte lengths occur
in small tables.

*EhFrame.* `image` is the memory that the linker fills: bytes at addresses, the bounds
of the sections, and, for the properties, what the functions are. A pair
`[cursor, bytes_left]` is `struct eh_data`; operators that consume return the
pair with a result. A byte has `ByteBits` bits, from which the
limits of u64 and int follow, so that they are reached by small numbers.

*Unwind.* The machine has the registers `bp`, `sp` and `pc`. An FDE is a record with
decoded operations; a row for a register the kernel does not track is an
operation on another name. `calls` is the truth, `trace` what the callback got.
`FdeTables` are the tables the kernel may be linked with; `FullTables` those
that describe everything in operations `dwarf_exec` knows.

*StackLayout.* The compiler's side of the unwinder, which is not in the repository: a
layout says of each address how far the CFA is above the stack pointer and where
the caller's frame pointer is. `LayoutIsKept` says that every instruction keeps to
it, that `arch_unwind_current_begin` is called by `unwind_begin` only, that by
`unwind_walk` only and that from one place; `IsRight` that each row an FDE has for an
address the unwinder may look up is that of the layout, or one that `dwarf_exec` refuses;
`IsFull` that nothing is left out. `MCUnwind` gives the layout of its code, and TLC
evaluates that the tables of the run `unwind` are right about it.

## Runs

| run | shows | instance |
|---|---|---|
| `boot_alloc` | the allocator's invariants, and that it implements `PageAllocator` | five loader maps of up to seven pages, requests and frees of up to three pages, and of none |
| `find_range` | the loop returns an index that the definition allows and shortens its interval in every iteration | all maps of up to five ranges in seven pages, empty ones included, all addresses in and around them |
| `console` | no cycle, everyone once, nobody lost, a write returns | four consoles |
| `boot` | the context is the loader's, no window without console, a panic says its reason once, hangs and is final, booting ends | lists with repeated, unknown and missing attributes, up to three settings of `earlycon`, all machines and builds, two exceptions |
| `interrupts` | traces go through at every instruction, handlers see the registers, nothing is lost, every interrupt is handled | all 256 vectors |
| `eh_frame` | available only if valid, reads inside, the right information | images with one and four functions, values of every width and base, signed and not, headers whole, truncated and of the wrong kind |
| `cmdline` | nothing lost but in the two places below, set as written, return without a BUG_ON | all lines of up to six characters over five classes; lines of up to two settings |
| `conversions` | results and range errors are right | all strings of up to four characters over ten; 8 bits for 64, 4 and 8 for the result |
| `format` | inside the buffer, the caller gets the output, arguments are shown, only malformed formats refused, progress | all formats of up to three characters over twelve; one conversion with flags, widths, precisions and lengths; a buffer of six characters |
| `symbols` | right entry, right name, return | all tables of up to four symbols with equal addresses, all addresses in and around the text |
| `unwind` | frames are real, complete with full information, from live words; the walk ends | eight functions, two nested interrupts, full and poor tables |
| `growth_is_not_reentrant` | violated: the second growth re-enters itself | one map of nine pages, four entries to the page |

Why the bounds are enough for the questions asked:

- `boot_alloc`: seven pages hold more than the three ranges that make the first growth due
  (`EntriesPerPage` = 6, watermark 4), all cases of `allocate_out_of` (middle,
  left, right and whole, each with and without neighbours to merge with), and
  loader entries that touch. One of the maps makes the buffer grow while
  `boot_alloc_init` still runs.
- `find_range`: five ranges are three halvings, with holes and without.
- `console`: four consoles allow a removal from the head, the middle and the end, and
  a re-registration with a stale `next` into a list of two others.
- `boot`: the lists hold each type of attribute twice, unknown ones before, between and
  behind the others, and lack each mandatory one; `earlycon=e9` twice is the shortest line that
  meets `EBUSY`. A second exception interrupts the panic of the first at each
  of its steps; a third would find the stack as the second does.
- `interrupts`: every path of the code; nothing is bounded but that one interrupt is
  followed at a time. That another may come is what `TraceGoesThrough` is for.
- `eh_frame`: four functions are two halvings of the table, with a hole between two of
  them; addresses in, before, between and behind the functions, as return
  addresses and as interrupted ones.
- `cmdline`: six characters hold a key, a value, quotes, spaces and both dashes in every
  order; the written lines add values with spaces and names with dashes.
- `conversions`: with eight bits, three digits overflow in every base above 2, and in
  both ways that the product and the sum can.
- `format`: the buffer ends inside the text, the number, the padding or behind the last
  character; numbers include the least, zero and the greatest of each length.
- `symbols`: a block is two symbols and a byte counts to one, so four symbols are two
  blocks and names of two tokens need two bytes.
- `unwind`: the functions have every shape that the kernel's code has: frame pointer,
  none, a push before a call, locals, a last call that does not return, and
  the trampoline of an exception; two interrupts nest a handler in a handler.

Deadlock is not checked where a model ends because the function returns or the
kernel stops; `Console`, which never ends, is checked for it, and so is `Format`, where
`Over` marks the end: with `EveryStepAdvances` that is termination without a
fairness condition.

### Fairness

Only loops that have begun are fair: `WriteOne` in `Console`, the steps of the
kernel in `Boot`, the instructions of a handler in `Interrupts`, the parser, the
lookup and the walk. The
code has one thread, so a function that is running goes on running; an
interrupt would return to it. Callers are never fair: nothing says that anyone
calls, and no interrupt or exception has to come.

## Known deviations

The violation run, in `PROJECT.json` under findings:

- The growth of a dynamic buffer frees the old one with `boot_free` before the
  switch, and `boot_free` grows again (`boot_alloc.c:431`).

More can be seen with configurations that are kept beside the runs:

- `BufferIsOwned.cfg` (with `MCBootAlloc`): `maybe_grow_buffer` tests its allocation
  with `addr == 0`, but a failure is an error code (`boot_alloc.c:421`): the
  error code becomes the buffer's address.
- `ConsoleHasWindow.cfg` (`MCBoot`): `unregister_console` does not unlink the head
  (`console.c:43`); a second `earlycon=e9` therefore takes the window from a
  console that is still listed (`earlycon.c:47`), and the next message panics.
- `EveryRegisterIsFound.cfg` (`Interrupts`): `UNWIND_HINT_AFTER_REG_PUSH` gives the
  register's offset before it moves the CFA (`unwind_hints.h:26`): between two
  instructions of `interrupt_begin`, rsi is looked for in the word of the return
  address. No row is relative to rsi, so traces are not affected.
- `LongLeb.cfg` (`MCEhFrame`): the parts of a LEB128 number are shifted as `int`
  (`unwind.c:108`): one above 31 bits is wrong. Compilers do not emit such
  numbers for this kernel.
- `GrowthKeepsTheMap.cfg` (with `MCBootAllocRegrow`): where the second growth does
  end, the map it switches to was copied before the old buffer was freed
  (`boot_alloc.c:425`): the free is lost.
- `PageZero.cfg` (`MCBootAlloc`): page 0 can be allocated, but its address reads as
  an error (`error.h:114`), so nobody owns it.
- `ReturnsAfterDashes.cfg` (`MCCmdline`): `param.h:108` says that what follows `--` is
  returned; an empty key, as in `= a`, ends the parse as well (`param.c:189`).
- `StrongSymbol.cfg` (`MCSymbols`): the generator sorts weak symbols behind others of
  the same address so that they do not replace them, and the lookup takes the
  last (`symbols.c:74-80`).
- `InterruptedAtEntry.cfg` (`MCUnwind`): `signal_frame` is cleared before the
  interrupted frame is looked up (`unwind.c:713`), so that an address that is
  exact, as the comment at `unwind.c:404-407` says, is reduced by one; at a
  function's first instruction that is another function.
- `FormatDeviations.cfg` (`MCFormat`, with `-continue`), `NeverPads`: `%pS` with a precision above the string's length
  pads without end, as the loop does not count (`format.c:346`). No message of
  the kernel uses a precision with `%pS`.
- The same, `WarningLeavesTheMessage`: a null `%pS` warns through `print`, that is
  into the `log_buf` (`log.c:28`) which is being written.
- The same, `ParamHasNoTerminator`: where the caller's string is too small,
  `param_get_<type>` counts the terminator as a character (`param.c:26`).
- `RowAtReturn.cfg` (`MCUnwind`): `dwarf_exec` compares rows with the return address
  and not with the address of the call (`unwind.c:556`): a row that begins behind
  a call that does not return is applied to the frame before it.

Two more are part of the properties themselves, which say where the code stops
short of what one would expect of it:

- `boot_free` accepts a free of no pages without a check (`boot_alloc.c:466`), while
  the allocations have a BUG_ON for it (`boot_alloc.c:277`, `324`). In allocated memory
  it puts an empty free range between the two halves of a range, and a later,
  correct free of all of it panics at the BUG_ON of `boot_alloc.c:152`, as it fits
  into no range; so does one of the second half, where the search hits the empty range.
  The last disjunct of `PanicOnlyOnMisuse` and `cuts` in `PageAllocator` say that this is
  the only way; without that disjunct, TLC finds the panic in the run `boot_alloc`.
- `cmdline_parse` drops a key that runs into the dashes, as in `a--` (`param.c:152`), and
  the value of an empty key, as in `=a` (`param.c:189`). `NothingLost` says that a
  parser that has returned has dropped nothing else.

`RoomForGrowth`, `OneOwner` and the refinement are therefore claims about the
allocator up to the second growth, on maps without page 0, and until a growth
fails; `WalkReportsCallStack` about interrupts that are not at a function's
first instruction and rows that do not begin behind a call. `BootAlloc` makes no
step once the second growth is due or the buffer is lost (`Running`).

## Proofs

Each theorem below holds for every value of the constants; the run that checks
the same property is in `PROJECT.json`. Each is proved from an inductive
invariant: the property itself is implied by it, but is seldom preserved by a
step without the rest.

### The boot allocator (`BootAllocProofs`)

- `MapStaysOrdered`: `Spec => [](TypeOK /\ MapOrdered)`, for every set of ordered
  loader maps, every page size of four entries or more and all requests and frees,
  those of no pages too. `TypeOK` has it that only free ranges are ever empty. The
  inductive invariant is `MapInv`, which adds `EntriesAbove`: while
  `boot_alloc_init` runs, the map is below the entry that is appended next;
  without it an append could break the order. The argument goes through
  two lemmas about `MemoryMap`: `ReplaceFacts` says that an ordered map stays ordered when
  neighbouring ranges are replaced by ordered ranges between the same bounds, and
  `AllocateOutOfFacts` that each of the cases of `allocate_out_of` is such a
  replacement, and adds at most two entries, also where the request or a neighbour
  is empty.
- `BufferNeverOverflows`: `PageZeroUnused => (Spec => []RoomForGrowth)`. The
  invariant `RoomInv` adds that the capacity is four at least, as doubling less
  would not make the room, and that no range starts below page 1: a growth that
  is given page 0 takes it for a failure after the map has become longer.
  `GrowFacts` holds the arithmetic of the watermark.
- `NoFragmentation`: `Spec => []OnlyLoaderSeams`. Two ranges of the same type touch
  only where the loader's own entries do. The invariant `SeamInv` adds
  `FromLoader`: every page of the map is a page of an entry that was appended
  already. Without it, the next append could make a seam with a range that is no
  loader entry. `NoCutsYet` adds that there is no empty range before the first free.
- `PagesHaveOneOwner` and `PanicsAreMisuse`: `OneOwner` and `PanicOnlyOnMisuse`, under
  `PageZeroUnused`. The invariant is `OwnerInv`, all of the above together: that a
  free of held pages finds one range that holds them needs the absence of seams
  and cuts, that no call stops half way needs the room in the buffer. Free pages in a
  row are in one range whatever has been cut, as an empty range is free and
  merges with its free neighbours (`Unbroken`); allocated ones are unless there is a
  cut between them.
- `Refinement`: `PageZeroUnused => (Spec => ImplementsPageAllocator)`. The initial
  states map to initial ones, and under `OwnerInv` every call of `BootAlloc` maps to a
  call of `PageAllocator` or to a stutter. No call but a free of no pages makes a cut,
  and none but a free next to it mends one. The hard half is the refusals: the
  abstract allocator may refuse only if the memory is not there, so a search that
  finds nothing has to mean that no run of free pages is long enough.

`PageZeroUnused` (no loader map has page 0) is a hypothesis and not an assumption,
because the code does not exclude page 0; `PageZero.cfg` shows what happens with it.

### The kernel's start, panic and early console (`BootProofs`)

- `OnePanicSpeaks` (`ReasonSaidOnce`) and `NothingFollowsAPanic` (`PanicIsFinal`), for
  any number of exceptions and any depth of the stack. The invariant `StackInv`
  relates the stack to `g_in_panic`: the boot code is at the bottom only; when a panic is
  on, one of its frames is on the stack; and at most one frame is that of a panic
  that speaks. The last two are what makes a nested panic, whether from a
  message or from an exception, go to the hang.
- `NoWindowIsLeaked` (`WindowIsInUse`), for every command line. It rests on `StackInv`: the
  setter runs only from the bottom of the stack.
- `ContextIsWhatWasPassed` (`ContextIsTheLoaders`), for every list of attributes of any
  length. The invariant `ContextInv` says that at position `k` of the loop the
  context is that of the attributes before `k` (`Gathered`), and that behind the
  checks it is that of the whole list with nothing mandatory missing (`Complete`).

### The console list (`ConsoleProofs`)

`EveryConsoleIsCalledOnce` (`EachOnce`) and `OthersAreKept` (`OthersStay`), for any finite set of
consoles. The invariant `ListInv` says that there is a sequence without
repetitions that the pointers spell (`Chain`), of which a `console_write` has done the
first part (`Walk`). `Node` and `Listed` follow pointers by a recursive
definition; that they give the members of the chain is shown by looking at the
least place where they would not (`LeastNumber`), as induction rules with an operator
as parameter are out of the provers' reach.

### Formatted output (`FormatProofs`)

- `OutputStaysInside` (`CallerGetsOutput`): for every format, all arguments and every
  size of the buffer, also 0. The invariant `FormatInv` says that every character is
  counted and that until the end those that fit are in the buffer, unless a
  warning was written over it. `Extends` is what every operator that writes
  promises (`WriteFacts`, `WriteEachExtends`, `WriteManyExtends`, `IntegerExtends`);
  `GotFacts` compares the terminator's place with the lengths that `vscnprintf` and
  `param_get_<type>` compute.
- `ConversionAdvances` (`EveryStepAdvances`), from the same invariant, step by step. With the
  absence of deadlocks, which only TLC checks, it is termination.

### The unwinder (`UnwindProofs`)

`WalkShowsRealFrames` (`FramesAreReal`), `WalkReadsLiveStack` (`ReadsOnlyTheStack`) and
`WalkIsComplete` (`WalkReportsCallStack`): for every code, any size of the stack, any
depth of calls and interrupts, and every table,
`InformationIsRight(layout) => (Spec => [] ...)` for any layout. The hypothesis is one
and not an assumption on constants because it is what the deviations below break: it
does not hold of the instances `InterruptedAtEntry.cfg` and `RowAtReturn.cfg`, where
the properties are violated, and holds of that of the run `unwind`, which TLC evaluates.

The inductive invariant `UnwindInv` has two halves.

- `Good`: the machine's stack is a `Chain` of frames. There is a sequence of register
  files, one for each activation in `calls`, that begins with the machine's own; each
  of them sits in its frame as the layout of its address says (`Sits`), and what the
  words of that frame give is the next one (`CallerOf`). Every instruction keeps this:
  one that stays in its frame changes the first element only (`GoesOn`), a call and an
  interrupt put one before it (`GoesIn`), `ret` and `iretq` take it away (`GoesBack`). That
  stack pointers ascend along the chain is why a push or a release below the frame of
  the callers changes nothing of theirs.
- `Walk`: a walk is at an element of this chain. At `report` and `prepare` the unwinder's
  registers are those of the element; at `exec` it has made the first `k` operations of an
  FDE, its rules are the `k`-th row, and no earlier row was the last (`Executing`); at
  `return` it is at the next element, or at the end, or it has failed. The step that
  matters is `ApplyRulesHolds`: the loop of `dwarf_exec` ends at the row that the definition
  `Row` means (`RowIsFirstEnd`), that row describes the frame, and so the registers it
  gives are those of the next element (`CallerIsFound`).

Full tables enter twice: the only entry that `find_fde` can find is then one that
`parse_fde` accepts (`FullTakes`), and its row is known (`FullKnows`), so nothing fails.
`CapturesInWalk` is used once, for the loop of `unwind_current_begin`: it ends at the frame
of the caller of `unwind_walk` and not before or behind it.

### Symbol lookup (`SymbolsProofs`)

`LookupNamesTheFunction` (`NamesTheFunction`): for every table of symbols in order, every size of
a block, every number of lengths that fit one byte, and every address. The invariant
`LookupInv` follows the lookup through its parts: the search's result is the entry
(`Looked`), the block's offset is the place of its first name (`Located`), each
step over a name moves from the beginning of one name to that of the next
(`Skipping`), and what has been expanded is the text of the tokens read so far
(`Expanding`). That the bytes of the names begin where the sums of the lengths say is
an induction along the sequence of symbols; it is done with sets of indices and
the order of the numbers (`UpTo`), as the library's rules for induction are not usable.

### Algorithms

- `SearchIsCorrect` and `SearchShrinks` (`FindRangeProofs`): the loop of `find_range`
  returns what the operator allows on every ordered map, empty ranges included, and
  the interval shrinks.
  The invariant is `Bracketed`: ranges left of the interval begin below the
  address, those right of it above.
- `SearchFindsLast` (`SymbolsProofs`): the search of `find_fde` and
  `symbol_lookup_by_address` returns the last entry that is not above the key on
  every ascending table with an entry. The invariant adds the order of the table
  and the bracket.
- `NothingEverWraps` (`ConversionsProofs`): the test `next / base != number` is exact,
  for every width and string: as long as it lets digits through, the accumulator
  is the number written, and every digit is in the base. The lemma `TestIsExact`
  is the arithmetic; the invariant adds that the base is known and the exact
  number below the modulus.
- `ConversionsAreExact` (`ConversionsProofs`, `ResultIsMeant`): a result is the number that was
  written, and an error of range is real. `ResultInv` adds the sign and that the value
  to be narrowed is what was meant; `TestIsComplete` is the converse of `TestIsExact`, and
  `NarrowIsExact` says that the comparison after the cast tells exactly the
  numbers that the type does not hold.

### Assumptions

Those of the constants, named in their modules, evaluated by TLC in the runs:
`MemoryMapsAssumption` (the loader sorts its entries, which the code relies on),
`EntriesPerPageAssumption`, `PagesAssumption`, `AttributeListsAssumption` (the types of
attributes that `boot_context_init` tells apart), `ConAssumption` (finitely many
consoles, NULL is none), `FormatAssumption` and `ArgumentsAssumption` (even widths, the empty length is
one; formats and strings are sequences of characters), `MapsAssumption`,
`ValuesAssumption`, `TablesAssumption`, `ModulusAssumption`, `BasesAssumption`,
`ParamsAssumption`, `BitsAssumption`, `SymbolTablesAssumption` (symbols in the order in which the
generator writes them), `CodeAssumption` (addresses of code are above the stack; tables
are sorted, as the linker leaves `.eh_frame_hdr`). `InformationAssumption` of
`MCUnwind` is no assumption of a proof: with it TLC evaluates the hypothesis of the
unwinder's theorems.

### Only model-checked

- The liveness properties (`WriteReturns`, `BootEnds`, `PanicHangs`, `IsHandled`, `Returns`,
  `LookupReturns`, `WalkEnds`): fairness is out of the prover's reach.
- `ShowsTheArgument` of `Format` reads a printed number back with `SelectSeq` and a fold over
  its characters, and the prover cannot expand `SelectSeq`.
- `RefusesOnlyMalformed` of `Format`, `NothingLost` and `SetsAsWritten` of `Cmdline`: both sides
  are recursive functions over the characters of a line, so a proof is an induction over
  data. The induction can be stated with sets of indices, as `SymbolsProofs` does for
  `SearchFindsLast`; for these three it has not been done.
- `Interrupts`: the model has no constants, so TLC's exploration of every vector is exhaustive
  and a theorem would add nothing to it.
- `EhFrame`: `AvailableIsValid`, `ReadsInside` and `FindsTheInformation` are checked on the encodings
  that linkers use, with bytes of 3 bits; other encodings and images are not covered.

## Not modelled

- The read and write accessors of `kernel/io.c` and `kernel/arch/*/io.c`: they move bytes
  between a device and memory. Windows of memory: the code refuses them.
- `page_table.h` and `memory.c`: address arithmetic for page tables that no code builds.
- The bits of `descriptors.h`, the table of `ctype.c`, cpuid and other single
  instructions: layouts and constants that only a processor can disagree with.
- `string.c`: helpers without state. The heap: a stub that returns NULL.
- The initcalls: nothing runs them.
- The choice of tokens in the generator, the build scripts and the test harness.
- The arm port, which is stubs.

`Unwind` begins with the decoded operations of an FDE and `EhFrame` ends with the
range of their bytes; the bytes of DWARF operations are decoded by a `switch`
over single bytes that neither repeats.

## Plan

Proofs that are left, in this order:

1. `RefusesOnlyMalformed` for every format: an invariant that says what the rest of the
   format must still be at each `pc`, under the assumption that no length modifier holds a
   character of a specifier, a flag or a digit.
2. `NothingLost` and `SetsAsWritten` of `Cmdline` for every line.
3. `ReadsInside` and `AvailableIsValid` of `EhFrame` for every image.
