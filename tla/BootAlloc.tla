------------------------------- MODULE BootAlloc -----------------------------
(***************************************************************************)
(* The boot allocator, kernel/memory/boot_alloc.c.  It keeps a memory map  *)
(* in a buffer that is first a static array and, when it runs short of     *)
(* entries, a buffer that the allocator takes out of the very memory it    *)
(* hands out.                                                              *)
(*                                                                         *)
(* The kernel is single threaded while the boot allocator is in use, so    *)
(* each call is one action.  The operators named after the C functions     *)
(* take the allocator's globals as one record and return them changed;     *)
(* a BUG() is the value of its field bug.                                  *)
(*                                                                         *)
(* The growth of a buffer that is itself dynamic calls back into boot_free *)
(* and is module BootAllocRegrow; here no call is made once it is due.     *)
(***************************************************************************)
EXTENDS MemoryMap

CONSTANTS
    EntriesPerPage,     \* PAGE_SIZE / sizeof(struct memory_range)
    MemoryMaps,         \* the memory maps the loader may pass
    Pages,              \* the page numbers callers name
    MaxPages            \* bound: the longest request of a caller, in pages

LoaderTypes == {"FREE", "RECLAIMABLE", "KERNEL_BINARY", "LOADER_RECLAIMABLE",
                "RESERVED"}

LoaderEntries == [physical_address : Nat, size : Nat \ {0}, type : LoaderTypes]

\* The loader passes its entries in ascending order; the code relies on it.
ASSUME MemoryMapsAssumption ==
    \A mm \in MemoryMaps : mm \in Seq(LoaderEntries) /\ Ordered(mm)

\* Whether page 0, whose address reads as an error code, is never handed over.
PageZeroUnused ==
    \A mm \in MemoryMaps : \A i \in DOMAIN mm : mm[i].physical_address >= 1

ASSUME EntriesPerPageAssumption == EntriesPerPage \in Nat /\ EntriesPerPage >= 4

ASSUME PagesAssumption == Pages \subseteq Nat /\ MaxPages \in Nat

ENOMEM == -1            \* encode_error_phys_addr(ENOMEM): not a page address
g_initial_buffer == -2  \* the static array: not in memory the map describes

\* A byte address up to MAX_ERRNO is an error code, or lies in page 0.
error_phys_addr(ret) == ret <= 0

\* "none", and the places where the allocator panics.
Bugs == {"none", "allocate_out_of", "range_emplace_at", "invalid allocation",
         "invalid free"}

VARIABLES
    memory_map,         \* g_boot_ctx.memory_map, the loader's entries
    next_entry,         \* i of boot_alloc_init
    g_buffer,           \* where the map is kept: g_initial_buffer or a page
    g_capacity,         \* entries the buffer has room for
    ranges,             \* the first g_entry_count entries of the buffer
    bug,                \* "none", or the BUG() that stopped the kernel
    call,               \* history: the last call and what it returned
    held                \* history: the pages callers own

vars == <<memory_map, next_entry, g_buffer, g_capacity, ranges, bug, call, held>>

Globals == [buffer |-> g_buffer, capacity |-> g_capacity, ranges |-> ranges,
            bug |-> bug, ret |-> 0, ok |-> TRUE]

-----------------------------------------------------------------------------
(***************************************************************************)
(* Allocation out of the map.                                              *)
(***************************************************************************)

\* allocate_out_of with its BUG_ONs and the one of range_emplace_at.
carve(s, idx, new_mr) ==
    IF ~may_allocate_out_of(s.ranges[idx], new_mr)
    THEN [s EXCEPT !.bug = "allocate_out_of"]
    ELSE LET map == allocate_out_of(s.ranges, idx, new_mr)
         IN  IF Len(map) > s.capacity
             THEN [s EXCEPT !.bug = "range_emplace_at"]
             ELSE [s EXCEPT !.ranges = map]

\* Mutant: a range that fits exactly is passed over.
allocate_top_down_longer(s, page_count) ==
    LET fits == {i \in DOMAIN s.ranges : /\ s.ranges[i].type = MEMORY_FREE
                                         /\ s.ranges[i].size > page_count}
        idx  == CHOOSE i \in fits : \A j \in fits : j <= i
        base == mr_end(s.ranges[idx]) - page_count
    IN  IF page_count = 0 THEN [s EXCEPT !.bug = "invalid allocation"]
        ELSE IF fits = {} THEN [s EXCEPT !.ret = ENOMEM]
        ELSE [carve(s, idx, MR(base, page_count, MEMORY_ALLOCATED))
                EXCEPT !.ret = base]

\* The highest free range that is long enough gives up its last pages.
allocate_top_down(s, page_count) ==
    LET fits == {i \in DOMAIN s.ranges : /\ s.ranges[i].type = MEMORY_FREE
                                         /\ s.ranges[i].size >= page_count}
        idx  == CHOOSE i \in fits : \A j \in fits : j <= i
        base == mr_end(s.ranges[idx]) - page_count
    IN  IF page_count = 0 THEN [s EXCEPT !.bug = "invalid allocation"]
        ELSE IF fits = {} THEN [s EXCEPT !.ret = ENOMEM]
        ELSE [carve(s, idx, MR(base, page_count, MEMORY_ALLOCATED))
                EXCEPT !.ret = base]

boot_alloc_nogrow(s, num_pages) == allocate_top_down(s, num_pages)

(***************************************************************************)
(* Range k of map is the one the loop of allocate_within breaks out at,    *)
(* having entered at range first: k has page_count free pages between the  *)
(* limits, and no range on the way had them or ended the search.           *)
(***************************************************************************)
picked_within(map, page_count, lower_limit, upper_limit, first, k) ==
    LET below(a) == IF a < upper_limit THEN a ELSE upper_limit
        above(a) == IF a > lower_limit THEN a ELSE lower_limit
        gap(j)   == below(mr_end(map[j])) - above(map[j].physical_address)
        fits(j)  == /\ map[j].physical_address <= upper_limit
                    /\ map[j].type = MEMORY_FREE
                    /\ gap(j) >= page_count
        goes_on(j) == /\ map[j].physical_address <= upper_limit
                      /\ mr_end(map[j]) < upper_limit
                      /\ upper_limit - mr_end(map[j]) >= page_count
    IN  fits(k) /\ \A j \in first .. (k - 1) : ~fits(j) /\ goes_on(j)

\* The loop of allocate_within, entered at range first.
allocate_from(s, first, page_count, lower_limit, upper_limit) ==
    LET picked == {k \in first .. Len(s.ranges) :
                     picked_within(s.ranges, page_count, lower_limit,
                                   upper_limit, first, k)}
        idx    == CHOOSE k \in picked : TRUE
        start  == s.ranges[idx].physical_address
        base   == IF lower_limit > start THEN lower_limit ELSE start
    IN  IF first = 0 \/ picked = {} THEN [s EXCEPT !.ret = ENOMEM]
        ELSE [carve(s, idx, MR(base, page_count, MEMORY_ALLOCATED))
                EXCEPT !.ret = base]

\* The globals it may leave, one for each range that find_range may return.
allocate_within(s, page_count, lower_limit, upper_limit) ==
    IF page_count = 0 \/ lower_limit + page_count > upper_limit
    THEN {[s EXCEPT !.bug = "invalid allocation"]}
    ELSE {allocate_from(s, first, page_count, lower_limit, upper_limit) :
            first \in find_range(s.ranges, lower_limit, TRUE)}

-----------------------------------------------------------------------------
(***************************************************************************)
(* Growth of the buffer.                                                   *)
(***************************************************************************)

WorstCaseGrowth == 2

\* Mutant: room for the call, none for the growth that precedes the next one.
growth_watermark_one_call(buffer) ==
    IF buffer = g_initial_buffer THEN WorstCaseGrowth ELSE 2 * WorstCaseGrowth

growth_watermark(buffer) ==
    IF buffer = g_initial_buffer THEN 2 * WorstCaseGrowth ELSE 3 * WorstCaseGrowth

\* PAGE_ROUND_UP(entries * sizeof(struct memory_range)) >> PAGE_SHIFT
pages_for(entries) == (entries + EntriesPerPage - 1) \div EntriesPerPage

GrowthDue(buffer, capacity, map) ==
    capacity - Len(map) < growth_watermark(buffer)

(***************************************************************************)
(* The first growth, out of the static array.  A failed allocation returns *)
(* an error code, which is not the 0 the code tests for: the error code    *)
(* becomes the address of the buffer.                                      *)
(***************************************************************************)
maybe_grow_buffer(s) ==
    LET new_pages == pages_for(2 * s.capacity)
        a == boot_alloc_nogrow(s, new_pages)
    IN  IF ~GrowthDue(s.buffer, s.capacity, s.ranges) THEN s
        ELSE IF a.bug # "none" THEN a
        ELSE IF a.ret = 0 THEN [a EXCEPT !.ok = FALSE]
        ELSE [a EXCEPT !.buffer = a.ret, !.capacity = new_pages * EntriesPerPage]

range_append(s, mr) ==
    LET g == maybe_grow_buffer(s)
    IN  IF g.bug # "none" THEN g
        ELSE IF ~g.ok THEN [g EXCEPT !.ret = ENOMEM]
        ELSE IF Len(g.ranges) >= g.capacity
             THEN [g EXCEPT !.bug = "range_emplace_at"]
        ELSE [g EXCEPT !.ranges = Append(g.ranges, mr), !.ret = 0]

boot_alloc(s, num_pages) ==
    LET g == maybe_grow_buffer(s)
    IN  IF g.bug # "none" THEN g
        ELSE IF ~g.ok THEN [g EXCEPT !.ret = ENOMEM]
        ELSE boot_alloc_nogrow(g, num_pages)

boot_alloc_at(s, address, num_pages) ==
    LET g == maybe_grow_buffer(s)
    IN  IF g.bug # "none" THEN {g}
        ELSE IF ~g.ok THEN {[g EXCEPT !.ret = ENOMEM]}
        ELSE allocate_within(g, num_pages, address, address + num_pages)

\* The part of boot_free that follows its maybe_grow_buffer: the globals it may
\* leave.  Nothing is asked of num_pages: a free of no pages inside of an
\* allocated range cuts it in two, with an empty free range between them.
free_range(s, address, num_pages) ==
    {IF idx = 0 THEN [s EXCEPT !.bug = "invalid free"]
     ELSE carve(s, idx, MR(address, num_pages, MEMORY_FREE)) :
        idx \in find_range(s.ranges, address, FALSE)}

\* When the buffer cannot grow the pages are leaked, with a warning.
boot_free(s, address, num_pages) ==
    LET g == maybe_grow_buffer(s)
    IN  IF g.bug # "none" \/ ~g.ok THEN {g}
        ELSE free_range(g, address, num_pages)

-----------------------------------------------------------------------------
(***************************************************************************)
(* The calls.                                                              *)
(***************************************************************************)

BufferPages ==
    IF g_buffer >= 0 THEN Run(g_buffer, pages_for(g_capacity)) ELSE {}

RegrowthDue ==
    g_buffer # g_initial_buffer /\ GrowthDue(g_buffer, g_capacity, ranges)

(***************************************************************************)
(* The kernel stops at a BUG().  After a failed growth it would go on, but *)
(* with its map in memory it does not own: what follows is undefined.      *)
(***************************************************************************)
Running == bug = "none" /\ g_buffer # ENOMEM /\ ~RegrowthDue

Initialised == next_entry > Len(memory_map)

NoCall == [op |-> "none", address |-> 0, pages |-> 0, ret |-> 0]

Init ==
    /\ memory_map \in MemoryMaps
    /\ next_entry = 1
    /\ g_buffer = g_initial_buffer
    /\ g_capacity = EntriesPerPage
    /\ ranges = <<>>
    /\ bug = "none"
    /\ call = NoCall
    /\ held = {}

\* The globals as the operator left them, and the call in the history.
Returns(s, op, address, num_pages, ret) ==
    /\ g_buffer' = s.buffer
    /\ g_capacity' = s.capacity
    /\ ranges' = s.ranges
    /\ bug' = s.bug
    /\ call' = [op |-> op, address |-> address, pages |-> num_pages,
                ret |-> IF s.bug = "none" THEN ret ELSE 0]

\* The pages an allocation gives its caller, who sees page 0 as an error.
Granted(s, num_pages) ==
    IF s.bug # "none" \/ error_phys_addr(s.ret) THEN {} ELSE Run(s.ret, num_pages)

\* One iteration of boot_alloc_init: memory the kernel may use ...
AppendEntry ==
    /\ Running /\ ~Initialised
    /\ memory_map[next_entry].type # "RESERVED"
    /\ LET entry == memory_map[next_entry]
           type  == IF entry.type = "FREE" THEN MEMORY_FREE ELSE MEMORY_ALLOCATED
           s     == range_append(Globals,
                                 MR(entry.physical_address, entry.size, type))
       IN  /\ Returns(s, "append", entry.physical_address, entry.size, s.ret)
           /\ held' = IF s.bug = "none" /\ s.ret = 0 /\ type = MEMORY_ALLOCATED
                        THEN held \cup PagesOf(entry) ELSE held
    /\ next_entry' = next_entry + 1
    /\ UNCHANGED memory_map

\* ... and memory it may not, which the switch skips.
SkipEntry ==
    /\ Running /\ ~Initialised
    /\ memory_map[next_entry].type = "RESERVED"
    /\ next_entry' = next_entry + 1
    /\ UNCHANGED <<memory_map, g_buffer, g_capacity, ranges, bug, call, held>>

Alloc(num_pages) ==
    /\ Running /\ Initialised
    /\ LET s == boot_alloc(Globals, num_pages)
       IN  /\ Returns(s, "alloc", 0, num_pages, s.ret)
           /\ held' = held \cup Granted(s, num_pages)
    /\ UNCHANGED <<memory_map, next_entry>>

AllocAt(address, num_pages) ==
    /\ Running /\ Initialised
    /\ \E s \in boot_alloc_at(Globals, address, num_pages) :
           /\ Returns(s, "alloc_at", address, num_pages, s.ret)
           /\ held' = held \cup Granted(s, num_pages)
    /\ UNCHANGED <<memory_map, next_entry>>

(***************************************************************************)
(* Callers free what they hold, or no pages at all, which can be at any    *)
(* address.  They may also free pages by mistake, except the allocator's   *)
(* buffer and except while growth is due, when the growth may take the     *)
(* very pages named and the mistake cannot be seen.                        *)
(***************************************************************************)
Free(address, num_pages) ==
    /\ Running /\ Initialised
    /\ Run(address, num_pages) \cap BufferPages = {}
    /\ \/ Run(address, num_pages) \subseteq held
       \/ ~GrowthDue(g_buffer, g_capacity, ranges)
    /\ \E s \in boot_free(Globals, address, num_pages) :
           /\ Returns(s, "free", address, num_pages, 0)
           /\ held' = IF s.bug = "none" THEN held \ Run(address, num_pages) ELSE held
    /\ UNCHANGED <<memory_map, next_entry>>

Next ==
    \/ AppendEntry
    \/ SkipEntry
    \/ \E n \in 0 .. MaxPages : Alloc(n)
    \/ \E a \in Pages, n \in 0 .. MaxPages : AllocAt(a, n)
    \/ \E a \in Pages, n \in 0 .. MaxPages : Free(a, n)

Spec == Init /\ [][Next]_vars

-----------------------------------------------------------------------------
(***************************************************************************)
(* Properties.                                                             *)
(***************************************************************************)

AllocatedPages == PagesOfType(ranges, MEMORY_ALLOCATED)
FreePages == PagesOfType(ranges, MEMORY_FREE)

\* The pages before which the map has an empty range.
CutsOf(map) == {map[i].physical_address : i \in {j \in DOMAIN map : map[j].size = 0}}

Cuts == CutsOf(ranges)

\* The variables hold values of their types.
TypeOK ==
    /\ memory_map \in MemoryMaps
    /\ next_entry \in Nat \ {0}
    /\ g_buffer \in Nat \cup {ENOMEM, g_initial_buffer}
    /\ g_capacity \in Nat
    /\ ranges \in Seq(Ranges)
    /\ bug \in Bugs
    /\ call \in [op : {"none", "append", "alloc", "alloc_at", "free"},
                 address : Nat, pages : Nat, ret : Nat \cup {ENOMEM}]
    /\ held \subseteq Nat

(***************************************************************************)
(* The map stays in ascending order without overlaps through every split,  *)
(* merge and growth of allocate_out_of: find_range's binary search and the *)
(* neighbour tests of range_before and range_after depend on it.           *)
(***************************************************************************)
MapOrdered == Ordered(ranges)

(***************************************************************************)
(* Allocated memory has exactly one owner: the callers' pages and the      *)
(* buffer are disjoint and together are what the map records as allocated. *)
(* No page is handed out twice, none is lost, and the map never describes  *)
(* its own buffer as free (maybe_grow_buffer, allocate_out_of, boot_free). *)
(***************************************************************************)
OneOwner ==
    /\ held \cap BufferPages = {}
    /\ AllocatedPages = held \cup BufferPages

(***************************************************************************)
(* The capacity check of range_emplace_at never fires: between calls the   *)
(* buffer has room for the entries the next call adds before the buffer    *)
(* has grown, which is what the watermark of maybe_grow_buffer is for.     *)
(***************************************************************************)
RoomForGrowth ==
    /\ bug # "range_emplace_at"
    /\ bug = "none" => Len(ranges) + WorstCaseGrowth <= g_capacity

\* Page b starts a loader entry that directly follows another one.
LoaderSeam(b) ==
    \E i \in 1 .. (Len(memory_map) - 1) :
        mr_end(memory_map[i]) = b /\ memory_map[i + 1].physical_address = b

(***************************************************************************)
(* Neighbours of one type are always merged, except where the loader       *)
(* itself passed two adjacent entries: allocate_out_of leaves no memory    *)
(* fragmented in the map that is not fragmented in fact, but allocated     *)
(* memory that a free of no pages has cut.                                 *)
(***************************************************************************)
OnlyLoaderSeams ==
    \A i \in 1 .. (Len(ranges) - 1) :
        can_merge_ranges(ranges[i], ranges[i + 1]) =>
            LoaderSeam(ranges[i + 1].physical_address)

\* The pages a free is about: one of no pages still names the first.
Named(address, num_pages) ==
    IF num_pages = 0 THEN {address} ELSE Run(address, num_pages)

(***************************************************************************)
(* A panic is always the caller's doing: an empty request; a free of pages *)
(* that are not all held or that spans two loader entries; or a free of    *)
(* pages that are held, but that a free of no pages has cut before (the    *)
(* BUG_ONs of allocate_out_of are reached by that one correct call).       *)
(***************************************************************************)
PanicOnlyOnMisuse ==
    bug # "none" =>
        \/ call.op \in {"alloc", "alloc_at"} /\ call.pages = 0
        \/ /\ call.op = "free"
           /\ \/ ~(Named(call.address, call.pages) \subseteq held)
              \/ \E b \in Run(call.address + 1, call.pages - 1) : LoaderSeam(b)
              \/ Named(call.address, call.pages) \cap Cuts # {}

(***************************************************************************)
(* The map lives in the static array or in pages it records as allocated:  *)
(* a growth that finds no memory is refused (the test of maybe_grow_buffer *)
(* that returns false, and its callers' ENOMEM).                           *)
(***************************************************************************)
BufferIsOwned ==
    \/ g_buffer = g_initial_buffer
    \/ g_buffer >= 0 /\ BufferPages \subseteq AllocatedPages

(***************************************************************************)
(* A request that is refused takes nothing: all allocated memory belongs   *)
(* to a caller, or to the allocator's buffer.                              *)
(***************************************************************************)
NoPageLost == AllocatedPages \subseteq held \cup BufferPages

-----------------------------------------------------------------------------
(***************************************************************************)
(* The allocator implements PageAllocator: whatever it does to its ranges  *)
(* and its buffer, callers see sets of pages change hands.                 *)
(***************************************************************************)
Regions == {PagesOf(memory_map[i]) : i \in DOMAIN memory_map}

Abstract == INSTANCE PageAllocator
              WITH regions  <- Regions,
                   free     <- FreePages,
                   held     <- held,
                   own      <- BufferPages,
                   cuts     <- Cuts,
                   panicked <- bug # "none",
                   call     <- call,
                   NoMemory <- ENOMEM

\* Every behaviour of the allocator is one that PageAllocator allows.
ImplementsPageAllocator == Abstract!Spec
=============================================================================
