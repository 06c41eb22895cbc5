--------------------------- MODULE BootAllocRegrow ---------------------------
(***************************************************************************)
(* The growth of a buffer that is dynamic already (maybe_grow_buffer of    *)
(* kernel/memory/boot_alloc.c).  The old buffer is given back through      *)
(* boot_free, which itself begins with maybe_grow_buffer, while g_buffer   *)
(* and g_capacity still are the old ones: the function may re-enter        *)
(* itself.  Module BootAlloc stops where this begins; here every activation*)
(* of maybe_grow_buffer is a frame, and the steps are its own.             *)
(***************************************************************************)
EXTENDS BootAlloc

CONSTANTS
    MaxFrames,          \* bound: activations of maybe_grow_buffer at once,
                        \* on maps where PageZeroUnused
    Junk                \* what memory that was never written may hold

VARIABLE
    frames              \* activations of maybe_grow_buffer, innermost last

regrow_vars == <<vars, frames>>

callers == <<memory_map, next_entry, call, held>>

RegrowInit == Init /\ frames = <<>>

\* Any call, as BootAlloc has it: none is made while a growth is under way.
Call == frames = <<>> /\ Next /\ UNCHANGED frames

(***************************************************************************)
(* maybe_grow_buffer up to the memcpy: the new buffer is taken out of the  *)
(* map, which changes the old buffer, and the old buffer is copied to it.  *)
(* The arguments of the boot_free that follows name the old buffer.        *)
(***************************************************************************)
CopyToNewBuffer(outer) ==
    LET new_pages == pages_for(2 * g_capacity)
        a == boot_alloc_nogrow(Globals, new_pages)
    IN  /\ ranges' = a.ranges
        /\ bug' = a.bug
        /\ frames' = Append(outer, [buffer    |-> a.ret,
                                    capacity  |-> new_pages * EntriesPerPage,
                                    copy      |-> a.ranges,
                                    old       |-> g_buffer,
                                    old_pages |-> pages_for(g_capacity),
                                    stage     |-> "copied"])
        /\ UNCHANGED <<g_buffer, g_capacity, callers>>

\* A call finds that the dynamic buffer must grow.
BeginGrowth ==
    /\ frames = <<>>
    /\ bug = "none" /\ g_buffer >= 0 /\ RegrowthDue
    /\ CopyToNewBuffer(<<>>)

Innermost == frames[Len(frames)]

\* The frames with the innermost one moved on to the given stage.
AtStage(stage) == [frames EXCEPT ![Len(frames)].stage = stage]

\* boot_free of the old buffer begins, and finds that the buffer must grow.
GrowAgain ==
    /\ frames # <<>> /\ bug = "none"
    /\ Innermost.stage = "copied"
    /\ GrowthDue(g_buffer, g_capacity, ranges)
    /\ Len(frames) < MaxFrames
    /\ CopyToNewBuffer(AtStage("grown"))

\* boot_free, past its own maybe_grow_buffer, frees the old buffer in the map
\* that g_buffer holds at this moment.
FreeOldBuffer ==
    /\ frames # <<>> /\ bug = "none"
    /\ \/ Innermost.stage = "copied" /\ ~GrowthDue(g_buffer, g_capacity, ranges)
       \/ Innermost.stage = "grown"
    /\ \E s \in free_range(Globals, Innermost.old, Innermost.old_pages) :
           ranges' = s.ranges /\ bug' = s.bug
    /\ frames' = AtStage("freed")
    /\ UNCHANGED <<g_buffer, g_capacity, callers>>

\* The first g_entry_count entries of a buffer that was last written when it
\* held the entries of copy: entries beyond the copy were never written.
ReadBack(copy, entry_count, rest) ==
    [k \in 1 .. entry_count |-> IF k <= Len(copy) THEN copy[k] ELSE rest[k]]

(***************************************************************************)
(* The end of maybe_grow_buffer: the copy becomes the map.  g_entry_count  *)
(* is what boot_free left it at.                                           *)
(***************************************************************************)
SwitchBuffer ==
    /\ frames # <<>> /\ Innermost.stage = "freed" /\ bug = "none"
    /\ g_buffer' = Innermost.buffer
    /\ g_capacity' = Innermost.capacity
    /\ \E rest \in [1 .. Len(ranges) -> Junk] :
         ranges' = ReadBack(Innermost.copy, Len(ranges), rest)
    /\ frames' = SubSeq(frames, 1, Len(frames) - 1)
    /\ UNCHANGED <<bug, callers>>

RegrowNext ==
    \/ Call
    \/ BeginGrowth
    \/ GrowAgain
    \/ FreeOldBuffer
    \/ SwitchBuffer

RegrowSpec == RegrowInit /\ [][RegrowNext]_regrow_vars

-----------------------------------------------------------------------------
(***************************************************************************)
(* "If the current buffer is a dynamic allocation, we must account for the *)
(* boot_free() 'allocation' as well": the watermark leaves enough entries  *)
(* for the boot_free of the old buffer, which therefore does not grow.     *)
(***************************************************************************)
GrowthIsNotReentrant == Len(frames) <= 1

(***************************************************************************)
(* A finished growth leaves the map as boot_free left it: what is recorded *)
(* as allocated is what callers and the new buffer own, and the old buffer *)
(* is free again.                                                          *)
(***************************************************************************)
GrowthKeepsTheMap == frames = <<>> /\ bug = "none" => OneOwner
=============================================================================
