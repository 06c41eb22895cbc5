------------------------------- MODULE FindRange -----------------------------
(***************************************************************************)
(* The binary search find_range of kernel/memory/boot_alloc.c, one action  *)
(* per iteration of its loop.  Module BootAlloc uses its result, operator  *)
(* find_range of MemoryMap; this module shows that the loop computes it.   *)
(*                                                                         *)
(* Indices start at 1 and "none" is 0, as in MemoryMap.                    *)
(***************************************************************************)
EXTENDS MemoryMap

CONSTANTS
    Maps,       \* the memory maps that are searched
    Values      \* the addresses that are looked for

\* The caller's map is in order: MapOrdered of BootAlloc.
ASSUME MapsAssumption == \A m \in Maps : IsMemoryMap(m)
ASSUME ValuesAssumption == Values \subseteq Nat

VARIABLES
    map, value, allow_above,    \* the arguments and the globals searched
    left, right,                \* the interval that is still open
    pc,                         \* "search", or "done" after the return
    result                      \* the index returned

vars == <<map, value, allow_above, left, right, pc, result>>
args == <<map, value, allow_above>>

middle == left + ((right - left) \div 2)

Init ==
    /\ map \in Maps
    /\ value \in Values
    /\ allow_above \in BOOLEAN
    /\ left = 1
    /\ right = Len(map)
    /\ pc = "search"
    /\ result = 0

GoRight ==
    /\ pc = "search" /\ left <= right
    /\ map[middle].physical_address < value
    /\ left' = middle + 1
    /\ UNCHANGED <<args, right, pc, result>>

\* Mutant: the step goes the wrong way.
GoLeft_one_above ==
    /\ pc = "search" /\ left <= right
    /\ value < map[middle].physical_address
    /\ right' = middle + 1
    /\ UNCHANGED <<args, left, pc, result>>

GoLeft ==
    /\ pc = "search" /\ left <= right
    /\ value < map[middle].physical_address
    /\ right' = middle - 1
    /\ UNCHANGED <<args, left, pc, result>>

Hit ==
    /\ pc = "search" /\ left <= right
    /\ map[middle].physical_address = value
    /\ result' = middle
    /\ pc' = "done"
    /\ UNCHANGED <<args, left, right>>

\* Mutant: the end of the range below belongs to it.
ReturnBelow_closed_end ==
    /\ pc = "search" /\ left > right
    /\ right >= 1
    /\ map[right].physical_address < value /\ value <= mr_end(map[right])
    /\ result' = right
    /\ pc' = "done"
    /\ UNCHANGED <<args, left, right>>

\* After the loop: the range just below value may still cover it.
ReturnBelow ==
    /\ pc = "search" /\ left > right
    /\ right >= 1
    /\ map[right].physical_address < value /\ value < mr_end(map[right])
    /\ result' = right
    /\ pc' = "done"
    /\ UNCHANGED <<args, left, right>>

\* Otherwise the range above is the answer, if there is one and it is wanted.
ReturnAbove ==
    /\ pc = "search" /\ left > right
    /\ ~(/\ right >= 1
         /\ map[right].physical_address < value /\ value < mr_end(map[right]))
    /\ left' = IF left = Len(map) + 1 THEN 0 ELSE left
    /\ result' = IF allow_above THEN left' ELSE 0
    /\ pc' = "done"
    /\ UNCHANGED <<args, right>>

Next == GoRight \/ GoLeft \/ Hit \/ ReturnBelow \/ ReturnAbove

Spec == Init /\ [][Next]_vars

-----------------------------------------------------------------------------
(***************************************************************************)
(* The variables hold values of their types.                               *)
(***************************************************************************)
TypeOK ==
    /\ IsMemoryMap(map) /\ value \in Values /\ allow_above \in BOOLEAN
    /\ left \in 0 .. (Len(map) + 1)
    /\ right \in 0 .. Len(map)
    /\ pc \in {"search", "done"}
    /\ result \in 0 .. Len(map)

(***************************************************************************)
(* "Left is always lower bound, right is always lower bound - 1": while    *)
(* the loop runs, every range before left starts below value and every one *)
(* after right starts above it, and the two never cross by more than one.  *)
(***************************************************************************)
Bracketed ==
    pc = "search" =>
        /\ 1 <= left /\ left <= right + 1
        /\ \A i \in 1 .. (left - 1) : map[i].physical_address < value
        /\ \A i \in (right + 1) .. Len(map) : value < map[i].physical_address

(***************************************************************************)
(* find_range returns a range that starts at value or covers it or, when   *)
(* the caller allows it, the first one above value, or none: what          *)
(* boot_free and allocate_within rely on, empty ranges in the map or not.  *)
(***************************************************************************)
FindsRange == pc = "done" => result \in find_range(map, value, allow_above)

\* Each iteration that does not return leaves a shorter interval open.
Shrinks ==
    [][pc' = "search" => /\ right' - left' < right - left
                         /\ left <= left' /\ right' <= right]_vars
=============================================================================
