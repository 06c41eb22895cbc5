------------------------------ MODULE MemoryMap ------------------------------
(***************************************************************************)
(* The memory map of the boot allocator (kernel/memory/boot_alloc.c) as a  *)
(* value: a sequence of ranges ordered by address, and the operators that  *)
(* search it, split it and merge it.  The sequence is the first            *)
(* g_entry_count entries of g_buffer; index i of the code is i + 1 here,   *)
(* and the code's "no such range" (-1 or NULL) is index 0.                 *)
(*                                                                         *)
(* Addresses and sizes are counted in pages.  Every size the allocator     *)
(* computes is a whole number of pages, so bit 0 of size_and_type is free  *)
(* to hold the type, and the record below keeps the two apart.             *)
(***************************************************************************)
EXTENDS Integers, Sequences

MEMORY_FREE == 0
MEMORY_ALLOCATED == 1

\* Everything an entry of the map may hold.  An empty one is free: it is what
\* a boot_free of no pages leaves behind.
Ranges == {mr \in [physical_address : Nat, size : Nat,
                   type : {MEMORY_FREE, MEMORY_ALLOCATED}] :
              mr.size = 0 => mr.type = MEMORY_FREE}

MR(physical_address, size, type) ==
    [physical_address |-> physical_address, size |-> size, type |-> type]

mr_end(mr) == mr.physical_address + mr.size

\* The run of n pages that starts at page a.
Run(a, n) == a .. (a + n - 1)

PagesOf(mr) == Run(mr.physical_address, mr.size)

\* The pages the map records with a given type.
PagesOfType(map, type) ==
    UNION {PagesOf(map[i]) : i \in {j \in DOMAIN map : map[j].type = type}}

(***************************************************************************)
(* Entries lo .. hi of the map replaced by the sequence new; the entries   *)
(* behind them keep their order.  Every range_insert of the code, and the  *)
(* memmove that closes the hole a merge leaves, is a Replace.              *)
(***************************************************************************)
Replace(map, lo, hi, new) ==
    LET cut == hi - lo + 1
    IN  [k \in 1 .. (Len(map) - cut + Len(new)) |->
           IF k < lo THEN map[k]
           ELSE IF k < lo + Len(new) THEN new[k - lo + 1]
           ELSE map[k - Len(new) + cut]]

-----------------------------------------------------------------------------
(***************************************************************************)
(* Searching.                                                              *)
(***************************************************************************)

Covers(mr, value) == mr.physical_address <= value /\ value < mr_end(mr)

\* Index i is the first range that starts above value.
FirstAbove(map, value, i) ==
    /\ value < map[i].physical_address
    /\ \A j \in 1 .. (i - 1) : map[j].physical_address < value

StartingAt(map, value) == {i \in DOMAIN map : map[i].physical_address = value}
Covering(map, value) == {i \in DOMAIN map : Covers(map[i], value)}
FirstsAbove(map, value) == {i \in DOMAIN map : FirstAbove(map, value, i)}

\* Mutant: only a range that starts at value is found.
find_range_exact(map, value, allow_above) ==
    IF StartingAt(map, value) # {} THEN StartingAt(map, value)
    ELSE IF allow_above /\ FirstsAbove(map, value) # {}
         THEN FirstsAbove(map, value)
    ELSE {0}

(***************************************************************************)
(* The indices that find_range may return: of the range that starts at     *)
(* value or covers it or, when allow_above says so, of the first one above *)
(* it.  There is a choice only where an empty range and the one behind it  *)
(* start at the same address: which one the binary search hits depends on  *)
(* how many entries the map has.  Its loop is module FindRange.            *)
(***************************************************************************)
find_range(map, value, allow_above) ==
    IF StartingAt(map, value) # {} THEN StartingAt(map, value)
    ELSE IF Covering(map, value) # {} THEN Covering(map, value)
    ELSE IF allow_above /\ FirstsAbove(map, value) # {}
         THEN FirstsAbove(map, value)
    ELSE {0}

-----------------------------------------------------------------------------
(***************************************************************************)
(* Splitting and merging.                                                  *)
(***************************************************************************)

\* Mutant: the types are not compared.
can_merge_ranges_any_type(lhs, rhs) == mr_end(lhs) = rhs.physical_address

can_merge_ranges(lhs, rhs) ==
    lhs.type = rhs.type /\ mr_end(lhs) = rhs.physical_address

\* Mutant: a backward merge leaves dst where it is.
merge_ranges_in_place(dst, src) ==
    MR(dst.physical_address, dst.size + src.size, dst.type)

\* src absorbed into dst; only a backward merge changes dst's address.
merge_ranges(dst, src) ==
    MR(IF dst.physical_address > src.physical_address
         THEN src.physical_address ELSE dst.physical_address,
       dst.size + src.size, dst.type)

mergeable_before(map, idx, new_mr) ==
    idx > 1 /\ can_merge_ranges(map[idx - 1], new_mr)

mergeable_after(map, idx, new_mr) ==
    idx < Len(map) /\ can_merge_ranges(new_mr, map[idx + 1])

lhs_piece(current_mr, new_mr) ==
    MR(current_mr.physical_address,
       new_mr.physical_address - current_mr.physical_address, current_mr.type)

rhs_piece(current_mr, new_mr) ==
    MR(mr_end(new_mr), mr_end(current_mr) - mr_end(new_mr), current_mr.type)

\* What the two BUG_ONs of allocate_out_of let through.
may_allocate_out_of(current_mr, new_mr) ==
    /\ current_mr.physical_address <= new_mr.physical_address
    /\ mr_end(new_mr) <= mr_end(current_mr)
    /\ current_mr.type # new_mr.type

\* Case 1: a piece remains on both sides.
split_middle(map, idx, new_mr) ==
    Replace(map, idx, idx, <<lhs_piece(map[idx], new_mr), new_mr,
                             rhs_piece(map[idx], new_mr)>>)

\* Case 2: a piece remains on the right only (2a merges, 2b does not).
split_left(map, idx, new_mr) ==
    IF mergeable_before(map, idx, new_mr)
    THEN Replace(map, idx - 1, idx, <<merge_ranges(map[idx - 1], new_mr),
                                      rhs_piece(map[idx], new_mr)>>)
    ELSE Replace(map, idx, idx, <<new_mr, rhs_piece(map[idx], new_mr)>>)

\* Mutant: case 3a is forgotten.
split_right_unmerged(map, idx, new_mr) ==
    Replace(map, idx, idx, <<lhs_piece(map[idx], new_mr), new_mr>>)

\* Case 3: a piece remains on the left only (3a merges, 3b does not).
split_right(map, idx, new_mr) ==
    IF mergeable_after(map, idx, new_mr)
    THEN Replace(map, idx, idx + 1, <<lhs_piece(map[idx], new_mr),
                                      merge_ranges(map[idx + 1], new_mr)>>)
    ELSE Replace(map, idx, idx, <<lhs_piece(map[idx], new_mr), new_mr>>)

\* Case 4: the whole range changes its type.
take_whole(map, idx, new_mr) ==
    LET before == mergeable_before(map, idx, new_mr)
        after  == mergeable_after(map, idx, new_mr)
    IN  CASE ~before /\ ~after ->
                Replace(map, idx, idx, <<new_mr>>)
          [] before /\ after ->
                Replace(map, idx - 1, idx + 1,
                        <<merge_ranges(merge_ranges(map[idx - 1], new_mr),
                                       map[idx + 1])>>)
          [] before /\ ~after ->
                Replace(map, idx - 1, idx, <<merge_ranges(map[idx - 1], new_mr)>>)
          [] ~before /\ after ->
                Replace(map, idx, idx + 1, <<merge_ranges(map[idx + 1], new_mr)>>)

(***************************************************************************)
(* The map with new_mr carved out of range idx, which has the other type.  *)
(***************************************************************************)
allocate_out_of(map, idx, new_mr) ==
    LET left  == new_mr.physical_address # map[idx].physical_address
        right == mr_end(new_mr) # mr_end(map[idx])
    IN  CASE left /\ right   -> split_middle(map, idx, new_mr)
          [] ~left /\ right  -> split_left(map, idx, new_mr)
          [] left /\ ~right  -> split_right(map, idx, new_mr)
          [] ~left /\ ~right -> take_whole(map, idx, new_mr)

-----------------------------------------------------------------------------
(***************************************************************************)
(* A well formed map: ranges in ascending order that do not overlap.       *)
(***************************************************************************)
Ordered(map) ==
    \A i, j \in DOMAIN map : i < j => mr_end(map[i]) <= map[j].physical_address

IsMemoryMap(map) == map \in Seq(Ranges) /\ Ordered(map)
=============================================================================
