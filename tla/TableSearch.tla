----------------------------- MODULE TableSearch -----------------------------
(***************************************************************************)
(* The binary search that find_fde (kernel/unwind.c) and                   *)
(* symbol_lookup_by_address (kernel/symbols.c) share: the last entry of an *)
(* ascending table that is not above an address.  Several entries may have *)
(* the same address.                                                       *)
(***************************************************************************)
EXTENDS Integers

CONSTANT
    Tables,         \* the tables: their entries, indexed from 0, and their count
    Keys            \* the addresses looked for

\* A table that the search may be used on.  It has an entry: neither function
\* looks at the count again before it takes entry begin.
IsTable(t) ==
    /\ t.count \in Nat \ {0}
    /\ t.entry \in [0 .. (t.count - 1) -> Nat]
    /\ \A i, j \in 0 .. (t.count - 1) : i <= j => t.entry[i] <= t.entry[j]

ASSUME TablesAssumption == (\A t \in Tables : IsTable(t)) /\ Keys \subseteq Nat

VARIABLES
    table, count,   \* the table and the number of its entries
    key,            \* pc or rel_address
    begin, end,     \* what is left of the table, without end
    pc              \* "search", "found"

searchVars == <<table, count, key, begin, end, pc>>

Init ==
    /\ \E t \in Tables : table = t.entry /\ count = t.count
    /\ key \in Keys
    /\ begin = 0 /\ end = count
    /\ pc = "search"

middle == begin + (end - begin) \div 2

GoRight ==
    /\ pc = "search" /\ end - begin > 1
    /\ table[middle] <= key
    /\ begin' = middle
    /\ UNCHANGED <<table, count, key, end, pc>>

\* Mutant: the upper half is left in.
GoLeft_keeps_middle ==
    /\ pc = "search" /\ end - begin > 1
    /\ table[middle] > key
    /\ end' = middle + 1
    /\ UNCHANGED <<table, count, key, begin, pc>>

GoLeft ==
    /\ pc = "search" /\ end - begin > 1
    /\ table[middle] > key
    /\ end' = middle
    /\ UNCHANGED <<table, count, key, begin, pc>>

\* Mutant: two entries that are left are not told apart.
Found_early ==
    /\ pc = "search" /\ ~(end - begin > 2)
    /\ pc' = "found"
    /\ UNCHANGED <<table, count, key, begin, end>>

Found ==
    /\ pc = "search" /\ ~(end - begin > 1)
    /\ pc' = "found"
    /\ UNCHANGED <<table, count, key, begin, end>>

Search == GoRight \/ GoLeft \/ Found

Spec == Init /\ [][Search]_searchVars /\ WF_searchVars(Search)

-----------------------------------------------------------------------------
\* The variables hold values of their types.
TypeOK ==
    /\ count \in Nat \ {0}
    /\ table \in [0 .. (count - 1) -> Nat]
    /\ key \in Nat
    /\ begin \in 0 .. (count - 1) /\ end \in 1 .. count
    /\ pc \in {"search", "found"}

\* Entries below begin, begin included unless it is the first, are not above
\* the address; entries from end on are.
Bracketed ==
    /\ begin < end
    /\ begin > 0 => table[begin] <= key
    /\ end < count => table[end] > key

\* The entry i is the last one that is not above k, or the first one.
IsLastAtOrBelow(t, n, k, i) ==
    /\ i \in 0 .. (n - 1)
    /\ \A j \in 0 .. (n - 1) : j > i => t[j] > k
    /\ i > 0 => t[i] <= k

(***************************************************************************)
(* The loop of find_fde and symbol_lookup_by_address ends at the last entry*)
(* that is not above the address, also when entries are equal; an address  *)
(* below all entries gets the first one.                                   *)
(***************************************************************************)
FindsLast == pc = "found" => IsLastAtOrBelow(table, count, key, begin)
=============================================================================
