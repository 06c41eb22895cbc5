----------------------------- MODULE MCFindRange -----------------------------
(***************************************************************************)
(* All memory maps of up to MaxRanges ranges in pages 0 .. LastPage,       *)
(* holes, unmerged neighbours and empty ranges included; the types do not  *)
(* matter to the search.                                                   *)
(***************************************************************************)
EXTENDS FindRange

CONSTANTS LastPage, MaxRanges

PageRanges == {MR(a, n, MEMORY_FREE) : a \in 0 .. LastPage, n \in 0 .. (LastPage + 1)}

InPages == {mr \in PageRanges : mr_end(mr) <= LastPage + 1}

\* Appending at the end only: no sequence that is out of order is built.
MapsOfLength[n \in 0 .. MaxRanges] ==
    IF n = 0 THEN {<<>>}
    ELSE {Append(p[1], p[2]) : p \in
            {q \in MapsOfLength[n - 1] \X InPages :
               q[1] = <<>> \/ mr_end(q[1][Len(q[1])]) <= q[2].physical_address}}

AllMaps == UNION {MapsOfLength[n] : n \in 0 .. MaxRanges}

AllValues == 0 .. (LastPage + 2)
=============================================================================
