-------------------------- MODULE MCBootAllocRegrow --------------------------
(***************************************************************************)
(* A page of four entries, so that the first growth happens with the first *)
(* entry and the second one soon after.                                    *)
(***************************************************************************)
EXTENDS BootAllocRegrow

OneMap == { << MR(1, 9, "FREE") >> }

SomeJunk == {MR(7, 2, MEMORY_FREE)}
=============================================================================
