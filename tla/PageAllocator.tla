----------------------------- MODULE PageAllocator ---------------------------
(***************************************************************************)
(* What the boot allocator promises its callers (include/boot/alloc.h),    *)
(* said of sets of pages: no ranges, no buffer, no order of search.        *)
(*                                                                         *)
(* The allocator may take free pages for itself in any call; it says so by *)
(* moving them to own.                                                     *)
(***************************************************************************)
EXTENDS Integers

CONSTANTS Pages, MaxPages, NoMemory

VARIABLES
    regions,    \* the runs of memory the loader passed, never changed
    free,       \* pages anyone may be given
    held,       \* pages callers own
    own,        \* pages the allocator uses itself
    cuts,       \* pages that may not be freed with the one before
    panicked,   \* a caller's mistake has stopped the kernel
    call        \* the last call and what it returned

vars == <<regions, free, held, own, cuts, panicked, call>>

PagesFrom(a, n) == a .. (a + n - 1)

InOneRegion(P) == \E r \in regions : P \subseteq r

Called(op, a, n) == call'.op = op /\ call'.address = a /\ call'.pages = n

Init ==
    /\ regions \subseteq SUBSET Nat
    /\ free = {} /\ held = {} /\ own = {} /\ cuts = {}
    /\ panicked = FALSE
    /\ call.op = "none"

\* The pages the step takes for the allocator itself were free.
Takes == own \subseteq own' /\ own' \ own \subseteq free

Works == ~panicked /\ ~panicked' /\ UNCHANGED regions

(***************************************************************************)
(* Memory becomes known region by region; a region's pages are new.        *)
(***************************************************************************)
AddRegion ==
    /\ Works /\ Takes /\ UNCHANGED cuts
    /\ call'.op = "append"
    /\ \E r \in regions :
         /\ r \cap (free \cup held \cup own) = {}
         /\ \/ free' = (free \ (own' \ own)) \cup r /\ held' = held
            \/ free' = free \ (own' \ own) /\ held' = held \cup r

(***************************************************************************)
(* n pages that were free and in a row are the caller's now.               *)
(***************************************************************************)
Grant(a, n) ==
    /\ PagesFrom(a, n) \subseteq free \ (own' \ own)
    /\ held' = held \cup PagesFrom(a, n)
    /\ free' = (free \ (own' \ own)) \ PagesFrom(a, n)

Refuse == held' = held /\ free' = free \ (own' \ own)

\* A refusal means that no region has n free pages in a row left.
Alloc(n) ==
    /\ Works /\ Takes /\ UNCHANGED cuts
    /\ Called("alloc", 0, n)
    /\ \/ call'.ret # NoMemory /\ Grant(call'.ret, n)
       \/ /\ call'.ret = NoMemory /\ Refuse
          /\ \A a \in free' : ~(/\ PagesFrom(a, n) \subseteq free'
                                /\ InOneRegion(PagesFrom(a, n)))

\* A refusal means that not all of the pages named are free.
AllocAt(a, n) ==
    /\ Works /\ Takes /\ UNCHANGED cuts
    /\ Called("alloc_at", a, n)
    /\ \/ call'.ret = a /\ Grant(a, n)
       \/ /\ call'.ret = NoMemory /\ Refuse
          /\ ~(/\ PagesFrom(a, n) \subseteq free'
               /\ InOneRegion(PagesFrom(a, n)))

(***************************************************************************)
(* The pages are free again.  A free of no pages cuts the memory at a; a   *)
(* cut lasts until memory that it bounds is freed, and no other call makes *)
(* one or mends one.                                                       *)
(***************************************************************************)
Free(a, n) ==
    /\ Works /\ Takes
    /\ Called("free", a, n)
    /\ PagesFrom(a, n) \subseteq held
    /\ held' = held \ PagesFrom(a, n)
    /\ free' = (free \ (own' \ own)) \cup PagesFrom(a, n)
    /\ cuts \ {a, a + n} \subseteq cuts'
    /\ cuts' \subseteq (IF n = 0 THEN cuts \cup {a} ELSE cuts)

\* What a free is checked for: one of no pages still names a page.
Named(a, n) == PagesFrom(a, IF n = 0 THEN 1 ELSE n)

(***************************************************************************)
(* Only a request for no pages, and a free of pages that are not all held, *)
(* do not come from one region or have been cut, may stop the kernel.      *)
(***************************************************************************)
Mistake ==
    /\ ~panicked /\ panicked' /\ Takes
    /\ UNCHANGED <<regions, held, cuts>>
    /\ free' = free \ (own' \ own)
    /\ \/ Called("alloc", 0, 0)
       \/ \E a \in Pages : Called("alloc_at", a, 0)
       \/ \E a \in Pages, n \in 0 .. MaxPages :
            /\ Called("free", a, n)
            /\ ~(/\ Named(a, n) \subseteq held
                 /\ InOneRegion(PagesFrom(a, n))
                 /\ Named(a, n) \cap cuts = {})

Next ==
    \/ AddRegion
    \/ \E n \in 1 .. MaxPages : Alloc(n)
    \/ \E a \in Pages, n \in 1 .. MaxPages : AllocAt(a, n)
    \/ \E a \in Pages, n \in 0 .. MaxPages : Free(a, n)
    \/ Mistake

Spec == Init /\ [][Next]_vars
=============================================================================
