------------------------------- MODULE Console -------------------------------
(***************************************************************************)
(* The list of consoles, kernel/console.c: an intrusive, singly linked     *)
(* list of structs that their drivers own.  Whoever has a struct console   *)
(* may register and unregister it in any order; console_write, which every *)
(* message of the kernel goes through, walks the list.                     *)
(***************************************************************************)
EXTENDS Integers, Sequences, FiniteSets

CONSTANTS
    Con,        \* the struct consoles of all drivers
    NULL        \* the null pointer

ASSUME ConAssumption == IsFiniteSet(Con) /\ NULL \notin Con

EOK == "EOK"
EBUSY == "EBUSY"
EINVAL == "EINVAL"

VARIABLES
    consoles,   \* the head of the list
    next,       \* the next field of every console
    con,        \* the cursor of console_write, NULL when it does not run
    wrote,      \* history: the consoles this console_write has called, in order
    ret         \* history: what the last call returned

vars == <<consoles, next, con, wrote, ret>>

(***************************************************************************)
(* Walking the list.  The loops of console.c all visit Node(1), Node(2)    *)
(* and so on until they meet NULL.                                         *)
(***************************************************************************)
Node[n \in Nat] ==
    IF n <= 1 THEN consoles
    ELSE IF Node[n - 1] = NULL THEN NULL ELSE next[Node[n - 1]]

Places == 1 .. Cardinality(Con)

Listed == {Node[n] : n \in Places} \ {NULL}

console_registered(c) == c \in Listed

Idle == con = NULL

\* Bound: a history longer than any list without a cycle is not recorded.
Record(c) == IF Len(wrote) <= Cardinality(Con) THEN Append(wrote, c) ELSE wrote

Init ==
    /\ consoles = NULL
    /\ next = [c \in Con |-> NULL]
    /\ con = NULL
    /\ wrote = <<>>
    /\ ret = EOK

\* Mutant: a console that is on the list already is put on it again.
register_console_twice(c) ==
    /\ Idle
    /\ consoles' = c
    /\ next' = IF consoles = NULL THEN next ELSE [next EXCEPT ![c] = consoles]
    /\ ret' = EOK
    /\ wrote' = <<>>
    /\ UNCHANGED con

\* The first console leaves its next field as it is; any other is put in front.
register_console(c) ==
    /\ Idle
    /\ \/ /\ consoles = NULL
          /\ consoles' = c /\ ret' = EOK
          /\ UNCHANGED next
       \/ /\ consoles # NULL /\ console_registered(c)
          /\ ret' = EBUSY
          /\ UNCHANGED <<consoles, next>>
       \/ /\ consoles # NULL /\ ~console_registered(c)
          /\ next' = [next EXCEPT ![c] = consoles]
          /\ consoles' = c /\ ret' = EOK
    /\ wrote' = <<>>
    /\ UNCHANGED con

\* Mutant: the console before the one that goes is unlinked with it.
unregister_console_cuts(c) ==
    /\ Idle
    /\ \/ /\ ~console_registered(c)
          /\ ret' = EINVAL
          /\ UNCHANGED next
       \/ /\ c = consoles
          /\ ret' = EOK
          /\ UNCHANGED next
       \/ /\ console_registered(c) /\ c # consoles
          /\ \E n \in Places :
               /\ Node[n + 1] = c
               /\ next' = [next EXCEPT ![Node[n]] = NULL]
          /\ ret' = EOK
    /\ wrote' = <<>>
    /\ UNCHANGED <<consoles, con>>

(***************************************************************************)
(* A console behind another one is unlinked from it.  The first console of *)
(* the list has no one before it: the call succeeds and changes nothing.   *)
(***************************************************************************)
unregister_console(c) ==
    /\ Idle
    /\ \/ /\ ~console_registered(c)
          /\ ret' = EINVAL
          /\ UNCHANGED next
       \/ /\ c = consoles
          /\ ret' = EOK
          /\ UNCHANGED next
       \/ /\ console_registered(c) /\ c # consoles
          /\ \E n \in Places :
               /\ Node[n + 1] = c
               /\ next' = [next EXCEPT ![Node[n]] = next[c]]
          /\ ret' = EOK
    /\ wrote' = <<>>
    /\ UNCHANGED <<consoles, con>>

\* console_write begins; with no console there is nothing to do.
BeginWrite ==
    /\ Idle /\ consoles # NULL
    /\ con' = consoles
    /\ wrote' = <<>>
    /\ UNCHANGED <<consoles, next, ret>>

\* Mutant: the loop looks ahead and never writes to the last console.
WriteOne_skips_last ==
    /\ ~Idle
    /\ con' = IF next[con] = NULL THEN NULL ELSE next[next[con]]
    /\ wrote' = Record(con)
    /\ UNCHANGED <<consoles, next, ret>>

\* One iteration: con->write(con, str, count), and on to con->next.
WriteOne ==
    /\ ~Idle
    /\ con' = next[con]
    /\ wrote' = Record(con)
    /\ UNCHANGED <<consoles, next, ret>>

Next ==
    \/ \E c \in Con : register_console(c) \/ unregister_console(c)
    \/ BeginWrite
    \/ WriteOne

\* A loop that has begun runs: nothing else happens in between.
Spec == Init /\ [][Next]_vars /\ WF_vars(WriteOne)

-----------------------------------------------------------------------------
\* console_write calls every registered console once, the newest one first.
EachOnce ==
    Idle /\ wrote # <<>> =>
        /\ Len(wrote) = Cardinality(Listed)
        /\ \A n \in 1 .. Len(wrote) : wrote[n] = Node[n]

(***************************************************************************)
(* register_console and unregister_console concern their argument only:    *)
(* no other console appears on the list or is lost from it.                *)
(***************************************************************************)
OthersStay ==
    [][\A c \in Con :
         register_console(c) \/ unregister_console(c) =>
             (Listed' \ {c}) = (Listed \ {c})]_vars

\* A message is written to the end: console_write returns.
WriteReturns == ~Idle ~> Idle
=============================================================================
