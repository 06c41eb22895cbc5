----------------------------- MODULE ConsoleProofs -----------------------------
(***************************************************************************)
(* The list of consoles, for any number of consoles and any sequence of    *)
(* registrations, removals and messages.  The pointers are shown to spell  *)
(* a sequence without repetitions; what the loops of console.c visit       *)
(* follows from that.                                                      *)
(***************************************************************************)
EXTENDS Console, FiniteSetTheorems, WellFoundedInduction, TLAPS

\* The n consoles q[1], q[2] ... are the list: each points to the next one, the
\* last one nowhere.  Before the first registration no console points anywhere.
Chain(q, n) ==
    /\ q \in [1 .. n -> Con]
    /\ \A i, j \in 1 .. n : q[i] = q[j] => i = j
    /\ consoles = IF n = 0 THEN NULL ELSE q[1]
    /\ \A i \in 1 .. n : next[q[i]] = IF i = n THEN NULL ELSE q[i + 1]
    /\ n = 0 => \A c \in Con : next[c] = NULL

\* console_write has called the first consoles of the list and is at the next
\* one; when it is not running, it has called none or all.
Walk(q, n) ==
    /\ wrote \in Seq(Con) /\ Len(wrote) <= n
    /\ \A i \in 1 .. Len(wrote) : wrote[i] = q[i]
    /\ IF con = NULL THEN Len(wrote) \in {0, n}
       ELSE Len(wrote) < n /\ con = q[Len(wrote) + 1]

ListInv ==
    /\ next \in [Con -> Con \cup {NULL}]
    /\ \E n \in Nat : \E q : Chain(q, n) /\ Walk(q, n)

-----------------------------------------------------------------------------
(***************************************************************************)
(* What the loops visit.                                                   *)
(***************************************************************************)
LEMMA LeastNumber ==
    ASSUME NEW T \in SUBSET Nat, T # {}
    PROVE  \E x \in T : \A y \in T : x <= y
  <1> DEFINE lt == OpToRel(<, Nat)
  <1>1. PICK x \in T : \A y \in T : ~(<<y, x>> \in lt)
    BY WFMin, NatLessThanWellFounded, Zenon
  <1>2. \A y \in T : ~(y < x)
    BY <1>1 DEF OpToRel
  <1> QED
    BY <1>2

\* The nodes of a list are its members, and NULL behind them.
LEMMA NodesOfChain ==
    ASSUME NEW n \in Nat, NEW q, Chain(q, n)
    PROVE  \A m \in Nat : m >= 1 => Node[m] = IF m <= n THEN q[m] ELSE NULL
  <1>1. /\ q \in [1 .. n -> Con]
        /\ consoles = IF n = 0 THEN NULL ELSE q[1]
        /\ \A i \in 1 .. n : next[q[i]] = IF i = n THEN NULL ELSE q[i + 1]
    BY DEF Chain
  <1>2. \A i \in 1 .. n : q[i] # NULL
    BY <1>1, ConAssumption
  <1> DEFINE f == [m \in Nat |-> IF m <= 1 THEN consoles ELSE IF m <= n THEN q[m] ELSE NULL]
             G(g) == [m \in Nat |-> IF m <= 1 THEN consoles
                                    ELSE IF g[m - 1] = NULL THEN NULL ELSE next[g[m - 1]]]
  <1>3. \A m \in Nat : m >= 1 => f[m] = IF m <= n THEN q[m] ELSE NULL
    BY <1>1
  <1>4. ASSUME NEW m \in Nat, ~(m <= 1)
        PROVE  f[m] = IF f[m - 1] = NULL THEN NULL ELSE next[f[m - 1]]
    <2>1. m - 1 \in Nat /\ m - 1 >= 1 /\ m >= 1
      BY <1>4
    <2>2. f[m - 1] = (IF m - 1 <= n THEN q[m - 1] ELSE NULL) /\ f[m] = IF m <= n THEN q[m] ELSE NULL
      BY <1>3, <2>1
    <2> HIDE DEF f
    <2>3. CASE m - 1 <= n
      <3>1. m - 1 \in 1 .. n /\ (m - 1) + 1 = m /\ (m - 1 = n <=> ~(m <= n))
        BY <2>1, <2>3
      <3> QED
        BY <1>1, <1>2, <2>2, <2>3, <3>1
    <2>4. CASE ~(m - 1 <= n)
      <3>1. ~(m <= n)
        BY <2>1, <2>4
      <3> QED
        BY <2>2, <2>4, <3>1
    <2> QED
      BY <2>3, <2>4
  <1>5. f = G(f)
    <2>1. \A m \in Nat : f[m] = G(f)[m]
      BY <1>4, SMTT(30)
    <2> QED
      BY <2>1
  <1>6. Node = G(Node)
    BY <1>5 DEF Node
  <1>7. \A m \in Nat : Node[m] = IF m <= 1 THEN consoles
                                 ELSE IF Node[m - 1] = NULL THEN NULL ELSE next[Node[m - 1]]
    BY <1>6
  <1>8. ASSUME NEW m \in Nat, Node[m] # f[m] PROVE FALSE
    <2> DEFINE D == {k \in Nat : Node[k] # f[k]}
    <2>1. PICK k \in D : \A y \in D : k <= y
      BY <1>8, LeastNumber
    <2>2. k \in Nat /\ Node[k] # f[k]
      BY <2>1
    <2>3. ~(k <= 1)
      BY <1>7, <2>2
    <2>4. k - 1 \in Nat /\ ~(k <= k - 1)
      BY <2>2, <2>3
    <2>5. Node[k - 1] = f[k - 1]
      BY <2>1, <2>4
    <2> HIDE DEF f, D
    <2> QED
      BY <1>4, <1>7, <2>2, <2>3, <2>5
  <1> HIDE DEF f, G
  <1> QED
    BY <1>3, <1>8

\* A list fits into the places that are searched, so all of it is registered.
LEMMA MembersOfChain ==
    ASSUME NEW n \in Nat, NEW q, Chain(q, n)
    PROVE  /\ Cardinality(Con) \in Nat /\ n <= Cardinality(Con)
           /\ Listed = {q[i] : i \in 1 .. n}
           /\ Cardinality(Listed) = n
  <1>1. q \in [1 .. n -> Con] /\ \A i, j \in 1 .. n : q[i] = q[j] => i = j
    BY DEF Chain
  <1>2. Cardinality(Con) \in Nat
    BY ConAssumption, FS_CardinalityType
  <1>3. Cardinality(1 .. n) = n
    BY FS_Interval
  <1>4. q \in Injection(1 .. n, Con)
    BY <1>1 DEF Injection, IsInjective
  <1>5. n <= Cardinality(Con)
    BY <1>3, <1>4, ConAssumption, FS_Injection
  <1>6. \A m \in Places : m \in Nat /\ m >= 1
    BY <1>2 DEF Places
  <1>7. \A m \in Places : Node[m] = IF m <= n THEN q[m] ELSE NULL
    BY <1>6, NodesOfChain
  <1>8. \A i \in 1 .. n : i \in Places /\ i <= n /\ q[i] # NULL
    BY <1>1, <1>2, <1>5, ConAssumption DEF Places
  <1>9. \A m \in Places : m <= n => m \in 1 .. n
    BY <1>6
  <1> DEFINE R == {q[i] : i \in 1 .. n}
  <1>10. Listed = R
    <2>1. ASSUME NEW x \in Listed PROVE x \in R
      <3>1. PICK m \in Places : x = Node[m] /\ x # NULL
        BY DEF Listed
      <3>2. m <= n /\ x = q[m]
        BY <1>7, <3>1
      <3> QED
        BY <1>9, <3>2
    <2>2. ASSUME NEW i \in 1 .. n PROVE q[i] \in Listed
      BY <1>7, <1>8 DEF Listed
    <2> QED
      BY <2>1, <2>2
  <1>11. q \in Bijection(1 .. n, R)
    BY <1>1 DEF Bijection, Injection, Surjection, IsInjective
  <1>12. Cardinality(R) = n
    BY <1>11, FS_CountingElements DEF ExistsBijection
  <1> QED
    BY <1>2, <1>5, <1>10, <1>12

MembersAreListed ==
    \A n \in Nat : \A q : Chain(q, n) => Listed = {q[i] : i \in 1 .. n}

\* The same of the list behind a step.
LEMMA MembersOfNextChain == MembersAreListed'
  <1>1. MembersAreListed
    BY MembersOfChain DEF MembersAreListed
  <1> QED
    BY <1>1, PTL

-----------------------------------------------------------------------------
(***************************************************************************)
(* The steps.                                                              *)
(***************************************************************************)
LEMMA InitListInv == Init => ListInv
  <1> SUFFICES ASSUME Init PROVE ListInv
    OBVIOUS
  <1>1. /\ consoles = NULL /\ next = [c \in Con |-> NULL] /\ con = NULL /\ wrote = <<>>
    BY DEF Init
  <1> DEFINE q == [i \in 1 .. 0 |-> NULL]
  <1>2. 1 .. 0 = {}
    OBVIOUS
  <1>3. q \in [1 .. 0 -> Con]
    BY <1>2
  <1> HIDE DEF q
  <1>4. Chain(q, 0)
    BY <1>1, <1>2, <1>3 DEF Chain
  <1>5. wrote \in Seq(Con) /\ Len(wrote) = 0
    BY <1>1
  <1>6. Walk(q, 0)
    BY <1>1, <1>2, <1>5 DEF Walk
  <1>7. next \in [Con -> Con \cup {NULL}]
    BY <1>1
  <1> QED
    BY <1>4, <1>6, <1>7 DEF ListInv

\* A list of which nothing has been written yet.
LEMMA FreshList ==
    ASSUME next' \in [Con -> Con \cup {NULL}], wrote' = <<>>, con' = NULL,
           NEW n \in Nat, NEW q, Chain(q, n)'
    PROVE  ListInv'
  <1>1. wrote' \in Seq(Con) /\ Len(wrote') = 0 /\ 1 .. 0 = {}
    OBVIOUS
  <1>2. Walk(q, n)'
    BY <1>1 DEF Walk
  <1> QED
    BY <1>2 DEF ListInv

\* A chain that nobody touches stays one.
LEMMA SameChain ==
    ASSUME UNCHANGED <<consoles, next>>, NEW n, NEW q, Chain(q, n)
    PROVE  Chain(q, n)' /\ Listed' = Listed
  <1>1. Chain(q, n)'
    BY DEF Chain
  <1>2. Node' = Node
    BY DEF Node
  <1>3. Listed' = Listed
    BY <1>2 DEF Listed
  <1> QED
    BY <1>1, <1>3

LEMMA RegisterStep ==
    ASSUME ListInv, NEW c \in Con, register_console(c)
    PROVE  ListInv' /\ (Listed' \ {c}) = (Listed \ {c})
  <1>1. PICK n \in Nat : \E q : Chain(q, n)
    BY DEF ListInv
  <1>2. PICK q : Chain(q, n)
    BY <1>1
  <1>3. /\ q \in [1 .. n -> Con]
        /\ \A i, j \in 1 .. n : q[i] = q[j] => i = j
        /\ consoles = IF n = 0 THEN NULL ELSE q[1]
        /\ \A i \in 1 .. n : next[q[i]] = IF i = n THEN NULL ELSE q[i + 1]
        /\ n = 0 => \A d \in Con : next[d] = NULL
    BY <1>2 DEF Chain
  <1>4. consoles = NULL <=> n = 0
    <2>1. n # 0 => 1 \in 1 .. n
      OBVIOUS
    <2> QED
      BY <1>3, <2>1, ConAssumption
  <1>5. next \in [Con -> Con \cup {NULL}] /\ wrote' = <<>> /\ con' = NULL
    BY DEF ListInv, register_console, Idle
  <1>6. Listed = {q[i] : i \in 1 .. n}
    BY <1>2, MembersOfChain
  <1>7. CASE UNCHANGED <<consoles, next>>
    <2>1. Chain(q, n)' /\ Listed' = Listed
      BY <1>2, <1>7, SameChain
    <2> QED
      BY <1>5, <1>7, <2>1, FreshList
  <1>8. ASSUME n = 0, consoles' = c, next' = next
        PROVE  ListInv' /\ (Listed' \ {c}) = (Listed \ {c})
    <2> DEFINE r == [i \in 1 .. 1 |-> c]
    <2>1. 1 .. 1 = {1} /\ 1 .. 0 = {}
      OBVIOUS
    <2>2. r \in [1 .. 1 -> Con] /\ r[1] = c
      BY <2>1
    <2> HIDE DEF r
    <2>3. Chain(r, 1)'
      BY <1>3, <1>8, <2>1, <2>2 DEF Chain
    <2>4. Listed' = {r[i] : i \in 1 .. 1}
      BY <2>3, MembersOfNextChain DEF MembersAreListed
    <2>5. Listed' = {c} /\ Listed = {}
      BY <1>6, <1>8, <2>1, <2>2, <2>4
    <2> QED
      BY <1>5, <1>8, <2>3, <2>5, FreshList
  <1>9. ASSUME n # 0, c \notin Listed, consoles' = c, next' = [next EXCEPT ![c] = consoles]
        PROVE  ListInv' /\ (Listed' \ {c}) = (Listed \ {c})
    <2> DEFINE r == [i \in 1 .. n + 1 |-> IF i = 1 THEN c ELSE q[i - 1]]
    <2>1. \A i \in 1 .. n : q[i] # c /\ q[i] \in Con
      BY <1>3, <1>6, <1>9
    <2>2. \A i \in 1 .. n + 1 : i # 1 => i - 1 \in 1 .. n
      OBVIOUS
    <2>3. /\ r \in [1 .. n + 1 -> Con] /\ r[1] = c
          /\ \A i \in 1 .. n + 1 : i # 1 => r[i] = q[i - 1]
      BY <1>3, <2>2
    <2> HIDE DEF r
    <2>4. \A i, j \in 1 .. n + 1 : r[i] = r[j] => i = j
      <3> SUFFICES ASSUME NEW i \in 1 .. n + 1, NEW j \in 1 .. n + 1, r[i] = r[j] PROVE i = j
        OBVIOUS
      <3>1. CASE i = 1
        BY <2>1, <2>2, <2>3, <3>1
      <3>2. CASE j = 1
        BY <2>1, <2>2, <2>3, <3>2
      <3>3. CASE i # 1 /\ j # 1
        <4>1. q[i - 1] = q[j - 1] /\ i - 1 \in 1 .. n /\ j - 1 \in 1 .. n
          BY <2>2, <2>3, <3>3
        <4>2. i - 1 = j - 1
          BY <1>3, <4>1
        <4> QED
          BY <4>2
      <3> QED
        BY <3>1, <3>2, <3>3
    <2>5. \A d \in Con : next'[d] = IF d = c THEN consoles ELSE next[d]
      BY <1>5, <1>9
    <2>6. ASSUME NEW i \in 1 .. n + 1
          PROVE  next'[r[i]] = IF i = n + 1 THEN NULL ELSE r[i + 1]
      <3>1. CASE i = 1
        <4>1. 2 \in 1 .. n + 1 /\ 2 # 1 /\ 2 - 1 = 1 /\ 1 + 1 = 2 /\ 1 # n + 1
          BY <1>9
        <4>2. r[2] = q[1]
          BY <2>3, <4>1
        <4> QED
          BY <1>3, <1>9, <2>3, <2>5, <3>1, <4>1, <4>2
      <3>2. CASE i # 1
        <4>1. i - 1 \in 1 .. n /\ r[i] = q[i - 1] /\ (i - 1) + 1 = i
          BY <2>2, <2>3, <3>2
        <4>2. next'[r[i]] = IF i - 1 = n THEN NULL ELSE q[i]
          BY <1>3, <2>1, <2>5, <4>1
        <4>3. CASE i = n + 1
          BY <4>2, <4>3
        <4>4. CASE i # n + 1
          <5>1. i - 1 # n /\ i + 1 \in 1 .. n + 1 /\ i + 1 # 1 /\ (i + 1) - 1 = i
            BY <4>4
          <5> QED
            BY <2>3, <4>2, <4>4, <5>1
        <4> QED
          BY <4>3, <4>4
      <3> QED
        BY <3>1, <3>2
    <2>7. n + 1 \in Nat /\ n + 1 # 0
      OBVIOUS
    <2>8. Chain(r, n + 1)'
      BY <1>9, <2>3, <2>4, <2>6, <2>7 DEF Chain
    <2>9. Listed' = {r[i] : i \in 1 .. n + 1}
      BY <2>7, <2>8, MembersOfNextChain DEF MembersAreListed
    <2>10. \A i \in 1 .. n : i + 1 \in 1 .. n + 1 /\ r[i + 1] = q[i]
      <3>1. \A i \in 1 .. n : i + 1 \in 1 .. n + 1 /\ i + 1 # 1 /\ (i + 1) - 1 = i
        OBVIOUS
      <3> QED
        BY <2>3, <3>1
    <2>11. Listed' = Listed \cup {c}
      <3>1. Listed' \subseteq Listed \cup {c}
        BY <1>6, <2>2, <2>3, <2>9
      <3>2. Listed \subseteq Listed'
        BY <1>6, <2>9, <2>10
      <3>3. c \in Listed'
        BY <2>3, <2>7, <2>9
      <3> QED
        BY <3>1, <3>2, <3>3
    <2>12. next' \in [Con -> Con \cup {NULL}]
      <3>1. consoles \in Con
        BY <1>3, <1>9, <2>1
      <3> QED
        BY <1>5, <1>9, <3>1
    <2> QED
      BY <1>5, <2>7, <2>8, <2>11, <2>12, FreshList
  <1> QED
    BY <1>4, <1>7, <1>8, <1>9 DEF register_console, console_registered

LEMMA UnregisterStep ==
    ASSUME ListInv, NEW c \in Con, unregister_console(c)
    PROVE  ListInv' /\ (Listed' \ {c}) = (Listed \ {c})
  <1>1. PICK n \in Nat : \E q : Chain(q, n)
    BY DEF ListInv
  <1>2. PICK q : Chain(q, n)
    BY <1>1
  <1>3. /\ q \in [1 .. n -> Con]
        /\ \A i, j \in 1 .. n : q[i] = q[j] => i = j
        /\ consoles = IF n = 0 THEN NULL ELSE q[1]
        /\ \A i \in 1 .. n : next[q[i]] = IF i = n THEN NULL ELSE q[i + 1]
    BY <1>2 DEF Chain
  <1>4. /\ next \in [Con -> Con \cup {NULL}] /\ wrote' = <<>> /\ con' = NULL
        /\ consoles' = consoles
    BY DEF ListInv, unregister_console, Idle
  <1>5. Listed = {q[i] : i \in 1 .. n} /\ Cardinality(Con) \in Nat
    BY <1>2, MembersOfChain
  <1>6. CASE next' = next
    <2>1. Chain(q, n)' /\ Listed' = Listed
      BY <1>2, <1>4, <1>6, SameChain
    <2> QED
      BY <1>4, <1>6, <2>1, FreshList
  <1>7. ASSUME NEW p \in Places, Node[p + 1] = c, next' = [next EXCEPT ![Node[p]] = next[c]]
        PROVE  ListInv' /\ (Listed' \ {c}) = (Listed \ {c})
    <2>1. p \in Nat /\ p >= 1 /\ p + 1 \in Nat /\ p + 1 >= 1
      BY <1>5 DEF Places
    <2>2. p + 1 <= n /\ c = q[p + 1]
      BY <1>2, <1>7, <2>1, NodesOfChain, ConAssumption
    <2>3. p \in 1 .. n /\ p + 1 \in 1 .. n /\ p <= n
      BY <2>1, <2>2
    <2>4. Node[p] = q[p]
      BY <1>2, <2>1, <2>3, NodesOfChain
    <2> DEFINE l == n - 1
               r == [i \in 1 .. l |-> IF i <= p THEN q[i] ELSE q[i + 1]]
    <2>5. /\ l \in Nat /\ p \in 1 .. l /\ l # 0 /\ l + 1 = n
          /\ \A i \in 1 .. l : i \in 1 .. n /\ i + 1 \in 1 .. n /\ i # n
      BY <2>1, <2>2
    <2>6. /\ r \in [1 .. l -> Con]
          /\ \A i \in 1 .. l : r[i] = IF i <= p THEN q[i] ELSE q[i + 1]
      BY <1>3, <2>5
    <2> HIDE DEF r, l
    <2>7. ASSUME NEW i \in 1 .. l, NEW j \in 1 .. l, r[i] = r[j] PROVE i = j
      <3> DEFINE a == IF i <= p THEN i ELSE i + 1
                 b == IF j <= p THEN j ELSE j + 1
      <3>1. a \in 1 .. n /\ b \in 1 .. n /\ q[a] = r[i] /\ q[b] = r[j]
        BY <2>5, <2>6
      <3>2. a = b
        BY <1>3, <2>7, <3>1
      <3> QED
        BY <2>1, <2>5, <3>2
    <2>8. \A d \in Con : next'[d] = IF d = q[p] THEN next[c] ELSE next[d]
      BY <1>4, <1>7, <2>4
    <2>9. ASSUME NEW i \in 1 .. l
          PROVE  next'[r[i]] = IF i = l THEN NULL ELSE r[i + 1]
      <3>0. i \in Nat /\ i \in 1 .. n /\ i + 1 \in 1 .. n /\ q[i] \in Con /\ q[i + 1] \in Con
        BY <1>3, <2>5
      <3>1. i # l => i + 1 \in 1 .. l
        BY <2>5
      <3>2. CASE i < p
        <4>1. r[i] = q[i] /\ q[i] # q[p]
          BY <1>3, <2>1, <2>3, <2>6, <3>0, <3>2
        <4>2. next'[r[i]] = q[i + 1]
          BY <1>3, <2>5, <2>8, <3>0, <4>1
        <4>3. i # l /\ i + 1 <= p
          BY <2>1, <2>5, <3>0, <3>2
        <4> QED
          BY <2>6, <3>1, <4>2, <4>3
      <3>3. CASE i = p
        <4>1. r[i] = q[p] /\ q[p] \in Con
          BY <2>1, <2>6, <3>0, <3>3
        <4>2. next'[r[i]] = IF p + 1 = n THEN NULL ELSE q[p + 1 + 1]
          BY <1>3, <2>2, <2>3, <2>8, <4>1
        <4>3. (p + 1 = n <=> i = l) /\ ~(i + 1 <= p)
          BY <2>1, <2>5, <3>0, <3>3
        <4> QED
          BY <2>6, <3>1, <3>3, <4>2, <4>3
      <3>4. CASE i > p
        <4>1. ~(i <= p) /\ ~(i + 1 <= p) /\ i + 1 # p
          BY <2>1, <3>0, <3>4
        <4>2. r[i] = q[i + 1] /\ q[i + 1] # q[p]
          BY <1>3, <2>3, <2>6, <3>0, <4>1
        <4>3. next'[r[i]] = IF i + 1 = n THEN NULL ELSE q[i + 1 + 1]
          BY <1>3, <2>8, <3>0, <4>2
        <4>4. i + 1 = n <=> i = l
          BY <2>5, <3>0
        <4> QED
          BY <2>6, <3>1, <4>1, <4>3, <4>4
      <3> QED
        BY <2>1, <3>0, <3>2, <3>3, <3>4
    <2>10. consoles' = r[1]
      <3>1. 1 \in 1 .. l /\ 1 <= p /\ n # 0
        BY <2>1, <2>5
      <3> QED
        BY <1>3, <1>4, <2>6, <3>1
    <2>11. Chain(r, l)'
      BY <2>5, <2>6, <2>7, <2>9, <2>10 DEF Chain
    <2>12. Listed' = {r[i] : i \in 1 .. l}
      BY <2>5, <2>11, MembersOfNextChain DEF MembersAreListed
    <2>13. Listed' = Listed \ {c}
      <3>1. ASSUME NEW i \in 1 .. l PROVE r[i] \in Listed \ {c}
        <4> DEFINE a == IF i <= p THEN i ELSE i + 1
        <4>1. a \in 1 .. n /\ r[i] = q[a] /\ a # p + 1
          BY <2>1, <2>5, <2>6
        <4> HIDE DEF a
        <4> QED
          BY <1>3, <1>5, <2>2, <2>3, <4>1
      <3>2. ASSUME NEW i \in 1 .. n, q[i] # c PROVE q[i] \in Listed'
        <4>1. i # p + 1
          BY <2>2, <3>2
        <4>2. CASE i <= p
          <5>1. i \in 1 .. l
            BY <2>5, <4>2
          <5> QED
            BY <2>6, <2>12, <4>2, <5>1
        <4>3. CASE ~(i <= p)
          <5>1. i - 1 \in 1 .. l /\ ~(i - 1 <= p) /\ (i - 1) + 1 = i
            BY <2>1, <2>5, <4>1, <4>3
          <5>2. r[i - 1] = q[i]
            BY <2>6, <5>1
          <5> QED
            BY <2>12, <5>1, <5>2
        <4> QED
          BY <4>2, <4>3
      <3> QED
        BY <1>5, <2>12, <3>1, <3>2
    <2>14. next' \in [Con -> Con \cup {NULL}]
      BY <1>4, <1>7
    <2> QED
      BY <1>4, <2>5, <2>11, <2>13, <2>14, FreshList
  <1> QED
    BY <1>6, <1>7 DEF unregister_console

LEMMA WriteStep ==
    ASSUME ListInv, BeginWrite \/ WriteOne
    PROVE  ListInv'
  <1>1. PICK n \in Nat : \E q : Chain(q, n) /\ Walk(q, n)
    BY DEF ListInv
  <1>2. PICK q : Chain(q, n) /\ Walk(q, n)
    BY <1>1
  <1>3. UNCHANGED <<consoles, next>>
    BY DEF BeginWrite, WriteOne
  <1>4. Chain(q, n)' /\ next' \in [Con -> Con \cup {NULL}]
    BY <1>2, <1>3, SameChain DEF ListInv
  <1>5. /\ q \in [1 .. n -> Con]
        /\ consoles = IF n = 0 THEN NULL ELSE q[1]
        /\ \A i \in 1 .. n : next[q[i]] = IF i = n THEN NULL ELSE q[i + 1]
    BY <1>2 DEF Chain
  <1>6. CASE BeginWrite
    <2>1. consoles # NULL /\ con' = consoles /\ wrote' = <<>>
      BY <1>6 DEF BeginWrite
    <2>2. n # 0 /\ con' = q[1] /\ 1 \in 1 .. n /\ 0 < n
      BY <1>5, <2>1
    <2>3. con' # NULL
      BY <2>1
    <2>4. wrote' \in Seq(Con) /\ Len(wrote') = 0 /\ 0 + 1 = 1 /\ 1 .. 0 = {}
      BY <2>1
    <2>5. Walk(q, n)'
      BY <2>2, <2>3, <2>4 DEF Walk
    <2> QED
      BY <1>4, <2>5 DEF ListInv
  <1>7. CASE WriteOne
    <2> DEFINE k == Len(wrote) + 1
    <2>1. con # NULL /\ con' = next[con] /\ wrote' = Record(con)
      BY <1>7 DEF WriteOne, Idle
    <2>2. /\ wrote \in Seq(Con) /\ Len(wrote) < n /\ con = q[k]
          /\ \A i \in 1 .. Len(wrote) : wrote[i] = q[i]
      BY <1>2, <2>1 DEF Walk
    <2>3. Len(wrote) \in Nat /\ k \in 1 .. n /\ k \in Nat /\ k <= n
      BY <2>2
    <2>4. con \in Con
      BY <1>5, <2>2, <2>3
    <2>5. n <= Cardinality(Con) /\ Cardinality(Con) \in Nat
      BY <1>2, MembersOfChain
    <2>6. Len(wrote) <= Cardinality(Con)
      BY <2>2, <2>3, <2>5
    <2>7. wrote' = Append(wrote, con)
      BY <2>1, <2>6 DEF Record
    <2>8. /\ wrote' \in Seq(Con) /\ Len(wrote') = k /\ wrote'[k] = con
          /\ \A i \in 1 .. Len(wrote) : wrote'[i] = wrote[i]
      BY <2>2, <2>4, <2>7
    <2>9. \A i \in 1 .. k : i = k \/ i \in 1 .. Len(wrote)
      BY <2>3
    <2>10. con' = IF k = n THEN NULL ELSE q[k + 1]
      BY <1>5, <2>1, <2>2, <2>3
    <2> HIDE DEF k
    <2>11. \A i \in 1 .. k : wrote'[i] = q[i]
      BY <2>2, <2>8, <2>9
    <2>12. k # n => k < n /\ q[k + 1] \in Con
      BY <1>5, <2>3
    <2>13. Walk(q, n)'
      BY <2>3, <2>8, <2>10, <2>11, <2>12, ConAssumption DEF Walk
    <2> QED
      BY <1>4, <2>13 DEF ListInv
  <1> QED
    BY <1>6, <1>7

LEMMA NextListInv == ListInv /\ [Next]_vars => ListInv'
  <1> SUFFICES ASSUME ListInv, [Next]_vars PROVE ListInv'
    OBVIOUS
  <1>1. ASSUME NEW c \in Con, register_console(c) PROVE ListInv'
    BY <1>1, RegisterStep
  <1>2. ASSUME NEW c \in Con, unregister_console(c) PROVE ListInv'
    BY <1>2, UnregisterStep
  <1>3. CASE BeginWrite \/ WriteOne
    BY <1>3, WriteStep
  <1>4. CASE UNCHANGED vars
    <2>1. /\ UNCHANGED <<consoles, next>> /\ wrote' = wrote /\ con' = con
      BY <1>4 DEF vars
    <2>2. PICK n \in Nat : \E q : Chain(q, n) /\ Walk(q, n)
      BY DEF ListInv
    <2>3. PICK q : Chain(q, n) /\ Walk(q, n)
      BY <2>2
    <2>4. Chain(q, n)'
      BY <2>1, <2>3, SameChain
    <2>5. Walk(q, n)'
      BY <2>1, <2>3 DEF Walk
    <2>6. next' \in [Con -> Con \cup {NULL}]
      BY <2>1 DEF ListInv
    <2> QED
      BY <2>4, <2>5, <2>6 DEF ListInv
  <1> QED
    BY <1>1, <1>2, <1>3, <1>4 DEF Next

-----------------------------------------------------------------------------
(***************************************************************************)
(* After any sequence of registrations and removals, with whatever stale   *)
(* next fields they leave in consoles that are not listed, a console_write *)
(* that has ended has called every registered console exactly once, the    *)
(* newest one first: the list has no cycle and no one is missing from it.  *)
(***************************************************************************)
THEOREM EveryConsoleIsCalledOnce == Spec => []EachOnce
  <1>1. ListInv => EachOnce
    <2> SUFFICES ASSUME ListInv, con = NULL, wrote # <<>>
                 PROVE  /\ Len(wrote) = Cardinality(Listed)
                        /\ \A i \in 1 .. Len(wrote) : wrote[i] = Node[i]
      BY DEF EachOnce, Idle
    <2>1. PICK n \in Nat : \E q : Chain(q, n) /\ Walk(q, n)
      BY DEF ListInv
    <2>2. PICK q : Chain(q, n) /\ Walk(q, n)
      BY <2>1
    <2>3. /\ wrote \in Seq(Con) /\ Len(wrote) \in {0, n}
          /\ \A i \in 1 .. Len(wrote) : wrote[i] = q[i]
      BY <2>2 DEF Walk
    <2>4. Len(wrote) # 0
      BY <2>3
    <2>5. Len(wrote) = n
      BY <2>3, <2>4
    <2>6. Cardinality(Listed) = n
      BY <2>2, MembersOfChain
    <2>7. \A i \in 1 .. n : i \in Nat /\ i >= 1 /\ i <= n
      OBVIOUS
    <2>8. \A i \in 1 .. n : Node[i] = q[i]
      BY <2>2, <2>7, NodesOfChain
    <2> QED
      BY <2>3, <2>5, <2>6, <2>8
  <1> QED
    BY <1>1, InitListInv, NextListInv, PTL DEF Spec

(***************************************************************************)
(* register_console and unregister_console, whatever they return, neither  *)
(* put another console on the list than their argument nor lose one from   *)
(* it.                                                                     *)
(***************************************************************************)
THEOREM OthersAreKept == Spec => OthersStay
  <1> DEFINE Kept == \A c \in Con : register_console(c) \/ unregister_console(c) =>
                                      (Listed' \ {c}) = (Listed \ {c})
  <1>1. ListInv /\ [Next]_vars => [Kept]_vars
    BY RegisterStep, UnregisterStep
  <1> QED
    BY <1>1, InitListInv, NextListInv, PTL DEF Spec, OthersStay
=============================================================================
