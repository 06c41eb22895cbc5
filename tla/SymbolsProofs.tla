---------------------------- MODULE SymbolsProofs ----------------------------
(***************************************************************************)
(* The lookup of kernel/symbols.c finds the name of the function, for every*)
(* table that the generator writes: the binary search that it shares with  *)
(* find_fde ends at the last entry that is not above the address, skipping *)
(* the names of a block ends where that entry's begins, and expanding its  *)
(* tokens gives its text.                                                  *)
(***************************************************************************)
EXTENDS Symbols, WellFoundedInduction, TLAPS

\* The table stays in the order the search relies on.
Sorted == \A i, j \in 0 .. (count - 1) : i <= j => table[i] <= table[j]

Inv == TypeOK /\ Sorted /\ Bracketed /\ FindsLast

\* The middle of more than one entry lies strictly between begin and end.
LEMMA MiddleInside ==
    ASSUME begin \in Nat, end \in Nat, end - begin > 1
    PROVE  middle \in Nat /\ begin < middle /\ middle < end
  BY DEF middle

\* The search begins with the whole table.
LEMMA InitInv == Init => Inv
  <1> SUFFICES ASSUME Init PROVE Inv
    OBVIOUS
  <1>1. PICK t \in Tables : table = t.entry /\ count = t.count
    BY DEF Init
  <1>2. IsTable(t)
    BY TablesAssumption
  <1>3. TypeOK
    BY <1>1, <1>2, TablesAssumption DEF Init, TypeOK, IsTable
  <1>4. Sorted
    BY <1>1, <1>2 DEF IsTable, Sorted
  <1> QED
    BY <1>3, <1>4 DEF Inv, Init, Bracketed, FindsLast, TypeOK

\* When one entry is left, the bracket is the result.
LEMMA OneLeft ==
    ASSUME TypeOK, Sorted, Bracketed, ~(end - begin > 1)
    PROVE  IsLastAtOrBelow(table, count, key, begin)
  <1>1. end = begin + 1
    BY DEF TypeOK, Bracketed
  <1>2. ASSUME NEW j \in 0 .. (count - 1), j > begin
        PROVE  table[j] > key
    <2>1. end \in 0 .. (count - 1) /\ end <= j
      BY <1>1, <1>2 DEF TypeOK
    <2>2. table[end] <= table[j] /\ table[end] > key
      BY <2>1 DEF TypeOK, Sorted, Bracketed
    <2>3. table[end] \in Nat /\ table[j] \in Nat /\ key \in Nat
      BY <2>1 DEF TypeOK
    <2> QED
      BY <2>2, <2>3
  <1> QED
    BY <1>2 DEF IsLastAtOrBelow, TypeOK, Bracketed

\* Each half that is thrown away does not hold the entry.
LEMMA StepInv == Inv /\ [Search]_searchVars => Inv'
  <1> SUFFICES ASSUME Inv, [Search]_searchVars PROVE Inv'
    OBVIOUS
  <1>1. CASE GoRight
    <2>1. begin < middle /\ middle < end /\ middle \in Nat
      BY <1>1, MiddleInside DEF GoRight, Inv, TypeOK
    <2> QED
      BY <1>1, <2>1 DEF GoRight, Inv, TypeOK, Sorted, Bracketed, FindsLast
  <1>2. CASE GoLeft
    <2>1. begin < middle /\ middle < end /\ middle \in Nat
      BY <1>2, MiddleInside DEF GoLeft, Inv, TypeOK
    <2> QED
      BY <1>2, <2>1 DEF GoLeft, Inv, TypeOK, Sorted, Bracketed, FindsLast
  <1>3. CASE Found
    <2>1. IsLastAtOrBelow(table, count, key, begin)
      BY <1>3, OneLeft DEF Found, Inv
    <2>2. FindsLast'
      BY <1>3, <2>1 DEF Found, FindsLast, IsLastAtOrBelow
    <2> QED
      BY <1>3, <2>2 DEF Found, Inv, TypeOK, Sorted, Bracketed
  <1>4. CASE UNCHANGED searchVars
    BY <1>4 DEF searchVars, Inv, TypeOK, Sorted, Bracketed, FindsLast, IsLastAtOrBelow
  <1> QED
    BY <1>1, <1>2, <1>3, <1>4 DEF Search

(***************************************************************************)
(* The loop that find_fde and symbol_lookup_by_address share returns the   *)
(* last entry that is not above the address, for every ascending table     *)
(* with an entry.                                                          *)
(***************************************************************************)
THEOREM SearchFindsLast == Spec => []FindsLast
  <1>1. Spec => []Inv
    BY InitInv, StepInv, PTL DEF Spec
  <1> QED
    BY <1>1, PTL DEF Inv

-----------------------------------------------------------------------------
(***************************************************************************)
(* Induction over the numbers up to n, for a set of them.                  *)
(***************************************************************************)
LEMMA LeastNumber ==
    ASSUME NEW T \in SUBSET Nat, T # {}
    PROVE  \E x \in T : \A y \in T : x <= y
  <1> DEFINE lt == OpToRel(<, Nat)
  <1>1. PICK x \in T : \A y \in T : ~(<<y, x>> \in lt)
    BY WFMin, NatLessThanWellFounded, Zenon
  <1>2. \A y \in T : ~(y < x)
    BY <1>1 DEF OpToRel
  <1> QED
    BY <1>2

\* A set with m that has k whenever it has k - 1 has all of m .. n.
LEMMA UpTo ==
    ASSUME NEW n \in Nat, NEW m \in 0 .. n, NEW T, m \in T,
           \A k \in m + 1 .. n : k - 1 \in T => k \in T
    PROVE  m .. n \subseteq T
  <1> DEFINE U == {k \in m .. n : k \notin T}
  <1> SUFFICES ASSUME U # {} PROVE FALSE
    OBVIOUS
  <1>1. U \in SUBSET Nat
    OBVIOUS
  <1>2. PICK k \in U : \A y \in U : k <= y
    BY <1>1, LeastNumber, Zenon
  <1>3. k \in m .. n /\ k \notin T /\ k # m
    BY <1>2
  <1>4. k \in m + 1 .. n /\ k - 1 \in m .. n /\ ~(k <= k - 1)
    BY <1>3
  <1>5. k - 1 \in T
    BY <1>2, <1>4
  <1> QED
    BY <1>3, <1>4, <1>5

-----------------------------------------------------------------------------
(***************************************************************************)
(* FlattenSeq.  The first k of n sequences, one behind the other, are f[k].*)
(***************************************************************************)
IsConcatenation(f, e, n, S) ==
    /\ \A k \in 1 .. n : e[k] \in Seq(S)
    /\ f \in [0 .. n -> Seq(S)]
    /\ f[0] = <<>>
    /\ \A k \in 1 .. n : f[k] = f[k - 1] \o e[k]

\* There is such an f, whatever the sequences are.
LEMMA ConcatenationExists ==
    ASSUME NEW S, NEW n \in Nat, NEW e, \A k \in 1 .. n : e[k] \in Seq(S)
    PROVE  \E f : IsConcatenation(f, e, n, S)
  <1> DEFINE T == {v \in Nat : \E f : IsConcatenation(f, e, v, S)}
  <1>1. 0 \in T
    <2> DEFINE f == [k \in 0 .. 0 |-> <<>>]
    <2>1. f \in [0 .. 0 -> Seq(S)] /\ f[0] = <<>> /\ 1 .. 0 = {}
      OBVIOUS
    <2>2. IsConcatenation(f, e, 0, S)
      BY <2>1 DEF IsConcatenation
    <2> QED
      BY <2>2
  <1>2. ASSUME NEW k \in 1 .. n, k - 1 \in T
        PROVE  k \in T
    <2>1. PICK g : IsConcatenation(g, e, k - 1, S)
      BY <1>2
    <2>2. /\ k \in Nat /\ k - 1 \in 0 .. k - 1 /\ k \in 0 .. k
          /\ \A i \in 0 .. k : i # k => i \in 0 .. k - 1
          /\ \A i \in 1 .. k : i - 1 \in 0 .. k /\ i - 1 # k /\ i \in 0 .. k
          /\ \A i \in 1 .. k : i # k => i \in 1 .. k - 1
          /\ 0 \in 0 .. k /\ 0 # k
      OBVIOUS
    <2>3. g[k - 1] \in Seq(S) /\ e[k] \in Seq(S)
      BY <2>1, <2>2, Zenon DEF IsConcatenation
    <2> DEFINE new == g[k - 1] \o e[k]
               f   == [i \in 0 .. k |-> IF i = k THEN new ELSE g[i]]
    <2>4. new \in Seq(S)
      BY <2>3
    <2>5. \A i \in 0 .. k : (IF i = k THEN new ELSE g[i]) \in Seq(S)
      <3> HIDE DEF new
      <3> QED
        BY <2>1, <2>2, <2>4, Zenon DEF IsConcatenation
    <2>6. f \in [0 .. k -> Seq(S)]
      BY <2>5, Zenon
    <2>7. /\ \A i \in 0 .. k : i # k => f[i] = g[i]
          /\ f[k] = g[k - 1] \o e[k]
      BY <2>2, Zenon
    <2> HIDE DEF f
    <2>8. f[0] = <<>>
      BY <2>1, <2>2, <2>7, Zenon DEF IsConcatenation
    <2>9. ASSUME NEW i \in 1 .. k PROVE f[i] = f[i - 1] \o e[i]
      <3>1. f[i - 1] = g[i - 1]
        BY <2>2, <2>7, Zenon
      <3>2. CASE i = k
        BY <2>7, <3>1, <3>2, Zenon
      <3>3. CASE i # k
        <4>1. i \in 1 .. k - 1 /\ f[i] = g[i]
          BY <2>2, <2>7, <3>3, Zenon
        <4> QED
          BY <2>1, <3>1, <4>1, Zenon DEF IsConcatenation
      <3> QED
        BY <3>2, <3>3
    <2>10. \A i \in 1 .. k : e[i] \in Seq(S)
      OBVIOUS
    <2>11. IsConcatenation(f, e, k, S)
      BY <2>10, <2>6, <2>8, <2>9, Zenon DEF IsConcatenation
    <2> QED
      BY <2>2, <2>11
  <1> HIDE DEF T
  <1>3. 0 .. n \subseteq T
    <2>1. 0 \in 0 .. n /\ 0 + 1 = 1
      OBVIOUS
    <2> QED
      BY <1>1, <1>2, <2>1, UpTo, Zenon
  <1>4. n \in T
    BY <1>3
  <1> QED
    BY <1>4 DEF T

IsFlattening(f, e, n) ==
    \A m \in 0 .. n : FlattenSeq([k \in 1 .. m |-> e[k]]) = f[m]

\* The recursive function inside FlattenSeq is that f.
LEMMA FlattenIsConcatenation ==
    ASSUME NEW S, NEW n \in Nat, NEW e, NEW f, IsConcatenation(f, e, n, S)
    PROVE  IsFlattening(f, e, n)
  <1> SUFFICES ASSUME NEW m \in 0 .. n
               PROVE  FlattenSeq([k \in 1 .. m |-> e[k]]) = f[m]
    BY DEF IsFlattening
  <1> DEFINE s    == [k \in 1 .. m |-> e[k]]
             G(g) == [i \in 1 .. Len(s) |-> IF i = 1 THEN s[i] ELSE g[i - 1] \o s[i]]
             c    == CHOOSE g : g = G(g)
  <1>0. \A i \in 1 .. m : i \in 1 .. n
    OBVIOUS
  <1>1. s \in Seq(Seq(S)) /\ Len(s) = m /\ \A i \in 1 .. m : s[i] = e[i]
    <2>1. \A i \in 1 .. m : e[i] \in Seq(S)
      BY <1>0, Zenon DEF IsConcatenation
    <2> QED
      BY <2>1
  <1>2. CASE m = 0
    <2>1. s = <<>>
      BY <1>1, <1>2
    <2>2. FlattenSeq(s) = <<>>
      <3> HIDE DEF s
      <3> QED
        BY <2>1 DEF FlattenSeq
    <2> QED
      BY <1>2, <2>2, Zenon DEF IsConcatenation
  <1>3. CASE m # 0
    <2>1. FlattenSeq(s) = c[m]
      <3>1. Len(s) # 0
        BY <1>1, <1>3
      <3> HIDE DEF s
      <3>2. FlattenSeq(s) = c[Len(s)]
        BY <3>1, Zenon DEF FlattenSeq
      <3> QED
        BY <1>1, <3>2, Zenon
    <2> HIDE DEF s
    <2> DEFINE h == [i \in 1 .. m |-> f[i]]
    <2>2. \A i \in 1 .. m : h[i] = IF i = 1 THEN s[i] ELSE h[i - 1] \o s[i]
      <3> TAKE i \in 1 .. m
      <3>1. i \in 1 .. n /\ h[i] = f[i] /\ f[i] = f[i - 1] \o e[i]
        BY <1>0, Zenon DEF IsConcatenation
      <3>2. CASE i = 1
        <4>1. f[i - 1] = <<>>
          <5>1. i - 1 = 0
            BY <3>2
          <5> QED
            BY <5>1, Zenon DEF IsConcatenation
        <4>2. e[i] \in Seq(S)
          BY <3>1, Zenon DEF IsConcatenation
        <4>3. <<>> \o e[i] = e[i]
          BY <4>2
        <4> QED
          BY <1>1, <3>1, <3>2, <4>1, <4>3, Zenon
      <3>3. CASE i # 1
        <4>1. i - 1 \in 1 .. m
          BY <3>3
        <4>2. h[i - 1] = f[i - 1]
          BY <4>1, Zenon
        <4> QED
          BY <1>1, <3>1, <3>3, <4>2, Zenon
      <3> QED
        BY <3>2, <3>3
    <2>3. h = G(h)
      <3> DEFINE g(i) == IF i = 1 THEN s[i] ELSE h[i - 1] \o s[i]
      <3>1. G(h) = [i \in 1 .. m |-> g(i)]
        BY <1>1, Zenon
      <3>2. \A i \in 1 .. m : g(i) = h[i]
        BY <2>2, Zenon
      <3> HIDE DEF g
      <3>4. [i \in 1 .. m |-> g(i)] = [i \in 1 .. m |-> h[i]]
        BY <3>2, Zenon
      <3>3. [i \in 1 .. m |-> h[i]] = h
        BY Zenon
      <3> HIDE DEF h, G
      <3> QED
        BY <3>1, <3>3, <3>4, Zenon
    <2> HIDE DEF h
    <2>4. c = G(c)
      BY <2>3, Zenon
    <2> HIDE DEF c
    <2>5. \A i \in 1 .. m : c[i] = IF i = 1 THEN s[i] ELSE c[i - 1] \o s[i]
      BY <1>1, <2>4, Zenon
    <2> DEFINE T == {i \in 1 .. m : c[i] = f[i]}
    <2>6. \A i \in 1 .. m : i \in 1 .. n /\ f[i] = f[i - 1] \o e[i]
      BY <1>0, Zenon DEF IsConcatenation
    <2>7. 1 \in T
      <3>1. 1 \in 1 .. m /\ 1 - 1 = 0
        BY <1>3
      <3>2. f[0] = <<>> /\ e[1] \in Seq(S) /\ f[1] = f[0] \o e[1]
        BY <2>6, <3>1, Zenon DEF IsConcatenation
      <3>3. f[1] = e[1]
        BY <3>2
      <3> QED
        BY <1>1, <2>5, <3>1, <3>3, Zenon
    <2>8. ASSUME NEW i \in 2 .. m, i - 1 \in T PROVE i \in T
      <3>1. i \in 1 .. m /\ i # 1
        OBVIOUS
      <3> QED
        <4>1. c[i - 1] = f[i - 1]
          BY <2>8, Zenon
        <4>2. c[i] = c[i - 1] \o s[i] /\ s[i] = e[i]
          BY <1>1, <2>5, <3>1, Zenon
        <4>3. f[i] = f[i - 1] \o e[i]
          BY <2>6, <3>1, Zenon
        <4>4. c[i] = f[i]
          BY <4>1, <4>2, <4>3, Zenon
        <4> QED
          BY <3>1, <4>4, Zenon
    <2> HIDE DEF T
    <2>9. 1 .. m \subseteq T
      <3>1. m \in Nat /\ 1 \in 0 .. m /\ 1 + 1 = 2
        BY <1>3
      <3> QED
        BY <2>7, <2>8, <3>1, UpTo, Zenon
    <2>10. m \in T
      BY <1>3, <2>9
    <2>11. c[m] = f[m]
      BY <2>10 DEF T
    <2> QED
      BY <2>1, <2>11, Zenon DEF s
  <1> QED
    BY <1>2, <1>3, Zenon

\* What it takes for c to be a and then b.
IsJoined(a, b, c) ==
    /\ Len(a) \in Nat /\ Len(b) \in Nat
    /\ Len(c) = Len(a) + Len(b)
    /\ \A i \in 1 .. Len(a) : c[i] = a[i]
    /\ \A i \in 1 .. Len(b) : c[Len(a) + i] = b[i]

\* The operator of Sequences does.
LEMMA ConcatIsJoined ==
    ASSUME NEW S, NEW a \in Seq(S), NEW b \in Seq(S)
    PROVE  IsJoined(a, b, a \o b)
  BY DEF IsJoined

\* Where the members of sequence k are.
Holds(f, e, n, k, S) ==
    /\ f[k - 1] \in Seq(S) /\ f[k] \in Seq(S)
    /\ Len(f[k]) = Len(f[k - 1]) + Len(e[k])
    /\ \A i \in 1 .. Len(e[k]) : f[n][Len(f[k - 1]) + i] = e[k][i]

\* Appending more sequences moves none of the members.
LEMMA ConcatenationHolds ==
    ASSUME NEW S, NEW n \in Nat, NEW e, NEW f, IsConcatenation(f, e, n, S),
           NEW k \in 1 .. n
    PROVE  Holds(f, e, n, k, S)
  <1>1. k \in 0 .. n /\ k - 1 \in 0 .. n /\ k \in k .. n
    OBVIOUS
  <1>2. ASSUME NEW m \in 1 .. n
        PROVE  IsJoined(f[m - 1], e[m], f[m])
    <2>1. m - 1 \in 0 .. n
      OBVIOUS
    <2>2. f[m - 1] \in Seq(S) /\ e[m] \in Seq(S) /\ f[m] = f[m - 1] \o e[m]
      BY <2>1, Zenon DEF IsConcatenation
    <2> QED
      BY <2>2, ConcatIsJoined, Zenon
  <1>3. f[k - 1] \in Seq(S) /\ f[k] \in Seq(S)
    BY <1>1, Zenon DEF IsConcatenation
  <1> DEFINE at == Len(f[k - 1])
             l  == Len(e[k])
             T  == {m \in k .. n : /\ at + l <= Len(f[m])
                                   /\ \A i \in 1 .. l : f[m][at + i] = e[k][i]}
  <1>4. /\ at \in Nat /\ l \in Nat /\ Len(f[k]) = at + l
        /\ \A i \in 1 .. l : f[k][at + i] = e[k][i]
    BY <1>2, Zenon DEF IsJoined
  <1> HIDE DEF at, l
  <1>5. k \in T
    <2>1. at + l <= Len(f[k])
      BY <1>4
    <2> QED
      BY <1>1, <1>4, <2>1, Zenon
  <1>6. ASSUME NEW m \in k + 1 .. n, m - 1 \in T
        PROVE  m \in T
    <2>1. m \in 1 .. n /\ m \in k .. n
      OBVIOUS
    <2> DEFINE x == Len(f[m - 1])
               y == Len(e[m])
    <2>2. /\ x \in Nat /\ y \in Nat /\ Len(f[m]) = x + y
          /\ \A i \in 1 .. x : f[m][i] = f[m - 1][i]
      BY <1>2, <2>1, Zenon DEF IsJoined
    <2>3. at + l <= x /\ \A i \in 1 .. l : f[m - 1][at + i] = e[k][i]
      BY <1>6
    <2> HIDE DEF x, y
    <2>4. at + l <= Len(f[m]) /\ \A i \in 1 .. l : at + i \in 1 .. x
      BY <1>4, <2>2, <2>3
    <2>5. \A i \in 1 .. l : f[m][at + i] = e[k][i]
      BY <2>2, <2>3, <2>4, Zenon
    <2> QED
      BY <2>1, <2>4, <2>5, Zenon
  <1> HIDE DEF T
  <1>7. k .. n \subseteq T
    BY <1>1, <1>5, <1>6, UpTo, Zenon
  <1>8. n \in T
    BY <1>7
  <1> QED
    BY <1>3, <1>4, <1>8 DEF T, at, l, Holds

\* The same of FlattenSeq.
Flattened(e, n, k, S) ==
    LET F(m) == FlattenSeq([i \in 1 .. m |-> e[i]])
    IN  /\ F(k - 1) \in Seq(S) /\ F(k) \in Seq(S)
        /\ F(k) = F(k - 1) \o e[k]
        /\ Len(F(k)) = Len(F(k - 1)) + Len(e[k])
        /\ \A i \in 1 .. Len(e[k]) : F(n)[Len(F(k - 1)) + i] = e[k][i]

\* FlattenSeq of the first k, and where sequence k is in all of them.
LEMMA FlattenHolds ==
    ASSUME NEW S, NEW n \in Nat, NEW e, \A i \in 1 .. n : e[i] \in Seq(S), NEW k \in 1 .. n
    PROVE  Flattened(e, n, k, S)
  <1> DEFINE F(m) == FlattenSeq([i \in 1 .. m |-> e[i]])
  <1>1. PICK f : IsConcatenation(f, e, n, S)
    BY ConcatenationExists
  <1>2. ASSUME NEW m \in 0 .. n
        PROVE  F(m) = f[m]
    <2>1. IsFlattening(f, e, n)
      BY <1>1, FlattenIsConcatenation, Zenon
    <2> QED
      BY <2>1, Zenon DEF IsFlattening
  <1>3. k \in 0 .. n /\ k - 1 \in 0 .. n /\ n \in 0 .. n
    OBVIOUS
  <1>4. /\ f[k - 1] \in Seq(S) /\ f[k] \in Seq(S)
        /\ Len(f[k]) = Len(f[k - 1]) + Len(e[k])
        /\ \A i \in 1 .. Len(e[k]) : f[n][Len(f[k - 1]) + i] = e[k][i]
    <2>1. Holds(f, e, n, k, S)
      BY <1>1, ConcatenationHolds, Zenon
    <2> QED
      BY <2>1, Zenon DEF Holds
  <1> HIDE DEF F
  <1>5. F(k) = f[k] /\ F(k - 1) = f[k - 1] /\ F(n) = f[n]
    BY <1>2, <1>3, Zenon
  <1>7. f[k] = f[k - 1] \o e[k]
    BY <1>1, Zenon DEF IsConcatenation
  <1>6. /\ F(k - 1) \in Seq(S) /\ F(k) \in Seq(S)
        /\ F(k) = F(k - 1) \o e[k]
        /\ Len(F(k)) = Len(F(k - 1)) + Len(e[k])
        /\ \A i \in 1 .. Len(e[k]) : F(n)[Len(F(k - 1)) + i] = e[k][i]
    BY <1>4, <1>5, <1>7, Zenon
  <1> QED
    BY <1>6, Zenon DEF F, Flattened


-----------------------------------------------------------------------------
(***************************************************************************)
(* The names in g_symbol_compressed_names.                                 *)
(***************************************************************************)
Bytes == Nat \cup DOMAIN TokenText

Names(k) == FlattenSeq([i \in 1 .. k |-> Compressed(symbols[i].tokens)])

\* Where the name behind the first k names begins.
Start(k) == Len(Names(k))

\* The bytes of a length.
Header(t) == IF Len(t) < Leb THEN 1 ELSE 2

\* What IsSymbolTable says of a table.
LEMMA SymbolFacts ==
    ASSUME NEW s \in SymbolTables
    PROVE  /\ Len(s) \in Nat /\ DOMAIN s = 1 .. Len(s)
           /\ \A i \in 1 .. Len(s) :
                 /\ s[i].addr \in Nat
                 /\ s[i].tokens \in Seq(DOMAIN TokenText)
                 /\ Len(s[i].tokens) \in 1 .. (Leb * Leb - 1)
           /\ \A i, j \in 1 .. Len(s) : i <= j => s[i].addr <= s[j].addr
           /\ s # <<>> => s[1].addr = TextBegin
           /\ s # <<>> <=> Len(s) > 0
  <1>1. IsSymbolTable(s)
    BY SymbolTablesAssumption, Zenon
  <1>2. s \in Seq(Symbol)
    BY <1>1, Zenon DEF IsSymbolTable
  <1>3. Len(s) \in Nat /\ DOMAIN s = 1 .. Len(s) /\ (s # <<>> <=> Len(s) > 0)
    BY <1>2
  <1>4. ASSUME NEW i \in 1 .. Len(s)
        PROVE  s[i].addr \in Nat /\ s[i].tokens \in Seq(DOMAIN TokenText)
    <2>1. s[i] \in Symbol
      BY <1>2
    <2> QED
      BY <2>1 DEF Symbol
  <1>5. \A i \in 1 .. Len(s) : Len(s[i].tokens) \in 1 .. (Leb * Leb - 1)
    BY <1>1, <1>3, Zenon DEF IsSymbolTable
  <1>6. ASSUME NEW i \in 1 .. Len(s), NEW j \in 1 .. Len(s), i <= j
        PROVE  s[i].addr <= s[j].addr
    <2>1. s[i].addr \in Nat /\ s[j].addr \in Nat
      BY <1>4
    <2>2. CASE i = j
      BY <2>1, <2>2
    <2>3. CASE i # j
      <3>1. i < j
        BY <1>6, <2>3
      <3>2. s[i].addr < s[j].addr \/ s[i].addr = s[j].addr
        BY <1>1, <1>3, <3>1, Zenon DEF IsSymbolTable
      <3> QED
        BY <2>1, <3>2
    <2> QED
      BY <2>2, <2>3
  <1> QED
    BY <1>1, <1>3, <1>4, <1>5, <1>6 DEF IsSymbolTable

\* A length is put together again from its two bytes.
LEMMA SplitLength ==
    ASSUME NEW l \in Nat \ {0}, NEW n \in Nat
    PROVE  /\ n \div l \in Nat /\ n % l \in 0 .. l - 1
           /\ n = (l * (n \div l)) + (n % l)
           /\ (l + (n % l)) % l = n % l
  <1>1. n \div l \in Nat /\ n % l \in 0 .. l - 1 /\ n = (l * (n \div l)) + (n % l)
    BY SMTT(30)
  <1> DEFINE r == n % l
             q == (l + r) \div l
             m == (l + r) % l
  <1>2. r \in 0 .. l - 1
    BY <1>1
  <1> HIDE DEF r
  <1>3. q \in Nat /\ m \in 0 .. l - 1 /\ l + r = (l * q) + m
    BY <1>2, SMTT(30)
  <1> HIDE DEF q, m
  <1>4. m = r
    <2>1. CASE q = 0
      BY <1>2, <1>3, <2>1
    <2>2. CASE q = 1
      BY <1>2, <1>3, <2>2
    <2>3. CASE q >= 2
      <3>1. l * q >= l * 2
        BY <1>3, <2>3
      <3> QED
        BY <1>2, <1>3, <3>1
    <2> QED
      BY <1>3, <2>1, <2>2, <2>3
  <1> QED
    BY <1>1, <1>4 DEF r, m

\* What the generator writes for a name.
LEMMA NameFacts ==
    ASSUME NEW t \in Seq(DOMAIN TokenText), Len(t) \in 1 .. (Leb * Leb - 1)
    PROVE  /\ Compressed(t) \in Seq(Bytes)
           /\ Header(t) \in 1 .. 2
           /\ Len(Compressed(t)) = Header(t) + Len(t)
           /\ \A k \in 1 .. Len(t) : Compressed(t)[Header(t) + k] = t[k]
           /\ Len(t) < Leb => Compressed(t)[1] = Len(t)
           /\ ~(Len(t) < Leb) => /\ Compressed(t)[1] = Leb + (Len(t) % Leb)
                                 /\ Compressed(t)[2] = Len(t) \div Leb
  <1> DEFINE n == Len(t)
  <1>1. Leb \in Nat \ {0} /\ n \in Nat /\ t \in Seq(Bytes)
    BY SymbolTablesAssumption DEF Bytes
  <1>2. ASSUME NEW h \in Seq(Bytes), Compressed(t) = h \o t,
               Len(h) = Header(t), Header(t) \in 1 .. 2
        PROVE  /\ Compressed(t) \in Seq(Bytes)
               /\ Len(Compressed(t)) = Header(t) + n
               /\ \A k \in 1 .. n : Compressed(t)[Header(t) + k] = t[k]
               /\ \A k \in 1 .. Header(t) : Compressed(t)[k] = h[k]
    <2>1. h \o t \in Seq(Bytes) /\ IsJoined(h, t, h \o t)
      BY <1>1, ConcatIsJoined
    <2> QED
      BY <1>2, <2>1, Zenon DEF IsJoined
  <1>3. CASE n < Leb
    <2> DEFINE h == <<n>>
    <2>1. Compressed(t) = h \o t /\ Header(t) = 1
      BY <1>3 DEF Compressed, Header
    <2>2. h \in Seq(Bytes) /\ Len(h) = 1 /\ h[1] = n
      BY <1>1 DEF Bytes
    <2> HIDE DEF n, h
    <2>3. 1 \in 1 .. 2 /\ 1 \in 1 .. 1
      OBVIOUS
    <2>4. /\ Compressed(t) \in Seq(Bytes)
          /\ Len(Compressed(t)) = Header(t) + n
          /\ \A k \in 1 .. n : Compressed(t)[Header(t) + k] = t[k]
          /\ Compressed(t)[1] = n
      BY <1>2, <2>1, <2>2, <2>3, Zenon
    <2> QED
      BY <1>3, <2>1, <2>3, <2>4, Zenon DEF n
  <1>4. CASE ~(n < Leb)
    <2> DEFINE a == Leb + (n % Leb)
               b == n \div Leb
               h == <<a, b>>
    <2>1. Compressed(t) = h \o t /\ Header(t) = 2
      BY <1>4 DEF Compressed, Header
    <2>2. a \in Bytes /\ b \in Bytes
      <3> HIDE DEF n
      <3>1. n % Leb \in 0 .. Leb - 1 /\ n \div Leb \in Nat
        BY <1>1, SplitLength, Zenon
      <3> QED
        BY <1>1, <3>1 DEF Bytes
    <2> HIDE DEF n, a, b
    <2>3. h \in Seq(Bytes) /\ Len(h) = 2 /\ h[1] = a /\ h[2] = b
      BY <2>2
    <2> HIDE DEF h
    <2>4. 2 \in 1 .. 2 /\ 1 \in 1 .. 2
      OBVIOUS
    <2>5. /\ Compressed(t) \in Seq(Bytes)
          /\ Len(Compressed(t)) = Header(t) + n
          /\ \A k \in 1 .. n : Compressed(t)[Header(t) + k] = t[k]
          /\ Compressed(t)[1] = a /\ Compressed(t)[2] = b
      BY <1>2, <2>1, <2>3, <2>4, Zenon
    <2> QED
      BY <1>4, <2>1, <2>4, <2>5, Zenon DEF n, a, b
  <1> QED
    BY <1>3, <1>4

\* The name of symbol k, where it is in the bytes of all names.
LEMMA NameAt ==
    ASSUME symbols \in SymbolTables, NEW k \in 1 .. Len(symbols)
    PROVE  LET t == symbols[k].tokens
           IN  /\ Start(k - 1) \in Nat
               /\ Start(k) = Start(k - 1) + Header(t) + Len(t)
               /\ \A i \in 1 .. Header(t) + Len(t) :
                     Byte(Start(k - 1) + i - 1) = Compressed(t)[i]
  <1> DEFINE n == Len(symbols)
             e == [i \in 1 .. n |-> Compressed(symbols[i].tokens)]
             t == symbols[k].tokens
  <1>1. n \in Nat /\ DOMAIN symbols = 1 .. n
    BY SymbolFacts
  <1>2. \A i \in 1 .. n : e[i] = Compressed(symbols[i].tokens)
    OBVIOUS
  <1>3. \A i \in 1 .. n : e[i] \in Seq(Bytes)
    BY <1>2, SymbolFacts, NameFacts, Zenon
  <1>4. \A m \in 0 .. n : Names(m) = FlattenSeq([i \in 1 .. m |-> e[i]])
    <2> TAKE m \in 0 .. n
    <2>1. \A i \in 1 .. m : i \in 1 .. n
      BY <1>1
    <2>2. [i \in 1 .. m |-> Compressed(symbols[i].tokens)] = [i \in 1 .. m |-> e[i]]
      BY <1>2, <2>1, Zenon
    <2> QED
      BY <2>2, Zenon DEF Names
  <1> HIDE DEF n, e
  <1>5. k \in 1 .. n /\ k \in 0 .. n /\ k - 1 \in 0 .. n /\ n \in 0 .. n
    BY <1>1 DEF n
  <1>6. Flattened(e, n, k, Bytes)
    BY <1>1, <1>3, <1>5, FlattenHolds, Zenon
  <1>7. Names(k) = FlattenSeq([i \in 1 .. k |-> e[i]])
    BY <1>4, <1>5, Zenon
  <1>8. Names(k - 1) = FlattenSeq([i \in 1 .. k - 1 |-> e[i]])
    BY <1>4, <1>5, Zenon
  <1>9. g_symbol_compressed_names = FlattenSeq([i \in 1 .. n |-> e[i]])
    BY <1>1, <1>4, <1>5, Zenon DEF g_symbol_compressed_names, Names
  <1>10. /\ Names(k - 1) \in Seq(Bytes)
         /\ Start(k) = Start(k - 1) + Len(e[k])
         /\ \A i \in 1 .. Len(e[k]) :
               g_symbol_compressed_names[Start(k - 1) + i] = e[k][i]
    BY <1>6, <1>7, <1>8, <1>9, Zenon DEF Flattened, Start
  <1>11. Len(e[k]) = Header(t) + Len(t) /\ e[k] = Compressed(t)
    BY <1>2, <1>5, SymbolFacts, NameFacts, Zenon DEF n
  <1>12. Start(k - 1) \in Nat
    BY <1>10 DEF Start
  <1>13. Header(t) \in Nat /\ Len(t) \in Nat
    BY <1>5, SymbolFacts, NameFacts DEF n
  <1>14. Start(k) = Start(k - 1) + Header(t) + Len(t)
    <2>1. Start(k) = Start(k - 1) + (Header(t) + Len(t))
      BY <1>10, <1>11, Zenon
    <2> HIDE DEF t
    <2> QED
      BY <1>12, <1>13, <2>1
  <1>15. ASSUME NEW i \in 1 .. Header(t) + Len(t)
         PROVE  Byte(Start(k - 1) + i - 1) = Compressed(t)[i]
    <2>1. g_symbol_compressed_names[Start(k - 1) + i] = Compressed(t)[i]
      BY <1>10, <1>11, <1>15, Zenon
    <2>2. Start(k - 1) + i - 1 + 1 = Start(k - 1) + i
      BY <1>12, <1>13
    <2> QED
      BY <2>1, <2>2, Zenon DEF Byte
  <1> QED
    BY <1>12, <1>14, <1>15, Zenon

\* get_compressed_symbol_length, at the name that is from start to next.
NameIsRead(t, start, next) ==
    LET l == get_compressed_symbol_length(start)
    IN  /\ l.len = Len(t)
        /\ l.next = start + Header(t)
        /\ next = l.next + l.len
        /\ start + Header(t) \in Nat
        /\ \A i \in 1 .. Len(t) : Byte(start + Header(t) + i - 1) = t[i]

\* Whether the length took one byte or two.
LEMMA LengthAt ==
    ASSUME symbols \in SymbolTables, NEW k \in 1 .. Len(symbols)
    PROVE  NameIsRead(symbols[k].tokens, Start(k - 1), Start(k))
  <1> DEFINE t == symbols[k].tokens
             n == Len(t)
             h == Header(t)
             s == Start(k - 1)
             l == get_compressed_symbol_length(s)
             c == Compressed(t)
  <1>1. t \in Seq(DOMAIN TokenText) /\ n \in 1 .. (Leb * Leb - 1) /\ n \in Nat
    <2>1. t \in Seq(DOMAIN TokenText) /\ n \in 1 .. (Leb * Leb - 1)
      BY SymbolFacts, Zenon
    <2> QED
      BY <2>1
  <1>2. /\ h \in 1 .. 2
        /\ \A i \in 1 .. n : c[h + i] = t[i]
        /\ n < Leb => c[1] = n
        /\ ~(n < Leb) => c[1] = Leb + (n % Leb) /\ c[2] = n \div Leb
    BY <1>1, NameFacts, Zenon
  <1>3. /\ s \in Nat
        /\ Start(k) = s + h + n
        /\ \A i \in 1 .. h + n : Byte(s + i - 1) = c[i]
    BY NameAt, Zenon
  <1>4. /\ n < Leb => h = 1
        /\ ~(n < Leb) => h = 2
    BY DEF Header
  <1>5. Leb \in Nat \ {0}
    BY SymbolTablesAssumption
  <1>6. Byte(s) = c[1]
    <2> HIDE DEF n, h, s, c
    <2>1. 1 \in 1 .. h + n /\ s + 1 - 1 = s
      BY <1>1, <1>2, <1>3
    <2> QED
      BY <1>3, <2>1, Zenon
  <1>7. l.len = n /\ l.next = s + h
    <2> HIDE DEF n, h, s, c
    <2>1. CASE n < Leb
      <3>1. Byte(s) = n /\ ~(Byte(s) >= Leb)
        BY <1>1, <1>2, <1>5, <1>6, <2>1
      <3>2. l = [len |-> n, next |-> s + 1]
        BY <3>1, Zenon DEF get_compressed_symbol_length
      <3> QED
        BY <1>4, <2>1, <3>2
    <2>2. CASE ~(n < Leb)
      <3> DEFINE r == n % Leb
                 q == n \div Leb
                 b == Byte(s)
      <3>1. /\ q \in Nat /\ r \in 0 .. Leb - 1
            /\ n = (Leb * q) + r
            /\ (Leb + r) % Leb = r
        BY <1>1, <1>5, SplitLength, Zenon
      <3>2. b = Leb + r
        BY <1>2, <1>6, <2>2, Zenon
      <3>3. Byte(s + 1) = q
        <4>1. 2 \in 1 .. h + n /\ s + 2 - 1 = s + 1
          BY <1>1, <1>3, <1>4, <2>2
        <4>2. Byte(s + 1) = c[2]
          BY <1>3, <4>1, Zenon
        <4> QED
          BY <1>2, <2>2, <4>2, Zenon
      <3> HIDE DEF r, q, b
      <3>4. b >= Leb /\ b % Leb = r
        BY <1>5, <3>1, <3>2
      <3>5. l = [len |-> (b % Leb) + Byte(s + 1) * Leb, next |-> s + 2]
        BY <3>4, Zenon DEF get_compressed_symbol_length, b
      <3>6. l = [len |-> r + q * Leb, next |-> s + 2]
        BY <3>3, <3>4, <3>5, Zenon
      <3>7. n = r + q * Leb
        BY <1>5, <3>1
      <3> QED
        BY <1>4, <2>2, <3>6, <3>7
    <2> QED
      BY <2>1, <2>2
  <1>8. s + h \in Nat /\ Start(k) = l.next + l.len
    <2> HIDE DEF n, h, s, l
    <2> QED
      BY <1>1, <1>2, <1>3, <1>7
  <1>9. ASSUME NEW i \in 1 .. n
        PROVE  Byte(s + h + i - 1) = t[i]
    <2> HIDE DEF n, h, s, l, c, t
    <2>1. h + i \in 1 .. h + n /\ s + (h + i) - 1 = s + h + i - 1
      BY <1>1, <1>2, <1>3
    <2> QED
      BY <1>2, <1>3, <2>1, Zenon
  <1> QED
    BY <1>1, <1>7, <1>8, <1>9, Zenon DEF NameIsRead

\* The text of the first k tokens.
Said(t, k) == FlattenSeq([i \in 1 .. k |-> TokenText[t[i]]])

SaysOneMore(t, k) == Said(t, k) = Said(t, k - 1) \o TokenText[t[k]]

\* The text of a name grows by a token at a time.
LEMMA SaidFacts ==
    ASSUME NEW t \in Seq(DOMAIN TokenText)
    PROVE  /\ Said(t, 0) = <<>>
           /\ Text(t) = Said(t, Len(t))
           /\ \A k \in 1 .. Len(t) : SaysOneMore(t, k)
  <1>1. Said(t, 0) = <<>>
    <2>1. [i \in 1 .. 0 |-> TokenText[t[i]]] = <<>>
      OBVIOUS
    <2> QED
      BY <2>1 DEF Said, FlattenSeq
  <1>2. DOMAIN t = 1 .. Len(t) /\ Len(t) \in Nat
    OBVIOUS
  <1>3. Text(t) = Said(t, Len(t))
    BY <1>2, Zenon DEF Text, Said
  <1>4. ASSUME NEW k \in 1 .. Len(t)
        PROVE  SaysOneMore(t, k)
    <2> DEFINE n == Len(t)
               e == [i \in 1 .. n |-> TokenText[t[i]]]
    <2>1. \A i \in 1 .. n : e[i] = TokenText[t[i]] /\ t[i] \in DOMAIN TokenText
      OBVIOUS
    <2>2. \A i \in 1 .. n : e[i] \in Seq(STRING)
      BY <2>1, SymbolTablesAssumption, Zenon
    <2>3. \A m \in 0 .. n : Said(t, m) = FlattenSeq([i \in 1 .. m |-> e[i]])
      <3> TAKE m \in 0 .. n
      <3>1. \A i \in 1 .. m : i \in 1 .. n
        BY <1>2
      <3>2. [i \in 1 .. m |-> TokenText[t[i]]] = [i \in 1 .. m |-> e[i]]
        BY <2>1, <3>1, Zenon
      <3> QED
        BY <3>2, Zenon DEF Said
    <2> HIDE DEF e
    <2>4. Flattened(e, n, k, STRING)
      BY <1>2, <2>2, FlattenHolds, Zenon
    <2>5. k \in 0 .. n /\ k - 1 \in 0 .. n
      BY <1>2
    <2>6. Said(t, k) = Said(t, k - 1) \o e[k]
      BY <2>3, <2>4, <2>5, Zenon DEF Flattened
    <2> QED
      BY <2>1, <2>6, Zenon DEF SaysOneMore
  <1> QED
    BY <1>1, <1>3, <1>4, Zenon

-----------------------------------------------------------------------------
(***************************************************************************)
(* The lookup.  What is looked for is in a table of the generator, and the *)
(* 32 bits of a relative address hold it.                                  *)
(***************************************************************************)
Looked ==
    /\ symbols # <<>>
    /\ TextBegin <= address /\ address <= TextEnd
    /\ table = g_symbol_relative_addresses
    /\ count = Len(symbols)
    /\ key = address - TextBegin

\* The function that was found, and how far in it the address is.
Located ==
    /\ Looked
    /\ IsLastAtOrBelow(table, count, key, begin)
    /\ out_offset_within = key - table[begin]

toks == symbols[begin + 1].tokens

\* index names lie between the cursor and the one that is wanted.
Skipping == index \in 0 .. begin /\ cursor = Start(begin - index) /\ out_name_buf = <<>>

\* All tokens but len have been expanded, and the cursor is at the next.
Expanding ==
    /\ len \in 0 .. Len(toks)
    /\ cursor = Start(begin) + Header(toks) + (Len(toks) - len)
    /\ out_name_buf = Said(toks, Len(toks) - len)

(***************************************************************************)
(* The inductive invariant of symbol_lookup_by_address.                    *)
(***************************************************************************)
LookupInv ==
    /\ symbols \in SymbolTables /\ address \in Nat
    /\ pc \in {"lookup", "search", "found", "skip", "expand", "done"}
    /\ pc # "done" => ret = "EOK"
    /\ pc \in {"lookup", "search", "found"} => out_name_buf = <<>>
    /\ pc \in {"search", "found"} => Looked /\ Inv
    /\ pc = "skip" => Located /\ Skipping
    /\ pc = "expand" => Located /\ Expanding
    /\ pc = "done" /\ ret = "EOK" => Located /\ out_name_buf = Text(toks)

\* A relative address fits, and is not wrapped.
LEMMA SmallMod ==
    ASSUME NEW a \in Nat, NEW w \in Nat, a < w
    PROVE  a % w = a
  BY SMTT(30)

\* What table, count and key are when they are looked up.
LookedWell ==
    /\ count \in Nat \ {0} /\ count = Len(symbols)
    /\ key \in Nat /\ key < Wrap
    /\ table \in [0 .. (count - 1) -> Nat]
    /\ table[0] = 0
    /\ \A i \in 1 .. count : /\ i - 1 \in 0 .. (count - 1)
                             /\ table[i - 1] = symbols[i].addr - TextBegin
                             /\ symbols[i].addr \in Nat
    /\ Sorted

\* It is a table that the search may be used on, and the first entry is 0.
LEMMA LookedFacts ==
    symbols \in SymbolTables /\ address \in Nat /\ Looked => LookedWell
  <1> SUFFICES ASSUME symbols \in SymbolTables, address \in Nat, Looked
               PROVE  LookedWell
    OBVIOUS
  <1>1. /\ TextBegin \in Nat /\ TextEnd \in Nat /\ Wrap \in Nat
        /\ TextEnd - TextBegin < Wrap
    BY SymbolTablesAssumption
  <1>2. /\ count \in Nat \ {0} /\ count = Len(symbols)
        /\ \A i \in 1 .. count : symbols[i].addr \in Nat
        /\ \A i, j \in 1 .. count : i <= j => symbols[i].addr <= symbols[j].addr
        /\ g_symbol_base = TextBegin /\ symbols[1].addr = TextBegin
    <2>1. symbols # <<>> /\ count = Len(symbols)
      BY Zenon DEF Looked
    <2>2. /\ Len(symbols) \in Nat /\ Len(symbols) > 0
          /\ symbols[1].addr = TextBegin
          /\ \A i \in 1 .. Len(symbols) : symbols[i].addr \in Nat
          /\ \A i, j \in 1 .. Len(symbols) : i <= j => symbols[i].addr <= symbols[j].addr
      BY <2>1, SymbolFacts, Zenon
    <2>3. count \in Nat \ {0}
      BY <2>1, <2>2
    <2> QED
      BY <2>1, <2>2, <2>3, Zenon DEF g_symbol_base
  <1>3. key \in Nat /\ key < Wrap
    BY <1>1 DEF Looked
  <1>4. \A i \in 0 .. (count - 1) : i + 1 \in 1 .. count
    BY <1>2
  <1>5. table = [i \in 0 .. (count - 1) |-> symbols[i + 1].addr - TextBegin]
    BY <1>2, Zenon DEF Looked, g_symbol_relative_addresses
  <1>6. \A i \in 0 .. (count - 1) : table[i] = symbols[i + 1].addr - TextBegin
    BY <1>5, Zenon
  <1>7. \A i \in 0 .. (count - 1) : symbols[i + 1].addr - TextBegin \in Nat
    <2> TAKE i \in 0 .. (count - 1)
    <2>1. i + 1 \in 1 .. count /\ 1 \in 1 .. count /\ 1 <= i + 1
      BY <1>2
    <2>2. symbols[1].addr <= symbols[i + 1].addr /\ symbols[i + 1].addr \in Nat
      BY <1>2, <2>1, Zenon
    <2> QED
      BY <1>1, <1>2, <2>2
  <1>8. table \in [0 .. (count - 1) -> Nat]
    BY <1>5, <1>7, Zenon
  <1>9. table[0] = 0
    <2>1. 0 \in 0 .. (count - 1) /\ 0 + 1 = 1
      BY <1>2
    <2>2. table[0] = symbols[1].addr - TextBegin
      BY <1>6, <2>1, Zenon
    <2> QED
      BY <1>1, <1>2, <2>2
  <1>10. ASSUME NEW i \in 1 .. count
         PROVE  /\ i - 1 \in 0 .. (count - 1)
                /\ table[i - 1] = symbols[i].addr - TextBegin
    <2>1. i - 1 \in 0 .. (count - 1) /\ i - 1 + 1 = i
      BY <1>2
    <2> QED
      BY <1>6, <2>1, Zenon
  <1>11. Sorted
    <2> SUFFICES ASSUME NEW i \in 0 .. (count - 1), NEW j \in 0 .. (count - 1), i <= j
                 PROVE  table[i] <= table[j]
      BY DEF Sorted
    <2>1. i + 1 \in 1 .. count /\ j + 1 \in 1 .. count /\ i + 1 <= j + 1
      BY <1>2
    <2>2. /\ symbols[i + 1].addr <= symbols[j + 1].addr
          /\ symbols[i + 1].addr \in Nat /\ symbols[j + 1].addr \in Nat
      BY <1>2, <2>1, Zenon
    <2> QED
      BY <1>1, <1>6, <2>2
  <1> QED
    BY <1>2, <1>3, <1>8, <1>9, <1>10, <1>11, Zenon DEF LookedWell

\* The entry found is not above the address, the first one neither.
LEMMA LocatedFacts ==
    ASSUME symbols \in SymbolTables, address \in Nat, Looked,
           IsLastAtOrBelow(table, count, key, begin)
    PROVE  /\ begin \in 0 .. (count - 1) /\ begin \in Nat
           /\ begin + 1 \in 1 .. Len(symbols)
           /\ table[begin] \in Nat /\ table[begin] <= key
  <1>1. begin \in 0 .. (count - 1) /\ (begin > 0 => table[begin] <= key)
    BY DEF IsLastAtOrBelow
  <1>2. /\ count \in Nat \ {0} /\ count = Len(symbols) /\ key \in Nat
        /\ table \in [0 .. (count - 1) -> Nat] /\ table[0] = 0
    BY LookedFacts DEF LookedWell
  <1>3. table[begin] \in Nat
    BY <1>1, <1>2, Zenon
  <1>4. table[begin] <= key
    <2>1. CASE begin = 0
      BY <1>2, <2>1
    <2>2. CASE begin # 0
      BY <1>1, <1>2, <2>2
    <2> QED
      BY <2>1, <2>2
  <1> QED
    BY <1>1, <1>2, <1>3, <1>4

\* No table has been touched yet.
LEMMA LookupInitInv == LookupInit => LookupInv
  <1> SUFFICES ASSUME LookupInit PROVE LookupInv
    OBVIOUS
  <1>1. address \in Nat
    BY TablesAssumption DEF LookupInit
  <1> QED
    BY <1>1 DEF LookupInit, LookupInv

\* What symbol_lookup_by_address hands to the search.
LEMMA LookupKeepsInv == LookupInv /\ Lookup => LookupInv'
  <1> SUFFICES ASSUME LookupInv, Lookup PROVE LookupInv'
    OBVIOUS
  <1>1. /\ TextBegin \in Nat /\ TextEnd \in Nat /\ Wrap \in Nat
        /\ TextEnd - TextBegin < Wrap
    BY SymbolTablesAssumption
  <1>2. /\ symbols \in SymbolTables /\ address \in Nat /\ symbols # <<>>
        /\ symbols' = symbols /\ address' = address /\ out_name_buf' = out_name_buf
        /\ out_name_buf = <<>> /\ ret = "EOK" /\ ret' = ret /\ pc' = "search"
        /\ begin' = 0 /\ end' = Len(symbols)
        /\ TextBegin <= address /\ address <= TextEnd
    BY DEF Lookup, LookupInv, lookupVars, address_is_kernel_code
  <1>3. g_symbol_base = TextBegin
    BY <1>2, SymbolFacts DEF g_symbol_base
  <1>4. key' = address - TextBegin
    <2>1. address - TextBegin \in Nat /\ address - TextBegin < Wrap
      BY <1>1, <1>2
    <2>2. (address - TextBegin) % Wrap = address - TextBegin
      BY <1>1, <2>1, SmallMod
    <2> QED
      BY <1>3, <2>2, Zenon DEF Lookup
  <1>5. Looked'
    BY <1>2, <1>4 DEF Looked, Lookup, g_symbol_relative_addresses, g_symbol_base
  <1>6. /\ count' \in Nat \ {0} /\ count' = Len(symbols')
        /\ key' \in Nat
        /\ table' \in [0 .. (count' - 1) -> Nat]
        /\ Sorted'
    <2>1. (symbols \in SymbolTables /\ address \in Nat)'
      BY <1>2
    <2>2. LookedWell'
      BY <1>5, <2>1, LookedFacts, PTL
    <2> QED
      BY <2>2 DEF LookedWell
  <1>7. TypeOK'
    BY <1>2, <1>6 DEF TypeOK
  <1>8. Bracketed' /\ FindsLast'
    BY <1>2, <1>6 DEF Bracketed, FindsLast
  <1> QED
    BY <1>2, <1>5, <1>6, <1>7, <1>8 DEF LookupInv, Inv

\* The search leaves everything else alone.
LEMMA SearchKeepsInv == LookupInv /\ SearchStep => LookupInv'
  <1> SUFFICES ASSUME LookupInv, SearchStep PROVE LookupInv'
    OBVIOUS
  <1>1. /\ pc = "search" /\ pc' \in {"search", "found"}
        /\ table' = table /\ count' = count /\ key' = key
    BY DEF SearchStep, Search, GoRight, GoLeft, Found
  <1>2. /\ symbols' = symbols /\ address' = address /\ ret' = ret
        /\ out_name_buf' = out_name_buf
    BY DEF SearchStep, lookupVars
  <1>3. Looked /\ Inv
    BY <1>1 DEF LookupInv
  <1>4. Inv'
    BY <1>3, StepInv DEF SearchStep
  <1>5. Looked'
    BY <1>1, <1>2, <1>3, Zenon DEF Looked, g_symbol_relative_addresses, g_symbol_base
  <1> QED
    BY <1>1, <1>2, <1>4, <1>5 DEF LookupInv

\* A block of names begins at the name of its first symbol.
LEMMA BlockBegins ==
    ASSUME NEW b \in Nat
    PROVE  /\ b % Block \in 0 .. b
           /\ g_symbol_name_offsets(b \div Block) = Start(b - (b % Block))
  <1>1. Block \in Nat \ {0}
    BY SymbolTablesAssumption
  <1> DEFINE r == b % Block
             q == b \div Block
  <1>2. q \in Nat /\ r \in 0 .. Block - 1 /\ b = (Block * q) + r
    BY <1>1, SplitLength, Zenon
  <1> HIDE DEF q, r
  <1>3. Block * q \in Nat /\ q * Block = Block * q
    BY <1>1, <1>2
  <1>4. q * Block = b - r /\ r \in 0 .. b
    BY <1>2, <1>3
  <1>5. g_symbol_name_offsets(q) = Start(q * Block)
    BY Zenon DEF g_symbol_name_offsets, Start, Names
  <1> QED
    BY <1>4, <1>5, Zenon DEF q, r

\* The cursor starts at a block, index names ahead of the one that is wanted.
LEMMA TakeKeepsInv == LookupInv /\ TakeSymbol => LookupInv'
  <1> SUFFICES ASSUME LookupInv, TakeSymbol PROVE LookupInv'
    OBVIOUS
  <1>1. /\ pc = "found" /\ pc' = "skip" /\ ret' = ret /\ ret = "EOK"
        /\ table' = table /\ count' = count /\ key' = key /\ begin' = begin
        /\ symbols' = symbols /\ address' = address /\ out_name_buf' = out_name_buf
        /\ out_name_buf = <<>>
        /\ symbols \in SymbolTables /\ address \in Nat /\ Looked /\ Inv
    BY DEF TakeSymbol, LookupInv
  <1>2. IsLastAtOrBelow(table, count, key, begin)
    BY <1>1 DEF Inv, FindsLast
  <1>3. begin \in Nat /\ table[begin] \in Nat /\ table[begin] <= key
    BY <1>1, <1>2, LocatedFacts, Zenon
  <1>4. out_offset_within' = key - table[begin]
    <2>1. Wrap \in Nat /\ key \in Nat /\ key < Wrap
      BY <1>1, LookedFacts, SymbolTablesAssumption DEF LookedWell
    <2>2. key - table[begin] \in Nat /\ key - table[begin] < Wrap
      BY <1>3, <2>1
    <2>3. (key - table[begin]) % Wrap = key - table[begin]
      BY <2>1, <2>2, SmallMod, Zenon
    <2> QED
      BY <2>3, Zenon DEF TakeSymbol
  <1>5. Looked'
    BY <1>1, Zenon DEF Looked, g_symbol_relative_addresses, g_symbol_base
  <1>6. Located'
    BY <1>1, <1>2, <1>4, <1>5, Zenon DEF Located, IsLastAtOrBelow
  <1>7. index' \in 0 .. begin' /\ cursor' = Start(begin - index)'
    <2>1. index' = begin % Block /\ cursor' = g_symbol_name_offsets(begin \div Block)
      BY DEF TakeSymbol
    <2>2. index' \in 0 .. begin /\ cursor' = Start(begin - index')
      BY <1>3, <2>1, BlockBegins, Zenon
    <2>3. Start(begin - index)' = Start(begin - index')
      BY <1>1, Zenon DEF Start, Names
    <2> QED
      BY <1>1, <2>2, <2>3, Zenon
  <1>8. Skipping'
    BY <1>1, <1>7, Zenon DEF Skipping
  <1> QED
    BY <1>1, <1>6, <1>8 DEF LookupInv

\* A name is skipped whole.
LEMMA SkipKeepsInv == LookupInv /\ SkipName => LookupInv'
  <1> SUFFICES ASSUME LookupInv, SkipName PROVE LookupInv'
    OBVIOUS
  <1>1. /\ pc = "skip" /\ pc' = pc /\ ret' = ret
        /\ table' = table /\ count' = count /\ key' = key /\ begin' = begin
        /\ symbols' = symbols /\ address' = address /\ out_name_buf' = out_name_buf
        /\ out_offset_within' = out_offset_within
        /\ index > 0 /\ index' = index - 1
        /\ symbols \in SymbolTables /\ address \in Nat /\ Located /\ Skipping
    BY DEF SkipName, LookupInv, searchVars
  <1>2. begin \in Nat /\ begin + 1 \in 1 .. Len(symbols) /\ Len(symbols) \in Nat
    BY <1>1, LocatedFacts, SymbolFacts DEF Located
  <1>3. Located'
    BY <1>1, Zenon DEF Located, Looked, IsLastAtOrBelow, g_symbol_relative_addresses,
                       g_symbol_base
  <1> DEFINE k == begin - index + 1
             l == get_compressed_symbol_length(cursor)
  <1>4. /\ k \in 1 .. Len(symbols) /\ k - 1 = begin - index /\ k = begin - index'
        /\ index' \in 0 .. begin
    BY <1>1, <1>2 DEF Skipping
  <1> HIDE DEF k
  <1>5. Start(k) = l.next + l.len
    <2>1. NameIsRead(symbols[k].tokens, Start(k - 1), Start(k))
      BY <1>1, <1>4, LengthAt, Zenon
    <2>2. cursor = Start(k - 1)
      BY <1>1, <1>4, Zenon DEF Skipping
    <2> QED
      BY <2>1, <2>2, Zenon DEF NameIsRead
  <1>6. cursor' = Start(begin - index')
    BY <1>4, <1>5, Zenon DEF SkipName
  <1>7. Start(begin - index)' = Start(begin - index')
    BY <1>1, Zenon DEF Start, Names
  <1>8. Skipping'
    BY <1>1, <1>4, <1>6, <1>7, Zenon DEF Skipping
  <1> QED
    BY <1>1, <1>3, <1>8 DEF LookupInv

\* The name that was found, at the tokens.
LEMMA NameFound ==
    ASSUME LookupInv, Located
    PROVE  /\ begin \in Nat /\ begin + 1 \in 1 .. Len(symbols)
           /\ toks \in Seq(DOMAIN TokenText) /\ Len(toks) \in Nat
           /\ LET l == get_compressed_symbol_length(Start(begin))
              IN  l.len = Len(toks) /\ l.next = Start(begin) + Header(toks)
           /\ Start(begin) + Header(toks) \in Nat
           /\ \A i \in 1 .. Len(toks) :
                 Byte(Start(begin) + Header(toks) + i - 1) = toks[i]
  <1>1. begin \in Nat /\ begin + 1 \in 1 .. Len(symbols) /\ symbols \in SymbolTables
    BY LocatedFacts DEF Located, LookupInv
  <1>3. toks \in Seq(DOMAIN TokenText)
    BY <1>1, SymbolFacts, Zenon DEF toks
  <1>4. Len(toks) \in Nat
    BY <1>3
  <1> DEFINE k == begin + 1
  <1>5. k \in 1 .. Len(symbols) /\ k - 1 = begin /\ toks = symbols[k].tokens
    <2>1. k - 1 = begin
      BY <1>1
    <2> QED
      BY <1>1, <2>1, Zenon DEF toks
  <1> HIDE DEF k
  <1>6. NameIsRead(toks, Start(begin), Start(k))
    <2>1. NameIsRead(symbols[k].tokens, Start(k - 1), Start(k))
      BY <1>1, <1>5, LengthAt, Zenon
    <2> QED
      BY <1>5, <2>1, Zenon
  <1> QED
    BY <1>1, <1>3, <1>4, <1>6, Zenon DEF NameIsRead

\* The length is that of the name that is wanted.
LEMMA ReadKeepsInv == LookupInv /\ ReadLength => LookupInv'
  <1> SUFFICES ASSUME LookupInv, ReadLength PROVE LookupInv'
    OBVIOUS
  <1>1. /\ pc = "skip" /\ pc' = "expand" /\ ret' = ret /\ ret = "EOK"
        /\ table' = table /\ count' = count /\ key' = key /\ begin' = begin
        /\ symbols' = symbols /\ address' = address /\ out_name_buf' = out_name_buf
        /\ out_offset_within' = out_offset_within /\ index = 0
        /\ symbols \in SymbolTables /\ address \in Nat /\ Located /\ Skipping
    BY DEF ReadLength, LookupInv
  <1>2. Located'
    BY <1>1, Zenon DEF Located, Looked, IsLastAtOrBelow, g_symbol_relative_addresses,
                       g_symbol_base
  <1>3. /\ begin \in Nat
        /\ toks \in Seq(DOMAIN TokenText) /\ Len(toks) \in Nat
        /\ LET l == get_compressed_symbol_length(Start(begin))
           IN  l.len = Len(toks) /\ l.next = Start(begin) + Header(toks)
        /\ Start(begin) + Header(toks) \in Nat
    BY <1>1, NameFound, Zenon
  <1> DEFINE l == get_compressed_symbol_length(cursor)
  <1>4. l.len = Len(toks) /\ l.next = Start(begin) + Header(toks)
    <2>1. cursor = Start(begin)
      <3>1. begin - index = begin
        BY <1>1, <1>3
      <3> QED
        BY <1>1, <3>1, Zenon DEF Skipping
    <2> QED
      BY <1>3, <2>1, Zenon
  <1>5. len' = Len(toks) /\ cursor' = Start(begin) + Header(toks)
    BY <1>4, Zenon DEF ReadLength
  <1>6. toks' = toks /\ Start(begin)' = Start(begin)
    BY <1>1, Zenon DEF toks, Start, Names
  <1>7. /\ len' \in 0 .. Len(toks)
        /\ cursor' = Start(begin) + Header(toks) + (Len(toks) - len')
        /\ Len(toks) - len' = 0
    BY <1>3, <1>5
  <1>8. out_name_buf' = Said(toks, Len(toks) - len')
    BY <1>1, <1>3, <1>7, SaidFacts, Zenon DEF Skipping
  <1>9. Expanding'
    BY <1>6, <1>7, <1>8, Zenon DEF Expanding, Header, Said
  <1> QED
    BY <1>1, <1>2, <1>9 DEF LookupInv

\* A token adds its text.
LEMMA ExpandKeepsInv == LookupInv /\ ExpandToken => LookupInv'
  <1> SUFFICES ASSUME LookupInv, ExpandToken PROVE LookupInv'
    OBVIOUS
  <1>1. /\ pc = "expand" /\ pc' = pc /\ ret' = ret /\ ret = "EOK"
        /\ table' = table /\ count' = count /\ key' = key /\ begin' = begin
        /\ symbols' = symbols /\ address' = address
        /\ out_offset_within' = out_offset_within
        /\ len > 0 /\ len' = len - 1 /\ cursor' = cursor + 1
        /\ symbols \in SymbolTables /\ address \in Nat /\ Located /\ Expanding
    BY DEF ExpandToken, LookupInv, searchVars
  <1>2. Located'
    BY <1>1, Zenon DEF Located, Looked, IsLastAtOrBelow, g_symbol_relative_addresses,
                       g_symbol_base
  <1>3. /\ toks \in Seq(DOMAIN TokenText) /\ Len(toks) \in Nat
        /\ Start(begin) + Header(toks) \in Nat
        /\ \A i \in 1 .. Len(toks) :
              Byte(Start(begin) + Header(toks) + i - 1) = toks[i]
    BY <1>1, NameFound, Zenon
  <1> DEFINE n == Len(toks)
             s == Start(begin) + Header(toks)
             k == n - len + 1
  <1>4. s \in Nat /\ \A i \in 1 .. n : Byte(s + i - 1) = toks[i]
    BY <1>3, Zenon
  <1>5. len \in 0 .. n /\ cursor = s + (n - len)
    BY <1>1, Zenon DEF Expanding
  <1>6. toks' = toks /\ Start(begin)' = Start(begin)
    BY <1>1, Zenon DEF toks, Start, Names
  <1> HIDE DEF s
  <1>7. /\ k \in 1 .. n /\ k - 1 = n - len /\ k = n - len'
        /\ cursor = s + k - 1 /\ cursor' = s + (n - len') /\ len' \in 0 .. n
    BY <1>1, <1>3, <1>4, <1>5
  <1> HIDE DEF k
  <1>8. Byte(cursor) = toks[k]
    BY <1>4, <1>7, Zenon
  <1>9. out_name_buf' = Said(toks, n - len')
    <2>1. SaysOneMore(toks, k)
      BY <1>3, <1>7, SaidFacts, Zenon
    <2>2. out_name_buf = Said(toks, k - 1)
      BY <1>1, <1>7, Zenon DEF Expanding
    <2>3. out_name_buf' = out_name_buf \o TokenText[toks[k]]
      BY <1>8, Zenon DEF ExpandToken
    <2> QED
      BY <1>7, <2>1, <2>2, <2>3, Zenon DEF SaysOneMore
  <1>10. Expanding'
    BY <1>6, <1>7, <1>9, Zenon DEF Expanding, Header, Said, s
  <1> QED
    BY <1>1, <1>2, <1>10 DEF LookupInv

\* No token is left.
LEMMA ReturnKeepsInv == LookupInv /\ Return => LookupInv'
  <1> SUFFICES ASSUME LookupInv, Return PROVE LookupInv'
    OBVIOUS
  <1>1. /\ pc = "expand" /\ pc' = "done" /\ len = 0
        /\ table' = table /\ count' = count /\ key' = key /\ begin' = begin
        /\ symbols' = symbols /\ address' = address /\ out_name_buf' = out_name_buf
        /\ out_offset_within' = out_offset_within
        /\ symbols \in SymbolTables /\ address \in Nat /\ Located /\ Expanding
    BY DEF Return, LookupInv, lookupVars
  <1>2. Located'
    BY <1>1, Zenon DEF Located, Looked, IsLastAtOrBelow, g_symbol_relative_addresses,
                       g_symbol_base
  <1>3. toks \in Seq(DOMAIN TokenText) /\ Len(toks) \in Nat
    BY <1>1, NameFound, Zenon
  <1>4. Len(toks) - len = Len(toks)
    BY <1>1, <1>3
  <1>5. out_name_buf = Text(toks)
    BY <1>1, <1>3, <1>4, SaidFacts, Zenon DEF Expanding
  <1>6. out_name_buf' = Text(toks)'
    BY <1>1, <1>5, Zenon DEF toks, Text
  <1> QED
    BY <1>1, <1>2, <1>6 DEF LookupInv

\* Every action keeps the invariant.
LEMMA LookupStepInv == LookupInv /\ [Next]_vars => LookupInv'
  <1> SUFFICES ASSUME LookupInv, [Next]_vars PROVE LookupInv'
    OBVIOUS
  <1>1. CASE Refuse
    BY <1>1 DEF Refuse, LookupInv
  <1>2. CASE Lookup
    BY <1>2, LookupKeepsInv, Zenon
  <1>3. CASE SearchStep
    BY <1>3, SearchKeepsInv, Zenon
  <1>4. CASE TakeSymbol
    BY <1>4, TakeKeepsInv, Zenon
  <1>5. CASE SkipName
    BY <1>5, SkipKeepsInv, Zenon
  <1>6. CASE ReadLength
    BY <1>6, ReadKeepsInv, Zenon
  <1>7. CASE ExpandToken
    BY <1>7, ExpandKeepsInv, Zenon
  <1>8. CASE Return
    BY <1>8, ReturnKeepsInv, Zenon
  <1>9. CASE UNCHANGED vars
    <2>1. /\ pc' = pc /\ ret' = ret /\ symbols' = symbols /\ address' = address
          /\ table' = table /\ count' = count /\ key' = key /\ begin' = begin
          /\ end' = end /\ cursor' = cursor /\ index' = index /\ len' = len
          /\ out_name_buf' = out_name_buf /\ out_offset_within' = out_offset_within
      BY <1>9 DEF vars, searchVars, lookupVars
    <2>2. Inv => Inv'
      BY <1>9, StepInv DEF vars
    <2>3. Looked => Looked'
      BY <2>1, Zenon DEF Looked, g_symbol_relative_addresses, g_symbol_base
    <2>4. Located => Located'
      BY <2>1, <2>3, Zenon DEF Located, IsLastAtOrBelow
    <2>5. Skipping => Skipping'
      BY <2>1, Zenon DEF Skipping, Start, Names
    <2>6. toks' = toks /\ Text(toks)' = Text(toks)
      BY <2>1, Zenon DEF toks, Text
    <2>7. Expanding => Expanding'
      BY <2>1, Zenon DEF Expanding, Header, Said, Start, Names, toks
    <2> QED
      BY <2>1, <2>2, <2>3, <2>4, <2>5, <2>6, <2>7 DEF LookupInv
  <1> QED
    BY <1>1, <1>2, <1>3, <1>4, <1>5, <1>6, <1>7, <1>8, <1>9 DEF Next

\* ... which therefore always holds.
LEMMA LookupInvIsInvariant == LookupSpec => []LookupInv
  BY LookupInitInv, LookupStepInv, PTL DEF LookupSpec

(***************************************************************************)
(* A lookup that succeeds gives the name of the function that the address  *)
(* is in, and how far in it is: for every table that the generator writes, *)
(* every size of a block and every address.                                *)
(***************************************************************************)
THEOREM LookupNamesTheFunction == LookupSpec => []NamesTheFunction
  <1>1. LookupInv => NamesTheFunction
    <2> SUFFICES ASSUME LookupInv, pc = "done", ret = "EOK"
                 PROVE  \E i \in Candidates :
                            /\ out_name_buf = Text(symbols[i].tokens)
                            /\ out_offset_within = address - symbols[i].addr
      BY Zenon DEF NamesTheFunction
    <2>1. /\ symbols \in SymbolTables /\ address \in Nat /\ Located
          /\ out_name_buf = Text(toks)
      BY DEF LookupInv
    <2>2. /\ begin \in Nat /\ begin + 1 \in 1 .. Len(symbols)
          /\ table[begin] \in Nat /\ table[begin] <= key
      BY <2>1, LocatedFacts, Zenon DEF Located
    <2>3. /\ key = address - TextBegin /\ TextBegin \in Nat /\ count = Len(symbols)
          /\ Len(symbols) \in Nat /\ DOMAIN symbols = 1 .. Len(symbols)
          /\ out_offset_within = key - table[begin]
          /\ \A j \in 0 .. (count - 1) : j > begin => table[j] > key
      BY <2>1, SymbolFacts, SymbolTablesAssumption DEF Located, Looked, IsLastAtOrBelow
    <2>4. /\ \A i \in 1 .. Len(symbols) :
                /\ i - 1 \in 0 .. (count - 1)
                /\ table[i - 1] = symbols[i].addr - TextBegin
                /\ symbols[i].addr \in Nat
          /\ \A i, j \in 1 .. Len(symbols) : i <= j => symbols[i].addr <= symbols[j].addr
      BY <2>1, <2>3, LookedFacts, SymbolFacts, Zenon DEF LookedWell, Located
    <2> DEFINE i == begin + 1
    <2>5. /\ i \in 1 .. Len(symbols) /\ symbols[i].addr \in Nat
          /\ table[begin] = symbols[i].addr - TextBegin
      <3>1. begin + 1 - 1 = begin
        BY <2>2
      <3> QED
        <4>1. /\ table[begin + 1 - 1] = symbols[begin + 1].addr - TextBegin
              /\ symbols[begin + 1].addr \in Nat
          BY <2>2, <2>4, SMTT(30)
        <4> QED
          BY <2>2, <3>1, <4>1, Zenon
    <2>6. symbols[i].addr <= address /\ out_offset_within = address - symbols[i].addr
      BY <2>1, <2>2, <2>3, <2>5
    <2>7. ASSUME NEW j \in DOMAIN symbols, symbols[j].addr <= address
          PROVE  symbols[j].addr <= symbols[i].addr
      <3>1. /\ j \in 1 .. Len(symbols) /\ j - 1 \in 0 .. (count - 1)
            /\ table[j - 1] = symbols[j].addr - TextBegin /\ symbols[j].addr \in Nat
        BY <2>3, <2>4, Zenon
      <3>2. ~(table[j - 1] > key)
        BY <2>1, <2>3, <2>7, <3>1
      <3>3. ~(j - 1 > begin)
        BY <2>3, <3>1, <3>2, Zenon
      <3>4. j <= i
        BY <2>2, <3>1, <3>3
      <3> QED
        BY <2>4, <2>5, <3>1, <3>4, Zenon
    <2>8. i \in Candidates
      BY <2>3, <2>5, <2>6, <2>7, Zenon DEF Candidates
    <2>9. out_name_buf = Text(symbols[i].tokens)
      BY <2>1, Zenon DEF toks
    <2> QED
      BY <2>6, <2>8, <2>9, Zenon
  <1> QED
    BY <1>1, LookupInvIsInvariant, PTL

(***************************************************************************)
(* The search of the lookup ends at the last function that is not above    *)
(* the address.                                                            *)
(***************************************************************************)
THEOREM LookupFindsLast == LookupSpec => []FindsLast
  <1>1. LookupInv => FindsLast
    BY DEF LookupInv, Inv, FindsLast
  <1> QED
    BY <1>1, LookupInvIsInvariant, PTL
=============================================================================
