--------------------------- MODULE FindRangeProofs ---------------------------
(***************************************************************************)
(* The binary search of find_range is correct for every ordered map and    *)
(* every address.                                                          *)
(***************************************************************************)
EXTENDS FindRange, TLAPS

\* What being a memory map says of each entry.
LEMMA MapFacts ==
    ASSUME NEW m, IsMemoryMap(m)
    PROVE  /\ Len(m) \in Nat
           /\ DOMAIN m = 1 .. Len(m)
           /\ \A i \in 1 .. Len(m) :
                /\ m[i].physical_address \in Nat
                /\ mr_end(m[i]) \in Nat
                /\ m[i].physical_address <= mr_end(m[i])
           /\ \A i, j \in 1 .. Len(m) :
                i < j => mr_end(m[i]) <= m[j].physical_address
  <1>1. m \in Seq(Ranges)
    BY DEF IsMemoryMap
  <1>2. Len(m) \in Nat /\ DOMAIN m = 1 .. Len(m)
    BY <1>1
  <1>3. \A i \in 1 .. Len(m) : m[i] \in Ranges
    BY <1>1
  <1>4. \A i \in 1 .. Len(m) :
          m[i].physical_address \in Nat /\ m[i].size \in Nat
    BY <1>3 DEF Ranges
  <1>5. \A i \in 1 .. Len(m) :
          /\ mr_end(m[i]) \in Nat
          /\ m[i].physical_address <= mr_end(m[i])
    BY <1>4 DEF mr_end
  <1>6. \A i, j \in 1 .. Len(m) :
          i < j => mr_end(m[i]) <= m[j].physical_address
    BY <1>2 DEF IsMemoryMap, Ordered
  <1> QED
    BY <1>2, <1>4, <1>5, <1>6

Inv == TypeOK /\ Bracketed /\ FindsRange

\* The middle of an interval that is not empty lies in it.
LEMMA MiddleInside ==
    ASSUME left \in Nat, right \in Nat, left <= right
    PROVE  middle \in Nat /\ left <= middle /\ middle <= right
  BY DEF middle

(***************************************************************************)
(* What find_range may return, by what the map has: a range that starts at *)
(* v, else one that covers v, else the first one above v, else none.       *)
(***************************************************************************)
StartsNowhere(m, v) == \A k \in 1 .. Len(m) : m[k].physical_address # v

LEMMA RangeAt ==
    ASSUME NEW m, IsMemoryMap(m), NEW v \in Nat, NEW allow \in BOOLEAN,
           NEW i \in 1 .. Len(m), m[i].physical_address = v
    PROVE  i \in find_range(m, v, allow)
  <1>1. i \in StartingAt(m, v)
    BY MapFacts DEF StartingAt
  <1> QED
    BY <1>1 DEF find_range

LEMMA CoveringRange ==
    ASSUME NEW m, IsMemoryMap(m), NEW v \in Nat, NEW allow \in BOOLEAN,
           StartsNowhere(m, v), NEW i \in 1 .. Len(m), Covers(m[i], v)
    PROVE  i \in find_range(m, v, allow)
  <1>1. StartingAt(m, v) = {}
    BY MapFacts DEF StartingAt, StartsNowhere
  <1>2. i \in Covering(m, v)
    BY MapFacts DEF Covering
  <1> QED
    BY <1>1, <1>2 DEF find_range

LEMMA RangeAbove ==
    ASSUME NEW m, IsMemoryMap(m), NEW v \in Nat,
           StartsNowhere(m, v), \A k \in 1 .. Len(m) : ~Covers(m[k], v),
           NEW i \in 1 .. Len(m), FirstAbove(m, v, i)
    PROVE  i \in find_range(m, v, TRUE)
  <1>1. StartingAt(m, v) = {} /\ Covering(m, v) = {}
    BY MapFacts DEF StartingAt, StartsNowhere, Covering
  <1>2. i \in FirstsAbove(m, v)
    BY MapFacts DEF FirstsAbove
  <1> QED
    BY <1>1, <1>2 DEF find_range

LEMMA NoRange ==
    ASSUME NEW m, IsMemoryMap(m), NEW v \in Nat, NEW allow \in BOOLEAN,
           StartsNowhere(m, v), \A k \in 1 .. Len(m) : ~Covers(m[k], v),
           allow => \A k \in 1 .. Len(m) : ~FirstAbove(m, v, k)
    PROVE  0 \in find_range(m, v, allow)
  <1>1. StartingAt(m, v) = {} /\ Covering(m, v) = {}
    BY MapFacts DEF StartingAt, StartsNowhere, Covering
  <1>2. allow => FirstsAbove(m, v) = {}
    BY MapFacts DEF FirstsAbove
  <1> QED
    BY <1>1, <1>2 DEF find_range

-----------------------------------------------------------------------------
LEMMA InitInv == Init => Inv
  <1> SUFFICES ASSUME Init PROVE Inv
    OBVIOUS
  <1>1. IsMemoryMap(map) /\ value \in Nat
    BY MapsAssumption, ValuesAssumption DEF Init
  <1>2. Len(map) \in Nat
    BY <1>1, MapFacts
  <1> QED
    BY <1>1, <1>2 DEF Init, Inv, TypeOK, Bracketed, FindsRange

LEMMA NextInv == Inv /\ [Next]_vars => Inv'
  <1> SUFFICES ASSUME Inv, [Next]_vars PROVE Inv'
    OBVIOUS
  <1>1. IsMemoryMap(map) /\ value \in Nat
    BY ValuesAssumption DEF Inv, TypeOK
  <1>2. /\ Len(map) \in Nat
        /\ \A i \in 1 .. Len(map) :
             /\ map[i].physical_address \in Nat
             /\ mr_end(map[i]) \in Nat
             /\ map[i].physical_address <= mr_end(map[i])
        /\ \A i, j \in 1 .. Len(map) :
             i < j => mr_end(map[i]) <= map[j].physical_address
    BY <1>1, MapFacts
  <1>3. left \in Nat /\ right \in Nat
    BY <1>2 DEF Inv, TypeOK
  <1>4. left <= right => middle \in Nat /\ left <= middle /\ middle <= right
    BY <1>3, MiddleInside
  <1>5. CASE GoRight
    <2>1. middle \in 1 .. Len(map)
      BY <1>2, <1>4, <1>5 DEF Inv, TypeOK, Bracketed, GoRight
    <2>2. TypeOK'
      BY <1>2, <1>5, <2>1 DEF Inv, TypeOK, GoRight, args
    <2>3. \A i \in 1 .. middle : map[i].physical_address < value
      BY <1>1, <1>2, <1>5, <2>1, SMTT(30) DEF GoRight
    <2>4. left' - 1 = middle /\ middle + 1 <= right + 1 /\ 1 <= middle + 1
      BY <1>3, <1>4, <1>5, <2>1 DEF GoRight
    <2>5. Bracketed'
      BY <1>5, <2>3, <2>4 DEF Inv, Bracketed, GoRight, args
    <2> QED
      BY <1>5, <2>2, <2>5 DEF Inv, FindsRange, GoRight, args
  <1>6. CASE GoLeft
    <2>1. middle \in 1 .. Len(map)
      BY <1>2, <1>4, <1>6 DEF Inv, TypeOK, Bracketed, GoLeft
    <2>2. TypeOK'
      BY <1>2, <1>6, <2>1 DEF Inv, TypeOK, GoLeft, args
    <2>3. \A i \in middle .. Len(map) : value < map[i].physical_address
      BY <1>1, <1>2, <1>6, <2>1, SMTT(30) DEF GoLeft
    <2>4. Bracketed'
      BY <1>2, <1>4, <1>6, <2>1, <2>3 DEF Inv, Bracketed, GoLeft, args
    <2> QED
      BY <1>6, <2>2, <2>4 DEF Inv, FindsRange, GoLeft, args
  <1>7. CASE Hit
    <2>1. middle \in 1 .. Len(map)
      BY <1>2, <1>4, <1>7 DEF Inv, TypeOK, Bracketed, Hit
    <2>2. map[middle].physical_address = value
      BY <1>7 DEF Hit
    <2>3. middle \in find_range(map, value, allow_above)
      BY <1>1, <2>1, <2>2, RangeAt DEF Inv, TypeOK
    <2> QED
      BY <1>7, <2>1, <2>3 DEF Inv, TypeOK, Bracketed, FindsRange, Hit, args
  <1>8. CASE ReturnBelow
    <2>1. right \in 1 .. Len(map)
      BY <1>2, <1>8 DEF Inv, TypeOK, ReturnBelow
    <2>2. Covers(map[right], value)
      BY <1>1, <1>2, <1>8, <2>1 DEF ReturnBelow, Covers
    <2>3. StartsNowhere(map, value)
      <3> SUFFICES ASSUME NEW k \in 1 .. Len(map) PROVE map[k].physical_address # value
        BY DEF StartsNowhere
      <3>1. map[k].physical_address \in Nat
        BY <1>2
      <3>2. k \in 1 .. (left - 1) \/ k \in (right + 1) .. Len(map)
        BY <1>2, <1>3, <1>8 DEF ReturnBelow
      <3> QED
        BY <1>1, <1>8, <3>1, <3>2 DEF Inv, Bracketed, ReturnBelow
    <2>4. right \in find_range(map, value, allow_above)
      BY <1>1, <2>1, <2>2, <2>3, CoveringRange DEF Inv, TypeOK
    <2> QED
      BY <1>8, <2>1, <2>4 DEF Inv, TypeOK, Bracketed, FindsRange, ReturnBelow, args
  <1>9. CASE ReturnAbove
    <2>1. left = right + 1
      BY <1>3, <1>9 DEF Inv, Bracketed, ReturnAbove
    <2>2. \A k \in 1 .. Len(map) : ~Covers(map[k], value)
      <3> SUFFICES ASSUME NEW k \in 1 .. Len(map), Covers(map[k], value)
                   PROVE  FALSE
        OBVIOUS
      <3>1. k <= right
        BY <1>1, <1>2, <1>3, <1>9 DEF Inv, Bracketed, ReturnAbove, Covers
      <3>2. k # right
        BY <1>1, <1>2, <1>3, <1>9, <2>1, <3>1
           DEF Inv, TypeOK, Bracketed, ReturnAbove, Covers
      <3>3. right \in 1 .. Len(map) /\ map[right].physical_address < value
        BY <1>2, <1>3, <1>9, <2>1, <3>1 DEF Inv, TypeOK, Bracketed, ReturnAbove
      <3>4. mr_end(map[k]) <= map[right].physical_address
        BY <1>2, <1>3, <3>1, <3>2, <3>3
      <3> QED
        BY <1>1, <1>2, <3>3, <3>4 DEF Covers
    <2>3. StartsNowhere(map, value)
      <3> SUFFICES ASSUME NEW k \in 1 .. Len(map) PROVE map[k].physical_address # value
        BY DEF StartsNowhere
      <3>1. map[k].physical_address \in Nat
        BY <1>2
      <3>2. k \in 1 .. (left - 1) \/ k \in (right + 1) .. Len(map)
        BY <1>2, <1>3, <2>1
      <3> QED
        BY <1>1, <1>9, <3>1, <3>2 DEF Inv, Bracketed, ReturnAbove
    <2>4. CASE left = Len(map) + 1
      <3>1. \A k \in 1 .. Len(map) : ~FirstAbove(map, value, k)
        BY <1>1, <1>2, <1>9, <2>4 DEF Inv, Bracketed, ReturnAbove, FirstAbove
      <3>2. 0 \in find_range(map, value, allow_above)
        BY <1>1, <2>2, <2>3, <3>1, NoRange DEF Inv, TypeOK
      <3>3. result' = 0 /\ left' = 0
        BY <1>9, <2>4 DEF ReturnAbove
      <3> QED
        BY <1>2, <1>9, <3>2, <3>3
           DEF Inv, TypeOK, Bracketed, FindsRange, ReturnAbove, args
    <2>5. CASE left # Len(map) + 1
      <3>1. left \in 1 .. Len(map)
        BY <1>2, <1>9, <2>5 DEF Inv, TypeOK, Bracketed, ReturnAbove
      <3>2. FirstAbove(map, value, left)
        BY <1>1, <1>2, <1>3, <1>9, <2>1, <3>1
           DEF Inv, Bracketed, ReturnAbove, FirstAbove
      <3>3. CASE allow_above
        <4>1. left \in find_range(map, value, TRUE)
          BY <1>1, <2>2, <2>3, <3>1, <3>2, RangeAbove
        <4>2. left' = left /\ result' = left /\ allow_above = TRUE
          BY <1>9, <2>5, <3>3 DEF ReturnAbove, Inv, TypeOK
        <4>3. FindsRange'
          BY <1>9, <4>1, <4>2 DEF FindsRange, ReturnAbove, args
        <4> QED
          BY <1>2, <1>9, <3>1, <4>2, <4>3
             DEF Inv, TypeOK, Bracketed, ReturnAbove, args
      <3>4. CASE ~allow_above
        <4>1. 0 \in find_range(map, value, allow_above)
          BY <1>1, <2>2, <2>3, <3>4, NoRange DEF Inv, TypeOK
        <4>2. left' = left /\ result' = 0
          BY <1>9, <2>5, <3>4 DEF ReturnAbove
        <4> QED
          BY <1>2, <1>9, <3>1, <4>1, <4>2
             DEF Inv, TypeOK, Bracketed, FindsRange, ReturnAbove, args
      <3> QED
        BY <3>3, <3>4
    <2> QED
      BY <2>4, <2>5
  <1>10. CASE UNCHANGED vars
    BY <1>10 DEF Inv, TypeOK, Bracketed, FindsRange, vars
  <1> QED
    BY <1>5, <1>6, <1>7, <1>8, <1>9, <1>10 DEF Next

(***************************************************************************)
(* The loop of find_range keeps its bracket and returns what operator      *)
(* find_range says, whatever the map and the address.                      *)
(***************************************************************************)
THEOREM SearchIsCorrect == Spec => [](TypeOK /\ Bracketed /\ FindsRange)
  <1>1. Inv => TypeOK /\ Bracketed /\ FindsRange
    BY DEF Inv
  <1> QED
    BY InitInv, NextInv, <1>1, PTL DEF Spec

\* Every iteration shortens the open interval, so the loop cannot run forever.
THEOREM SearchShrinks == Spec => Shrinks
  <1>1. Inv /\ [Next]_vars =>
          [pc' = "search" => /\ right' - left' < right - left
                             /\ left <= left' /\ right' <= right]_vars
    <2> SUFFICES ASSUME Inv, Next, pc' = "search"
                 PROVE  /\ right' - left' < right - left
                        /\ left <= left' /\ right' <= right
      OBVIOUS
    <2>1. IsMemoryMap(map)
      BY DEF Inv, TypeOK
    <2>2. left \in Nat /\ right \in Nat
      BY <2>1, MapFacts DEF Inv, TypeOK
    <2>3. left <= right => middle \in Nat /\ left <= middle /\ middle <= right
      BY <2>2, MiddleInside
    <2>4. GoRight \/ GoLeft
      BY DEF Next, Hit, ReturnBelow, ReturnAbove
    <2> QED
      BY <2>2, <2>3, <2>4 DEF GoRight, GoLeft
  <1> QED
    BY InitInv, NextInv, <1>1, PTL DEF Spec, Shrinks
=============================================================================
