--------------------------- MODULE BootAllocProofs ---------------------------
(***************************************************************************)
(* The boot allocator, whatever the loader's memory map, the size of a     *)
(* page and the requests of the callers: the map stays well formed and the *)
(* buffer has room for every call; memory is never fragmented in the map,  *)
(* allocated memory has one owner, a panic is the caller's doing, and      *)
(* every step is one of PageAllocator.                                     *)
(***************************************************************************)
EXTENDS BootAlloc, SequenceTheorems, WellFoundedInduction, TLAPS

-----------------------------------------------------------------------------
(***************************************************************************)
(* Splitting and merging keeps a memory map a memory map.                  *)
(***************************************************************************)
\* All ranges of the map end at or below address b.
Below(map, b) == \A i \in DOMAIN map : mr_end(map[i]) <= b

\* All ranges of the map start at or above address b.
Above(map, b) == \A i \in DOMAIN map : b <= map[i].physical_address

\* A set of indices that is not empty has a highest one.
LEMMA HighestIndex ==
    ASSUME NEW n \in Nat, NEW T, T \subseteq 1 .. n, T # {}
    PROVE  \E x \in T : \A y \in T : y <= x
  <1> DEFINE lt == OpToRel(<, Nat)
             U  == {n - x : x \in T}
  <1>0. \A x \in T : x \in Nat /\ n - x \in Nat /\ n - x \in U
    <2> SUFFICES ASSUME NEW x \in T PROVE x \in Nat /\ n - x \in Nat
      OBVIOUS
    <2>1. x \in 1 .. n
      OBVIOUS
    <2> QED
      BY <2>1
  <1>1. U \subseteq Nat /\ U # {}
    BY <1>0
  <1>2. PICK u \in U : \A v \in U : ~(<<v, u>> \in lt)
    BY <1>1, WFMin, NatLessThanWellFounded
  <1>3. PICK x \in T : u = n - x
    OBVIOUS
  <1>4. ASSUME NEW y \in T PROVE y <= x
    <2>1. n - y \in Nat /\ n - x \in Nat /\ y \in Nat /\ x \in Nat
      BY <1>0
    <2>2. ~(<<n - y, n - x>> \in lt)
      BY <1>0, <1>2, <1>3
    <2>3. ~(n - y < n - x)
      BY <2>1, <2>2 DEF OpToRel
    <2> QED
      BY <2>1, <2>3
  <1> QED
    BY <1>4

\* What being a memory map says of each entry.
LEMMA MapFacts ==
    ASSUME NEW m, IsMemoryMap(m)
    PROVE  /\ Len(m) \in Nat
           /\ DOMAIN m = 1 .. Len(m)
           /\ \A i \in 1 .. Len(m) :
                /\ m[i].physical_address \in Nat
                /\ m[i].size \in Nat
                /\ mr_end(m[i]) = m[i].physical_address + m[i].size
                /\ mr_end(m[i]) \in Nat
           /\ \A i, j \in 1 .. Len(m) :
                i < j => mr_end(m[i]) <= m[j].physical_address
  <1>1. m \in Seq(Ranges)
    BY DEF IsMemoryMap
  <1>2. Len(m) \in Nat /\ DOMAIN m = 1 .. Len(m)
    BY <1>1
  <1>3. \A i \in 1 .. Len(m) : m[i] \in Ranges
    BY <1>1
  <1>4. \A i \in 1 .. Len(m) :
          m[i].physical_address \in Nat /\ m[i].size \in Nat
    BY <1>3 DEF Ranges
  <1>5. \A i \in 1 .. Len(m) :
          /\ mr_end(m[i]) = m[i].physical_address + m[i].size
          /\ mr_end(m[i]) \in Nat
    BY <1>4 DEF mr_end
  <1>6. \A i, j \in 1 .. Len(m) :
          i < j => mr_end(m[i]) <= m[j].physical_address
    BY <1>2 DEF IsMemoryMap, Ordered
  <1> QED
    BY <1>2, <1>4, <1>5, <1>6

\* The same facts as the ordering arguments use them: ends come after starts.
LEMMA OrderFacts ==
    ASSUME NEW m, IsMemoryMap(m)
    PROVE  /\ \A x \in 1 .. Len(m) : /\ m[x].physical_address \in Nat
                                    /\ mr_end(m[x]) \in Nat
                                    /\ m[x].physical_address <= mr_end(m[x])
           /\ \A x, y \in 1 .. Len(m) :
                x < y => mr_end(m[x]) <= m[y].physical_address
  <1>1. \A x \in 1 .. Len(m) : m[x] \in Ranges
    BY DEF IsMemoryMap
  <1>2. \A x \in 1 .. Len(m) : /\ m[x].physical_address \in Nat
                              /\ mr_end(m[x]) \in Nat
                              /\ m[x].physical_address <= mr_end(m[x])
    BY <1>1 DEF Ranges, mr_end
  <1> QED
    BY <1>2, MapFacts, Zenon

\* What a well formed range is.
LEMMA RangeFacts ==
    ASSUME NEW mr \in Ranges
    PROVE  /\ mr.physical_address \in Nat
           /\ mr.size \in Nat /\ (mr.size = 0 => mr.type = MEMORY_FREE)
           /\ mr.type \in {MEMORY_FREE, MEMORY_ALLOCATED}
           /\ mr_end(mr) = mr.physical_address + mr.size
           /\ mr_end(mr) \in Nat
  BY DEF Ranges, mr_end

LEMMA MRFacts ==
    ASSUME NEW a \in Nat, NEW n \in Nat, NEW t \in {MEMORY_FREE, MEMORY_ALLOCATED},
           n > 0 \/ t = MEMORY_FREE
    PROVE  /\ MR(a, n, t) \in Ranges
           /\ MR(a, n, t).physical_address = a
           /\ MR(a, n, t).size = n
           /\ MR(a, n, t).type = t
           /\ mr_end(MR(a, n, t)) = a + n
  BY DEF MR, Ranges, mr_end

(***************************************************************************)
(* Where the entries of Replace(map, lo, hi, new) come from, and where the *)
(* entries that stay and the new ones go.                                  *)
(***************************************************************************)
Placed(map, lo, hi, new, r) ==
    LET cut == hi - lo + 1
        n   == Len(map) - cut + Len(new)
    IN  /\ \A k \in 1 .. n :
              /\ k < lo => k \in 1 .. Len(map) /\ r[k] = map[k]
              /\ k >= lo /\ k < lo + Len(new) =>
                   k - lo + 1 \in 1 .. Len(new) /\ r[k] = new[k - lo + 1]
              /\ k >= lo + Len(new) =>
                   /\ k - Len(new) + cut \in (hi + 1) .. Len(map)
                   /\ k - Len(new) + cut \in 1 .. Len(map)
                   /\ r[k] = map[k - Len(new) + cut]
        /\ \A k \in 1 .. Len(map) :
              /\ k < lo => k \in 1 .. n /\ r[k] = map[k]
              /\ k > hi => /\ k - cut + Len(new) \in 1 .. n
                           /\ r[k - cut + Len(new)] = map[k]
        /\ \A j \in 1 .. Len(new) :
              lo + j - 1 \in 1 .. n /\ r[lo + j - 1] = new[j]

LEMMA ReplaceEntries ==
    ASSUME NEW map, NEW new, Len(map) \in Nat, Len(new) \in Nat,
           NEW lo \in 1 .. Len(map), NEW hi \in 1 .. Len(map), lo <= hi
    PROVE  Placed(map, lo, hi, new, Replace(map, lo, hi, new))
  <1> DEFINE cut == hi - lo + 1
             n   == Len(map) - cut + Len(new)
             r   == Replace(map, lo, hi, new)
  <1>1. n \in Nat /\ cut \in Nat /\ cut >= 1 /\ lo \in Nat /\ hi \in Nat /\ hi < lo + cut
    OBVIOUS
  <1>2. r = [k \in 1 .. n |-> IF k < lo THEN map[k]
                              ELSE IF k < lo + Len(new) THEN new[k - lo + 1]
                              ELSE map[k - Len(new) + cut]]
    BY DEF Replace
  <1> HIDE DEF r
  <1>3. \A k \in 1 .. n : r[k] = IF k < lo THEN map[k]
                                 ELSE IF k < lo + Len(new) THEN new[k - lo + 1]
                                 ELSE map[k - Len(new) + cut]
    BY <1>2, Zenon
  <1>4. ASSUME NEW k \in 1 .. n
        PROVE  /\ k < lo => k \in 1 .. Len(map) /\ r[k] = map[k]
               /\ k >= lo /\ k < lo + Len(new) =>
                    k - lo + 1 \in 1 .. Len(new) /\ r[k] = new[k - lo + 1]
               /\ k >= lo + Len(new) =>
                    /\ k - Len(new) + cut \in (hi + 1) .. Len(map)
                    /\ k - Len(new) + cut \in 1 .. Len(map)
                    /\ r[k] = map[k - Len(new) + cut]
    <2>1. k \in Nat /\ k >= 1 /\ k <= n
      BY <1>1
    <2>2. CASE k < lo
      BY <1>1, <1>3, <2>1, <2>2
    <2>3. CASE k >= lo /\ k < lo + Len(new)
      <3>1. ~(k < lo) /\ k - lo + 1 \in 1 .. Len(new) /\ ~(k >= lo + Len(new))
        BY <1>1, <2>1, <2>3
      <3> QED
        BY <1>3, <2>3, <3>1
    <2>4. CASE k >= lo + Len(new)
      <3>1. /\ ~(k < lo) /\ ~(k < lo + Len(new))
            /\ k - Len(new) + cut \in (hi + 1) .. Len(map)
            /\ k - Len(new) + cut \in 1 .. Len(map)
        BY <1>1, <2>1, <2>4
      <3> QED
        BY <1>3, <2>4, <3>1
    <2> QED
      BY <1>1, <2>1, <2>2, <2>3, <2>4
  <1>5. ASSUME NEW k \in 1 .. Len(map)
        PROVE  /\ k < lo => k \in 1 .. n /\ r[k] = map[k]
               /\ k > hi => /\ k - cut + Len(new) \in 1 .. n
                            /\ r[k - cut + Len(new)] = map[k]
    <2>1. CASE k < lo
      <3>1. k \in 1 .. n /\ ~(k > hi)
        BY <1>1, <2>1
      <3> QED
        BY <1>3, <2>1, <3>1
    <2>2. CASE k > hi
      <3> DEFINE q == k - cut + Len(new)
      <3>1. /\ q \in 1 .. n /\ ~(q < lo) /\ ~(q < lo + Len(new)) /\ ~(k < lo)
            /\ q - Len(new) + cut = k
        BY <1>1, <2>2
      <3> HIDE DEF q
      <3>2. r[q] = map[k]
        BY <1>3, <3>1
      <3> QED
        BY <3>1, <3>2 DEF q
    <2> QED
      BY <1>1, <2>1, <2>2
  <1>6. ASSUME NEW j \in 1 .. Len(new)
        PROVE  lo + j - 1 \in 1 .. n /\ r[lo + j - 1] = new[j]
    <2> DEFINE q == lo + j - 1
    <2>1. /\ q \in 1 .. n /\ ~(q < lo) /\ q < lo + Len(new)
          /\ q - lo + 1 = j
      BY <1>1
    <2> HIDE DEF q
    <2>2. r[q] = new[j]
      BY <1>3, <2>1
    <2> QED
      BY <2>1, <2>2 DEF q
  <1> QED
    BY <1>4, <1>5, <1>6, Zenon DEF r, Placed

\* Two steps up are one.
LEMMA AtMostTrans ==
    \A a, b, c \in Nat : a <= b /\ b <= c => a <= c
  OBVIOUS

(***************************************************************************)
(* Ranges lo .. hi replaced by ordered ranges that stay between the start  *)
(* of lo and the end of hi: the result is a map and reaches no further.    *)
(***************************************************************************)
LEMMA ReplaceFacts ==
    ASSUME NEW map, IsMemoryMap(map),
           NEW lo \in 1 .. Len(map), NEW hi \in 1 .. Len(map), lo <= hi,
           NEW new, IsMemoryMap(new), Len(new) > 0,
           map[lo].physical_address <= new[1].physical_address,
           mr_end(new[Len(new)]) <= mr_end(map[hi])
    PROVE  /\ IsMemoryMap(Replace(map, lo, hi, new))
           /\ Len(Replace(map, lo, hi, new)) = Len(map) - (hi - lo + 1) + Len(new)
           /\ \A b \in Nat : Below(map, b) => Below(Replace(map, lo, hi, new), b)
           /\ \A b \in Nat : Above(map, b) => Above(Replace(map, lo, hi, new), b)
  <1> DEFINE cut == hi - lo + 1
             n   == Len(map) - cut + Len(new)
             r   == Replace(map, lo, hi, new)
  <1>1. /\ Len(map) \in Nat /\ Len(new) \in Nat
        /\ map \in Seq(Ranges) /\ new \in Seq(Ranges)
    BY MapFacts DEF IsMemoryMap
  <1>m. /\ \A x \in 1 .. Len(map) : /\ map[x].physical_address \in Nat
                                   /\ mr_end(map[x]) \in Nat
                                   /\ map[x].physical_address <= mr_end(map[x])
        /\ \A x, y \in 1 .. Len(map) :
              x < y => mr_end(map[x]) <= map[y].physical_address
    BY OrderFacts, Zenon
  <1>w. /\ \A x \in 1 .. Len(new) : /\ new[x].physical_address \in Nat
                                   /\ mr_end(new[x]) \in Nat
                                   /\ new[x].physical_address <= mr_end(new[x])
        /\ \A x, y \in 1 .. Len(new) :
              x < y => mr_end(new[x]) <= new[y].physical_address
    BY OrderFacts, Zenon
  <1>2. n \in Nat /\ cut \in Nat /\ cut >= 1 /\ lo \in Nat /\ hi \in Nat
    BY <1>1
  <1>3. r = [k \in 1 .. n |-> IF k < lo THEN map[k]
                              ELSE IF k < lo + Len(new) THEN new[k - lo + 1]
                              ELSE map[k - Len(new) + cut]]
    BY DEF Replace
  <1> HIDE DEF n, r
  <1>4. \A k \in 1 .. n :
          /\ k < lo => k \in 1 .. Len(map) /\ r[k] = map[k]
          /\ k >= lo /\ k < lo + Len(new) =>
               k - lo + 1 \in 1 .. Len(new) /\ r[k] = new[k - lo + 1]
          /\ k >= lo + Len(new) =>
               /\ k - Len(new) + cut \in (hi + 1) .. Len(map)
               /\ k - Len(new) + cut \in 1 .. Len(map)
               /\ r[k] = map[k - Len(new) + cut]
    <2>1. Placed(map, lo, hi, new, r)
      BY <1>1, ReplaceEntries DEF r
    <2> QED
      BY <2>1, Zenon DEF Placed, n
  <1>5. \A k \in 1 .. n : r[k] \in Ranges
    <2>1. /\ \A k \in 1 .. Len(map) : map[k] \in Ranges
          /\ \A k \in 1 .. Len(new) : new[k] \in Ranges
      BY <1>1
    <2>2. \A k \in 1 .. n : \/ k < lo
                            \/ k >= lo /\ k < lo + Len(new)
                            \/ k >= lo + Len(new)
      BY <1>1, <1>2
    <2> QED
      BY <1>4, <2>1, <2>2, Zenon
  <1>6. r \in Seq(Ranges) /\ Len(r) = n /\ DOMAIN r = 1 .. n
    <2>1. r = [k \in 1 .. n |-> r[k]]
      BY <1>3, Zenon
    <2>2. r \in [1 .. n -> Ranges]
      BY <1>5, <2>1, Zenon
    <2>3. r \in Seq(Ranges)
      BY <1>2, <2>2, SeqDef, Zenon
    <2>4. DOMAIN r = 1 .. n
      BY <2>2, Zenon
    <2> QED
      BY <1>2, <2>3, <2>4
  <1>7. \A k \in 1 .. Len(new) :
          /\ map[lo].physical_address <= new[k].physical_address
          /\ mr_end(new[k]) <= mr_end(map[hi])
    <2> SUFFICES ASSUME NEW k \in 1 .. Len(new)
                 PROVE  /\ map[lo].physical_address <= new[k].physical_address
                        /\ mr_end(new[k]) <= mr_end(map[hi])
      OBVIOUS
    <2>1. 1 \in 1 .. Len(new) /\ Len(new) \in 1 .. Len(new)
      BY <1>1
    <2>2. \A x \in 1 .. Len(new) :
             /\ new[x].physical_address \in Nat /\ mr_end(new[x]) \in Nat
             /\ new[x].physical_address <= mr_end(new[x])
      BY <1>m, <1>w
    <2>6. map[lo].physical_address \in Nat /\ mr_end(map[hi]) \in Nat
      BY <1>m, <1>w
    <2>3. 1 < k => mr_end(new[1]) <= new[k].physical_address
      BY <2>1, <1>m, <1>w
    <2>4. k < Len(new) => mr_end(new[k]) <= new[Len(new)].physical_address
      BY <2>1, <1>m, <1>w
    <2>5. (k = 1 \/ 1 < k) /\ (k = Len(new) \/ k < Len(new))
      BY <1>1
    <2>7. map[lo].physical_address <= new[k].physical_address
      <3>1. CASE k = 1
        BY <3>1
      <3>2. CASE 1 < k
        <4>1. /\ new[1].physical_address \in Nat /\ mr_end(new[1]) \in Nat
              /\ new[1].physical_address <= mr_end(new[1])
              /\ new[k].physical_address \in Nat
          BY <2>1, <2>2
        <4> QED
          BY <2>3, <2>6, <3>2, <4>1, SMTT(30)
      <3> QED
        BY <2>5, <3>1, <3>2
    <2>8. mr_end(new[k]) <= mr_end(map[hi])
      <3>1. CASE k = Len(new)
        BY <3>1
      <3>2. CASE k < Len(new)
        <4> DEFINE l == Len(new)
        <4>1. /\ new[l].physical_address \in Nat /\ mr_end(new[l]) \in Nat
              /\ new[l].physical_address <= mr_end(new[l])
              /\ mr_end(new[k]) \in Nat /\ mr_end(new[k]) <= new[l].physical_address
              /\ mr_end(new[l]) <= mr_end(map[hi])
          BY <2>1, <2>2, <2>4, <3>2
        <4> HIDE DEF l
        <4> QED
          BY <2>6, <4>1, SMTT(30)
      <3> QED
        BY <2>5, <3>1, <3>2
    <2> QED
      BY <2>7, <2>8
  <1>8. \A i, j \in 1 .. n : i < j => mr_end(r[i]) <= r[j].physical_address
    <2> SUFFICES ASSUME NEW i \in 1 .. n, NEW j \in 1 .. n, i < j
                 PROVE  mr_end(r[i]) <= r[j].physical_address
      OBVIOUS
    <2> DEFINE up(k) == k - Len(new) + cut
    <2>0. i \in Nat /\ j \in Nat
      BY <1>2
    <2>1. CASE j < lo
      <3>1. i < lo
        BY <1>2, <2>0, <2>1
      <3>2. /\ i \in 1 .. Len(map) /\ r[i] = map[i]
            /\ j \in 1 .. Len(map) /\ r[j] = map[j]
        BY <1>4, <2>1, <3>1, Zenon
      <3>3. mr_end(map[i]) <= map[j].physical_address
        BY <3>2, <1>m, <1>w, Zenon
      <3> QED
        BY <3>2, <3>3, Zenon
    <2>2. CASE i < lo /\ j >= lo /\ j < lo + Len(new)
      <3>1. mr_end(map[i]) <= map[lo].physical_address
        BY <1>2, <1>4, <2>0, <2>2, <1>m, <1>w
      <3>2. map[lo].physical_address <= new[j - lo + 1].physical_address
        BY <1>4, <1>7, <2>2
      <3>3. r[i] = map[i] /\ r[j] = new[j - lo + 1]
        BY <1>4, <2>2
      <3>4. /\ mr_end(map[i]) \in Nat /\ map[lo].physical_address \in Nat
            /\ new[j - lo + 1].physical_address \in Nat
        BY <1>4, <2>2, <1>m, <1>w
      <3>5. mr_end(r[i]) = mr_end(map[i])
        BY <3>3, Zenon
      <3>6. r[j].physical_address = new[j - lo + 1].physical_address
        BY <3>3, Zenon
      <3>7. mr_end(map[i]) <= new[j - lo + 1].physical_address
        BY <3>1, <3>2, <3>4, AtMostTrans, Zenon
      <3> QED
        BY <3>5, <3>6, <3>7, Zenon
    <2>3. CASE i < lo /\ j >= lo + Len(new)
      <3>1. /\ i \in 1 .. Len(map) /\ r[i] = map[i]
            /\ up(j) \in 1 .. Len(map) /\ r[j] = map[up(j)]
        BY <1>4, <2>3
      <3>2. i < up(j)
        BY <1>1, <1>2, <2>0, <2>3, <1>4, SMTT(30)
      <3> HIDE DEF up
      <3> QED
        BY <1>m, <3>1, <3>2, Zenon
    <2>4. CASE i >= lo /\ j < lo + Len(new)
      <3>1. i - lo + 1 < j - lo + 1
        BY <1>2, <2>0
      <3>2. /\ i - lo + 1 \in 1 .. Len(new) /\ r[i] = new[i - lo + 1]
            /\ j - lo + 1 \in 1 .. Len(new) /\ r[j] = new[j - lo + 1]
        BY <1>1, <1>2, <1>4, <2>0, <2>4, SMTT(30)
      <3> DEFINE x == i - lo + 1
                 y == j - lo + 1
      <3>3. mr_end(new[x]) <= new[y].physical_address
        BY <3>1, <3>2, <1>w
      <3> HIDE DEF x, y
      <3> QED
        BY <3>2, <3>3, Zenon DEF x, y
    <2>5. CASE i >= lo /\ i < lo + Len(new) /\ j >= lo + Len(new)
      <3>1. mr_end(new[i - lo + 1]) <= mr_end(map[hi])
        BY <1>4, <1>7, <2>5
      <3>2. up(j) \in 1 .. Len(map) /\ hi < up(j)
        BY <1>2, <1>4, <2>5
      <3>3. mr_end(map[hi]) <= map[up(j)].physical_address
        BY <3>2, <1>m, <1>w
      <3>4. r[i] = new[i - lo + 1] /\ r[j] = map[up(j)]
        BY <1>4, <2>5
      <3>5. /\ mr_end(new[i - lo + 1]) \in Nat /\ mr_end(map[hi]) \in Nat
            /\ map[up(j)].physical_address \in Nat
        BY <1>4, <2>5, <3>2, <1>m, <1>w
      <3>6. mr_end(r[i]) = mr_end(new[i - lo + 1])
        BY <3>4, Zenon
      <3>7. r[j].physical_address = map[up(j)].physical_address
        BY <3>4, Zenon
      <3> HIDE DEF up
      <3> QED
        BY <3>1, <3>3, <3>5, <3>6, <3>7, SMTT(30)
    <2>6. CASE i >= lo + Len(new)
      <3>1. up(i) < up(j)
        BY <1>1, <1>2, <2>0
      <3>2. j >= lo + Len(new)
        BY <1>1, <1>2, <2>0, <2>6
      <3>3. /\ up(i) \in 1 .. Len(map) /\ r[i] = map[up(i)]
            /\ up(j) \in 1 .. Len(map) /\ r[j] = map[up(j)]
        BY <1>4, <2>6, <3>2
      <3>4. \A x, y \in 1 .. Len(map) :
              x < y => mr_end(map[x]) <= map[y].physical_address
        BY <1>m, <1>w
      <3> HIDE DEF up
      <3> QED
        BY <3>1, <3>3, <3>4
    <2> QED
      BY <1>1, <1>2, <2>0, <2>1, <2>2, <2>3, <2>4, <2>5, <2>6
  <1>9. ASSUME NEW b \in Nat, Below(map, b)
        PROVE  Below(r, b)
    <2> SUFFICES ASSUME NEW k \in 1 .. n PROVE mr_end(r[k]) <= b
      BY <1>6 DEF Below
    <2>0. \A i \in 1 .. Len(map) : mr_end(map[i]) <= b
      BY <1>9, <1>m, <1>w, SMTT(30) DEF Below
    <2>1. CASE k < lo
      BY <1>4, <2>0, <2>1
    <2>2. CASE k >= lo /\ k < lo + Len(new)
      <3>1. mr_end(new[k - lo + 1]) <= mr_end(map[hi]) /\ mr_end(map[hi]) <= b
        BY <1>4, <1>7, <2>0, <2>2
      <3>2. mr_end(new[k - lo + 1]) \in Nat /\ mr_end(map[hi]) \in Nat
        BY <1>4, <2>2, <1>m, <1>w
      <3> QED
        BY <1>4, <2>2, <3>1, <3>2
    <2>3. CASE k >= lo + Len(new)
      BY <1>4, <2>0, <2>3
    <2> QED
      BY <1>1, <1>2, <2>1, <2>2, <2>3
  <1>10. ASSUME NEW b \in Nat, Above(map, b)
         PROVE  Above(r, b)
    <2> SUFFICES ASSUME NEW k \in 1 .. n PROVE b <= r[k].physical_address
      BY <1>6 DEF Above
    <2>0. \A i \in 1 .. Len(map) : b <= map[i].physical_address
      BY <1>10, <1>m, <1>w, SMTT(30) DEF Above
    <2>1. CASE k < lo
      BY <1>4, <2>0, <2>1
    <2>2. CASE k >= lo /\ k < lo + Len(new)
      <3>1. /\ b <= map[lo].physical_address
            /\ map[lo].physical_address <= new[k - lo + 1].physical_address
        BY <1>4, <1>7, <2>0, <2>2
      <3>2. /\ map[lo].physical_address \in Nat
            /\ new[k - lo + 1].physical_address \in Nat
        BY <1>4, <2>2, <1>m, <1>w
      <3>3. r[k] = new[k - lo + 1]
        BY <1>4, <2>2
      <3>4. b <= new[k - lo + 1].physical_address
        BY <3>1, <3>2, AtMostTrans, Zenon
      <3> QED
        BY <3>3, <3>4, Zenon
    <2>3. CASE k >= lo + Len(new)
      BY <1>4, <2>0, <2>3
    <2> QED
      BY <1>1, <1>2, <2>1, <2>2, <2>3
  <1> QED
    BY <1>6, <1>8, <1>9, <1>10 DEF IsMemoryMap, Ordered, r, n

-----------------------------------------------------------------------------
(***************************************************************************)
(* The short sequences that allocate_out_of puts into the map.             *)
(***************************************************************************)
LEMMA OneRange ==
    ASSUME NEW a \in Ranges
    PROVE  IsMemoryMap(<<a>>) /\ Len(<<a>>) = 1
  BY DEF IsMemoryMap, Ordered

LEMMA TwoRanges ==
    ASSUME NEW a \in Ranges, NEW b \in Ranges, mr_end(a) <= b.physical_address
    PROVE  IsMemoryMap(<<a, b>>) /\ Len(<<a, b>>) = 2
  <1>1. \A i, j \in 1 .. 2 : i < j => i = 1 /\ j = 2
    OBVIOUS
  <1> QED
    BY <1>1 DEF IsMemoryMap, Ordered

LEMMA ThreeRanges ==
    ASSUME NEW a \in Ranges, NEW b \in Ranges, NEW c \in Ranges,
           mr_end(a) <= b.physical_address, mr_end(b) <= c.physical_address
    PROVE  IsMemoryMap(<<a, b, c>>) /\ Len(<<a, b, c>>) = 3
  <1>1. \A i, j \in 1 .. 3 :
          i < j => \/ i = 1 /\ j = 2
                   \/ i = 1 /\ j = 3
                   \/ i = 2 /\ j = 3
    OBVIOUS
  <1>2. mr_end(a) <= c.physical_address
    BY RangeFacts
  <1> QED
    BY <1>1, <1>2 DEF IsMemoryMap, Ordered

\* Two ranges that touch merge into one that spans both, in either direction.
LEMMA MergeFacts ==
    ASSUME NEW a \in Ranges, NEW b \in Ranges, can_merge_ranges(a, b)
    PROVE  /\ merge_ranges(a, b) \in Ranges
           /\ merge_ranges(b, a) \in Ranges
           /\ merge_ranges(a, b).physical_address = a.physical_address
           /\ merge_ranges(b, a).physical_address = a.physical_address
           /\ mr_end(merge_ranges(a, b)) = mr_end(b)
           /\ mr_end(merge_ranges(b, a)) = mr_end(b)
           /\ merge_ranges(a, b).type = b.type
           /\ merge_ranges(b, a).type = b.type
  BY RangeFacts DEF can_merge_ranges, merge_ranges, MR, Ranges, mr_end

LEMMA PieceFacts ==
    ASSUME NEW cur \in Ranges, NEW mr \in Ranges, may_allocate_out_of(cur, mr)
    PROVE  /\ mr.physical_address # cur.physical_address =>
                /\ lhs_piece(cur, mr) \in Ranges
                /\ lhs_piece(cur, mr).physical_address = cur.physical_address
                /\ mr_end(lhs_piece(cur, mr)) = mr.physical_address
                /\ lhs_piece(cur, mr).type = cur.type
           /\ mr_end(mr) # mr_end(cur) =>
                /\ rhs_piece(cur, mr) \in Ranges
                /\ rhs_piece(cur, mr).physical_address = mr_end(mr)
                /\ mr_end(rhs_piece(cur, mr)) = mr_end(cur)
                /\ rhs_piece(cur, mr).type = cur.type
  BY RangeFacts DEF may_allocate_out_of, lhs_piece, rhs_piece, MR, Ranges, mr_end

-----------------------------------------------------------------------------
(***************************************************************************)
(* What the map says of a page, and where it has a seam: two neighbours    *)
(* that could be one range.                                                *)
(***************************************************************************)
TypeAt(m, p, t) == \E i \in DOMAIN m : m[i].type = t /\ Covers(m[i], p)

Mergeable(m, i) == i \in 1 .. (Len(m) - 1) /\ can_merge_ranges(m[i], m[i + 1])

SeamAt(m, b) == \E i \in DOMAIN m : Mergeable(m, i) /\ m[i + 1].physical_address = b

LEMMA TypeAtOne ==
    ASSUME NEW a, NEW p, NEW t
    PROVE  TypeAt(<<a>>, p, t) <=> a.type = t /\ Covers(a, p)
  BY DEF TypeAt

LEMMA TypeAtTwo ==
    ASSUME NEW a, NEW b, NEW p, NEW t
    PROVE  TypeAt(<<a, b>>, p, t) <=> \/ a.type = t /\ Covers(a, p)
                                      \/ b.type = t /\ Covers(b, p)
  <1>1. DOMAIN <<a, b>> = {1, 2} /\ <<a, b>>[1] = a /\ <<a, b>>[2] = b
    OBVIOUS
  <1> QED
    BY <1>1, Zenon DEF TypeAt

LEMMA TypeAtThree ==
    ASSUME NEW a, NEW b, NEW c, NEW p, NEW t
    PROVE  TypeAt(<<a, b, c>>, p, t) <=> \/ a.type = t /\ Covers(a, p)
                                         \/ b.type = t /\ Covers(b, p)
                                         \/ c.type = t /\ Covers(c, p)
  <1>1. /\ DOMAIN <<a, b, c>> = {1, 2, 3} /\ <<a, b, c>>[1] = a
        /\ <<a, b, c>>[2] = b /\ <<a, b, c>>[3] = c
    OBVIOUS
  <1> QED
    BY <1>1, Zenon DEF TypeAt

\* The replacement neither drops an empty range nor brings one, except that a
\* free may merge the empty ranges at its ends and may be empty itself.
KeepsCuts(map, lo, hi, new, mr) ==
    /\ \A k \in lo .. hi :
         map[k].physical_address = mr_end(map[k]) =>
            /\ mr.type = MEMORY_FREE
            /\ map[k].physical_address \in {mr.physical_address, mr_end(mr)}
    /\ \A j \in 1 .. Len(new) :
         new[j].physical_address = mr_end(new[j]) =>
            /\ mr.type = MEMORY_FREE /\ mr.physical_address = mr_end(mr)
            /\ new[j].physical_address = mr.physical_address

(***************************************************************************)
(* The sequence new may take the place of ranges lo .. hi when mr changes  *)
(* the type of its pages: it spans the same memory, says the same of every *)
(* page that mr does not cover, brings no seam with it and keeps the cuts. *)
(***************************************************************************)
Splice(map, lo, hi, new, mr) ==
    /\ lo \in 1 .. Len(map) /\ hi \in 1 .. Len(map) /\ lo <= hi
    /\ IsMemoryMap(new) /\ Len(new) \in 1 .. 3
    /\ new[1].physical_address = map[lo].physical_address
    /\ mr_end(new[Len(new)]) = mr_end(map[hi])
    /\ map[lo].physical_address <= mr.physical_address
    /\ mr_end(mr) <= mr_end(map[hi])
    /\ \A p \in Nat, t \in {MEMORY_FREE, MEMORY_ALLOCATED} :
         TypeAt(new, p, t) <=>
            IF Covers(mr, p) THEN t = mr.type
            ELSE \E k \in lo .. hi : map[k].type = t /\ Covers(map[k], p)
    /\ \A i \in 1 .. Len(new) : ~Mergeable(new, i)
    /\ lo > 1 /\ can_merge_ranges(map[lo - 1], new[1]) =>
         can_merge_ranges(map[lo - 1], map[lo])
    /\ hi < Len(map) /\ can_merge_ranges(new[Len(new)], map[hi + 1]) =>
         can_merge_ranges(map[hi], map[hi + 1])
    /\ KeepsCuts(map, lo, hi, new, mr)

(***************************************************************************)
(* Each of the eight cases of allocate_out_of is such a replacement.       *)
(***************************************************************************)
LEMMA AllocateOutOfSplices ==
    ASSUME NEW map, IsMemoryMap(map), NEW idx \in 1 .. Len(map),
           NEW mr \in Ranges, may_allocate_out_of(map[idx], mr)
    PROVE  \E lo, hi \in 1 .. Len(map) : \E new :
              /\ allocate_out_of(map, idx, mr) = Replace(map, lo, hi, new)
              /\ Splice(map, lo, hi, new, mr)
  <1> DEFINE cur   == map[idx]
             left  == mr.physical_address # cur.physical_address
             right == mr_end(mr) # mr_end(cur)
             Types == {MEMORY_FREE, MEMORY_ALLOCATED}
  <1>0. /\ Len(map) \in Nat /\ idx \in Nat
        /\ \A i \in 1 .. Len(map) : map[i] \in Ranges
    BY MapFacts DEF IsMemoryMap
  <1>1. cur \in Ranges
    BY <1>0
  <1>2. /\ cur.physical_address \in Nat /\ mr_end(cur) \in Nat
        /\ mr.physical_address \in Nat /\ mr_end(mr) \in Nat
        /\ cur.physical_address <= mr.physical_address
        /\ mr.physical_address <= mr_end(mr) /\ mr_end(mr) <= mr_end(cur)
        /\ cur.type # mr.type /\ cur.type \in Types /\ mr.type \in Types
        /\ cur.physical_address < mr_end(cur)
        /\ mr.physical_address = mr_end(mr) => mr.type = MEMORY_FREE
    <2>1. /\ mr.physical_address = mr_end(mr) => mr.type = MEMORY_FREE
          /\ cur.physical_address = mr_end(cur) => cur.type = MEMORY_FREE
          /\ mr.physical_address <= mr_end(mr)
      BY <1>1, RangeFacts, SMTT(30)
    <2>2. /\ cur.physical_address \in Nat /\ mr_end(cur) \in Nat
          /\ mr.physical_address \in Nat /\ mr_end(mr) \in Nat
          /\ cur.physical_address <= mr.physical_address
          /\ mr_end(mr) <= mr_end(cur)
          /\ cur.type # mr.type /\ cur.type \in Types /\ mr.type \in Types
      BY <1>1, RangeFacts, SMTT(30) DEF may_allocate_out_of
    <2> HIDE DEF cur, Types
    <2> QED
      BY <2>1, <2>2, SMTT(30)
  <1>3. /\ left => /\ lhs_piece(cur, mr) \in Ranges
                   /\ lhs_piece(cur, mr).physical_address = cur.physical_address
                   /\ mr_end(lhs_piece(cur, mr)) = mr.physical_address
                   /\ lhs_piece(cur, mr).type = cur.type
        /\ right => /\ rhs_piece(cur, mr) \in Ranges
                    /\ rhs_piece(cur, mr).physical_address = mr_end(mr)
                    /\ mr_end(rhs_piece(cur, mr)) = mr_end(cur)
                    /\ rhs_piece(cur, mr).type = cur.type
    BY <1>1, PieceFacts
  <1>4. mergeable_before(map, idx, mr) =>
          /\ idx - 1 \in 1 .. Len(map)
          /\ can_merge_ranges(map[idx - 1], mr)
          /\ map[idx - 1] \in Ranges
          /\ map[idx - 1].type = mr.type
          /\ map[idx - 1].physical_address \in Nat
          /\ mr_end(map[idx - 1]) = mr.physical_address
          /\ map[idx - 1].physical_address <= mr.physical_address
          /\ map[idx - 1].physical_address = mr.physical_address => mr.type = MEMORY_FREE
    <2> SUFFICES ASSUME mergeable_before(map, idx, mr)
                 PROVE  /\ idx - 1 \in 1 .. Len(map)
                        /\ can_merge_ranges(map[idx - 1], mr)
                        /\ map[idx - 1] \in Ranges
                        /\ map[idx - 1].type = mr.type
                        /\ map[idx - 1].physical_address \in Nat
                        /\ mr_end(map[idx - 1]) = mr.physical_address
                        /\ map[idx - 1].physical_address <= mr.physical_address
                        /\ map[idx - 1].physical_address = mr.physical_address =>
                             mr.type = MEMORY_FREE
      OBVIOUS
    <2>1. idx - 1 \in 1 .. Len(map) /\ can_merge_ranges(map[idx - 1], mr)
      BY <1>0 DEF mergeable_before
    <2>2. map[idx - 1] \in Ranges
      BY <1>0, <2>1
    <2> QED
      BY <2>1, <2>2, RangeFacts DEF can_merge_ranges
  <1>5. mergeable_after(map, idx, mr) =>
          /\ idx + 1 \in 1 .. Len(map)
          /\ can_merge_ranges(mr, map[idx + 1])
          /\ map[idx + 1] \in Ranges
          /\ map[idx + 1].type = mr.type
          /\ mr_end(map[idx + 1]) \in Nat
          /\ mr_end(mr) = map[idx + 1].physical_address
          /\ map[idx + 1].physical_address <= mr_end(map[idx + 1])
          /\ map[idx + 1].physical_address = mr_end(map[idx + 1]) => mr.type = MEMORY_FREE
    <2> SUFFICES ASSUME mergeable_after(map, idx, mr)
                 PROVE  /\ idx + 1 \in 1 .. Len(map)
                        /\ can_merge_ranges(mr, map[idx + 1])
                        /\ map[idx + 1] \in Ranges
                        /\ map[idx + 1].type = mr.type
                        /\ mr_end(map[idx + 1]) \in Nat
                        /\ mr_end(mr) = map[idx + 1].physical_address
                        /\ map[idx + 1].physical_address <= mr_end(map[idx + 1])
                        /\ map[idx + 1].physical_address = mr_end(map[idx + 1]) =>
                             mr.type = MEMORY_FREE
      OBVIOUS
    <2>1. idx + 1 \in 1 .. Len(map) /\ can_merge_ranges(mr, map[idx + 1])
      BY <1>0 DEF mergeable_after
    <2>2. map[idx + 1] \in Ranges
      BY <1>0, <2>1
    <2> QED
      BY <2>1, <2>2, RangeFacts DEF can_merge_ranges
  \* Ranges on either side of idx that cannot be merged with mr.
  <1>6. /\ ~mergeable_before(map, idx, mr) /\ idx > 1 =>
             ~can_merge_ranges(map[idx - 1], mr)
        /\ ~mergeable_after(map, idx, mr) /\ idx < Len(map) =>
             ~can_merge_ranges(mr, map[idx + 1])
    BY DEF mergeable_before, mergeable_after
  \* The indices of the ranges that are replaced.
  <1>k. /\ idx .. idx = {idx} /\ (idx - 1) .. idx = {idx - 1, idx}
        /\ idx .. (idx + 1) = {idx, idx + 1}
        /\ (idx - 1) .. (idx + 1) = {idx - 1, idx, idx + 1}
    BY <1>0
  \* Which pages the ranges that are replaced cover.
  <1>7. \A p, t :
          /\ (\E k \in idx .. idx : map[k].type = t /\ Covers(map[k], p)) <=>
                cur.type = t /\ Covers(cur, p)
          /\ (\E k \in (idx - 1) .. idx : map[k].type = t /\ Covers(map[k], p)) <=>
                \/ map[idx - 1].type = t /\ Covers(map[idx - 1], p)
                \/ cur.type = t /\ Covers(cur, p)
          /\ (\E k \in idx .. (idx + 1) : map[k].type = t /\ Covers(map[k], p)) <=>
                \/ cur.type = t /\ Covers(cur, p)
                \/ map[idx + 1].type = t /\ Covers(map[idx + 1], p)
          /\ (\E k \in (idx - 1) .. (idx + 1) : map[k].type = t /\ Covers(map[k], p)) <=>
                \/ map[idx - 1].type = t /\ Covers(map[idx - 1], p)
                \/ cur.type = t /\ Covers(cur, p)
                \/ map[idx + 1].type = t /\ Covers(map[idx + 1], p)
    BY <1>k, ZenonT(40)
  <1> HIDE DEF Types
  <1>8. ASSUME left, right
        PROVE  \E new : /\ split_middle(map, idx, mr) = Replace(map, idx, idx, new)
                        /\ Splice(map, idx, idx, new, mr)
    <2> DEFINE L   == lhs_piece(cur, mr)
               R   == rhs_piece(cur, mr)
               new == <<L, mr, R>>
    <2>1. /\ L \in Ranges /\ L.type = cur.type
          /\ L.physical_address = cur.physical_address /\ mr_end(L) = mr.physical_address
          /\ R \in Ranges /\ R.type = cur.type
          /\ R.physical_address = mr_end(mr) /\ mr_end(R) = mr_end(cur)
      BY <1>3, <1>8
    <2>2. split_middle(map, idx, mr) = Replace(map, idx, idx, new)
      BY DEF split_middle
    <2> HIDE DEF L, R
    <2>3. IsMemoryMap(new) /\ Len(new) = 3
      BY <1>2, <2>1, ThreeRanges
    <2>4. new[1] = L /\ new[2] = mr /\ new[3] = R
      OBVIOUS
    <2>5. ASSUME NEW p \in Nat, NEW t \in Types
          PROVE  TypeAt(new, p, t) <=>
                   IF Covers(mr, p) THEN t = mr.type
                   ELSE \E k \in idx .. idx : map[k].type = t /\ Covers(map[k], p)
      <3>1. TypeAt(new, p, t) <=> \/ L.type = t /\ Covers(L, p)
                                  \/ mr.type = t /\ Covers(mr, p)
                                  \/ R.type = t /\ Covers(R, p)
        BY TypeAtThree
      <3>2. (\E k \in idx .. idx : map[k].type = t /\ Covers(map[k], p)) <=>
              cur.type = t /\ Covers(cur, p)
        BY <1>7, Zenon
      <3> HIDE DEF new, cur
      <3> QED
        BY <1>2, <2>1, <3>1, <3>2 DEF Covers
    <2> HIDE DEF new
    <2>6. \A i \in 1 .. Len(new) : ~Mergeable(new, i)
      BY <1>2, <2>1, <2>3, <2>4 DEF Mergeable, can_merge_ranges
    <2>7. /\ can_merge_ranges(map[idx - 1], new[1]) => can_merge_ranges(map[idx - 1], map[idx])
          /\ can_merge_ranges(new[Len(new)], map[idx + 1]) =>
               can_merge_ranges(map[idx], map[idx + 1])
      BY <2>1, <2>3, <2>4 DEF can_merge_ranges
    <2>9. KeepsCuts(map, idx, idx, new, mr)
      BY <1>2, <1>k, <1>8, <2>1, <2>3, <2>4, SMTT(30) DEF KeepsCuts
    <2>8. Splice(map, idx, idx, new, mr)
      BY <1>0, <1>2, <2>1, <2>3, <2>4, <2>5, <2>6, <2>7, <2>9 DEF Splice, Types
    <2> QED
      BY <2>2, <2>8
  <1>9. ASSUME ~left, right, mergeable_before(map, idx, mr)
        PROVE  \E new : /\ split_left(map, idx, mr) = Replace(map, idx - 1, idx, new)
                        /\ Splice(map, idx - 1, idx, new, mr)
    <2> DEFINE M   == merge_ranges(map[idx - 1], mr)
               R   == rhs_piece(cur, mr)
               new == <<M, R>>
    <2>1. /\ M \in Ranges /\ M.type = mr.type
          /\ M.physical_address = map[idx - 1].physical_address
          /\ mr_end(M) = mr_end(mr)
          /\ R \in Ranges /\ R.type = cur.type
          /\ R.physical_address = mr_end(mr) /\ mr_end(R) = mr_end(cur)
      BY <1>3, <1>4, <1>9, MergeFacts
    <2>2. split_left(map, idx, mr) = Replace(map, idx - 1, idx, new)
      BY <1>9 DEF split_left
    <2> HIDE DEF M, R
    <2>3. IsMemoryMap(new) /\ Len(new) = 2
      BY <1>2, <2>1, TwoRanges
    <2>4. new[1] = M /\ new[2] = R
      OBVIOUS
    <2>5. ASSUME NEW p \in Nat, NEW t \in Types
          PROVE  TypeAt(new, p, t) <=>
                   IF Covers(mr, p) THEN t = mr.type
                   ELSE \E k \in (idx - 1) .. idx : map[k].type = t /\ Covers(map[k], p)
      <3>1. TypeAt(new, p, t) <=> \/ M.type = t /\ Covers(M, p)
                                  \/ R.type = t /\ Covers(R, p)
        BY TypeAtTwo
      <3>2. (\E k \in (idx - 1) .. idx : map[k].type = t /\ Covers(map[k], p)) <=>
              \/ map[idx - 1].type = t /\ Covers(map[idx - 1], p)
              \/ cur.type = t /\ Covers(cur, p)
        BY <1>7, Zenon
      <3> HIDE DEF new, cur
      <3> QED
        BY <1>2, <1>4, <1>9, <2>1, <3>1, <3>2, SMTT(30) DEF Covers
    <2> HIDE DEF new
    <2>6. \A i \in 1 .. Len(new) : ~Mergeable(new, i)
      BY <1>2, <2>1, <2>3, <2>4 DEF Mergeable, can_merge_ranges
    <2>7. /\ can_merge_ranges(map[idx - 1 - 1], new[1]) =>
               can_merge_ranges(map[idx - 1 - 1], map[idx - 1])
          /\ can_merge_ranges(new[Len(new)], map[idx + 1]) =>
               can_merge_ranges(map[idx], map[idx + 1])
      BY <1>4, <1>9, <2>1, <2>3, <2>4 DEF can_merge_ranges
    <2>9. KeepsCuts(map, idx - 1, idx, new, mr)
      BY <1>2, <1>4, <1>k, <1>9, <2>1, <2>3, <2>4, SMTT(30) DEF KeepsCuts
    <2>8. Splice(map, idx - 1, idx, new, mr)
      BY <1>0, <1>2, <1>4, <1>9, <2>1, <2>3, <2>4, <2>5, <2>6, <2>7, <2>9, SMTT(30) DEF Splice, Types
    <2> QED
      BY <2>2, <2>8
  <1>10. ASSUME ~left, right, ~mergeable_before(map, idx, mr)
         PROVE  \E new : /\ split_left(map, idx, mr) = Replace(map, idx, idx, new)
                         /\ Splice(map, idx, idx, new, mr)
    <2> DEFINE R   == rhs_piece(cur, mr)
               new == <<mr, R>>
    <2>1. /\ R \in Ranges /\ R.type = cur.type
          /\ R.physical_address = mr_end(mr) /\ mr_end(R) = mr_end(cur)
      BY <1>3, <1>10
    <2>2. split_left(map, idx, mr) = Replace(map, idx, idx, new)
      BY <1>10 DEF split_left
    <2> HIDE DEF R
    <2>3. IsMemoryMap(new) /\ Len(new) = 2
      BY <1>2, <2>1, TwoRanges
    <2>4. new[1] = mr /\ new[2] = R
      OBVIOUS
    <2>5. ASSUME NEW p \in Nat, NEW t \in Types
          PROVE  TypeAt(new, p, t) <=>
                   IF Covers(mr, p) THEN t = mr.type
                   ELSE \E k \in idx .. idx : map[k].type = t /\ Covers(map[k], p)
      <3>1. TypeAt(new, p, t) <=> \/ mr.type = t /\ Covers(mr, p)
                                  \/ R.type = t /\ Covers(R, p)
        BY TypeAtTwo
      <3>2. (\E k \in idx .. idx : map[k].type = t /\ Covers(map[k], p)) <=>
              cur.type = t /\ Covers(cur, p)
        BY <1>7, Zenon
      <3> HIDE DEF new, cur
      <3> QED
        BY <1>2, <1>10, <2>1, <3>1, <3>2 DEF Covers
    <2> HIDE DEF new
    <2>6. \A i \in 1 .. Len(new) : ~Mergeable(new, i)
      BY <1>2, <2>1, <2>3, <2>4 DEF Mergeable, can_merge_ranges
    <2>7. /\ idx > 1 => ~can_merge_ranges(map[idx - 1], new[1])
          /\ can_merge_ranges(new[Len(new)], map[idx + 1]) =>
               can_merge_ranges(map[idx], map[idx + 1])
      BY <1>6, <1>10, <2>1, <2>3, <2>4 DEF can_merge_ranges
    <2>9. KeepsCuts(map, idx, idx, new, mr)
      BY <1>2, <1>k, <1>10, <2>1, <2>3, <2>4, SMTT(30) DEF KeepsCuts
    <2>8. Splice(map, idx, idx, new, mr)
      BY <1>0, <1>2, <1>10, <2>1, <2>3, <2>4, <2>5, <2>6, <2>7, <2>9 DEF Splice, Types
    <2> QED
      BY <2>2, <2>8
  <1>11. ASSUME left, ~right, mergeable_after(map, idx, mr)
         PROVE  \E new : /\ split_right(map, idx, mr) = Replace(map, idx, idx + 1, new)
                         /\ Splice(map, idx, idx + 1, new, mr)
    <2> DEFINE L   == lhs_piece(cur, mr)
               M   == merge_ranges(map[idx + 1], mr)
               new == <<L, M>>
    <2>1. /\ L \in Ranges /\ L.type = cur.type
          /\ L.physical_address = cur.physical_address /\ mr_end(L) = mr.physical_address
          /\ M \in Ranges /\ M.type = mr.type
          /\ M.physical_address = mr.physical_address
          /\ mr_end(M) = mr_end(map[idx + 1])
      BY <1>3, <1>5, <1>11, MergeFacts
    <2>2. split_right(map, idx, mr) = Replace(map, idx, idx + 1, new)
      BY <1>11 DEF split_right
    <2> HIDE DEF L, M
    <2>3. IsMemoryMap(new) /\ Len(new) = 2
      BY <1>2, <2>1, TwoRanges
    <2>4. new[1] = L /\ new[2] = M
      OBVIOUS
    <2>5. ASSUME NEW p \in Nat, NEW t \in Types
          PROVE  TypeAt(new, p, t) <=>
                   IF Covers(mr, p) THEN t = mr.type
                   ELSE \E k \in idx .. (idx + 1) : map[k].type = t /\ Covers(map[k], p)
      <3>1. TypeAt(new, p, t) <=> \/ L.type = t /\ Covers(L, p)
                                  \/ M.type = t /\ Covers(M, p)
        BY TypeAtTwo
      <3>2. (\E k \in idx .. (idx + 1) : map[k].type = t /\ Covers(map[k], p)) <=>
              \/ cur.type = t /\ Covers(cur, p)
              \/ map[idx + 1].type = t /\ Covers(map[idx + 1], p)
        BY <1>7, Zenon
      <3> HIDE DEF new, cur
      <3> QED
        BY <1>2, <1>5, <1>11, <2>1, <3>1, <3>2, SMTT(30) DEF Covers
    <2> HIDE DEF new
    <2>6. \A i \in 1 .. Len(new) : ~Mergeable(new, i)
      BY <1>2, <2>1, <2>3, <2>4 DEF Mergeable, can_merge_ranges
    <2>7. /\ can_merge_ranges(map[idx - 1], new[1]) => can_merge_ranges(map[idx - 1], map[idx])
          /\ can_merge_ranges(new[Len(new)], map[idx + 1 + 1]) =>
               can_merge_ranges(map[idx + 1], map[idx + 1 + 1])
      BY <1>5, <1>11, <2>1, <2>3, <2>4 DEF can_merge_ranges
    <2>9. KeepsCuts(map, idx, idx + 1, new, mr)
      BY <1>2, <1>5, <1>k, <1>11, <2>1, <2>3, <2>4, SMTT(30) DEF KeepsCuts
    <2>8. Splice(map, idx, idx + 1, new, mr)
      BY <1>0, <1>2, <1>5, <1>11, <2>1, <2>3, <2>4, <2>5, <2>6, <2>7, <2>9 DEF Splice, Types
    <2> QED
      BY <2>2, <2>8
  <1>12. ASSUME left, ~right, ~mergeable_after(map, idx, mr)
         PROVE  \E new : /\ split_right(map, idx, mr) = Replace(map, idx, idx, new)
                         /\ Splice(map, idx, idx, new, mr)
    <2> DEFINE L   == lhs_piece(cur, mr)
               new == <<L, mr>>
    <2>1. /\ L \in Ranges /\ L.type = cur.type
          /\ L.physical_address = cur.physical_address /\ mr_end(L) = mr.physical_address
      BY <1>3, <1>12
    <2>2. split_right(map, idx, mr) = Replace(map, idx, idx, new)
      BY <1>12 DEF split_right
    <2> HIDE DEF L
    <2>3. IsMemoryMap(new) /\ Len(new) = 2
      BY <1>2, <2>1, TwoRanges
    <2>4. new[1] = L /\ new[2] = mr
      OBVIOUS
    <2>5. ASSUME NEW p \in Nat, NEW t \in Types
          PROVE  TypeAt(new, p, t) <=>
                   IF Covers(mr, p) THEN t = mr.type
                   ELSE \E k \in idx .. idx : map[k].type = t /\ Covers(map[k], p)
      <3>1. TypeAt(new, p, t) <=> \/ L.type = t /\ Covers(L, p)
                                  \/ mr.type = t /\ Covers(mr, p)
        BY TypeAtTwo
      <3>2. (\E k \in idx .. idx : map[k].type = t /\ Covers(map[k], p)) <=>
              cur.type = t /\ Covers(cur, p)
        BY <1>7, Zenon
      <3> HIDE DEF new, cur
      <3> QED
        BY <1>2, <1>12, <2>1, <3>1, <3>2 DEF Covers
    <2> HIDE DEF new
    <2>6. \A i \in 1 .. Len(new) : ~Mergeable(new, i)
      BY <1>2, <2>1, <2>3, <2>4 DEF Mergeable, can_merge_ranges
    <2>7. /\ can_merge_ranges(map[idx - 1], new[1]) => can_merge_ranges(map[idx - 1], map[idx])
          /\ idx < Len(map) => ~can_merge_ranges(new[Len(new)], map[idx + 1])
      BY <1>6, <1>12, <2>1, <2>3, <2>4 DEF can_merge_ranges
    <2>9. KeepsCuts(map, idx, idx, new, mr)
      BY <1>2, <1>k, <1>12, <2>1, <2>3, <2>4, SMTT(30) DEF KeepsCuts
    <2>8. Splice(map, idx, idx, new, mr)
      BY <1>0, <1>2, <1>12, <2>1, <2>3, <2>4, <2>5, <2>6, <2>7, <2>9 DEF Splice, Types
    <2> QED
      BY <2>2, <2>8
  <1>13. ASSUME ~left, ~right, ~mergeable_before(map, idx, mr), ~mergeable_after(map, idx, mr)
         PROVE  \E new : /\ take_whole(map, idx, mr) = Replace(map, idx, idx, new)
                         /\ Splice(map, idx, idx, new, mr)
    <2> DEFINE new == <<mr>>
    <2>2. take_whole(map, idx, mr) = Replace(map, idx, idx, new)
      BY <1>13 DEF take_whole
    <2>3. IsMemoryMap(new) /\ Len(new) = 1
      BY OneRange
    <2>4. new[1] = mr
      OBVIOUS
    <2>5. ASSUME NEW p \in Nat, NEW t \in Types
          PROVE  TypeAt(new, p, t) <=>
                   IF Covers(mr, p) THEN t = mr.type
                   ELSE \E k \in idx .. idx : map[k].type = t /\ Covers(map[k], p)
      <3>1. TypeAt(new, p, t) <=> mr.type = t /\ Covers(mr, p)
        BY TypeAtOne
      <3>2. (\E k \in idx .. idx : map[k].type = t /\ Covers(map[k], p)) <=>
              cur.type = t /\ Covers(cur, p)
        BY <1>7, Zenon
      <3> HIDE DEF new, cur
      <3> QED
        BY <1>2, <1>4, <1>5, <1>13, <3>1, <3>2 DEF Covers
    <2> HIDE DEF new
    <2>6. \A i \in 1 .. Len(new) : ~Mergeable(new, i)
      BY <2>3 DEF Mergeable
    <2>7. /\ idx > 1 => ~can_merge_ranges(map[idx - 1], new[1])
          /\ idx < Len(map) => ~can_merge_ranges(new[Len(new)], map[idx + 1])
      BY <1>4, <1>5, <1>6, <1>13, <2>3, <2>4 DEF can_merge_ranges
    <2>9. KeepsCuts(map, idx, idx, new, mr)
      BY <1>2, <1>k, <1>13, <2>3, <2>4, SMTT(30) DEF KeepsCuts
    <2>8. Splice(map, idx, idx, new, mr)
      BY <1>0, <1>2, <1>4, <1>5, <1>13, <2>3, <2>4, <2>5, <2>6, <2>7, <2>9
         DEF Splice, Types
    <2> QED
      BY <2>2, <2>8
  <1>14. ASSUME ~left, ~right, mergeable_before(map, idx, mr), ~mergeable_after(map, idx, mr)
         PROVE  \E new : /\ take_whole(map, idx, mr) = Replace(map, idx - 1, idx, new)
                         /\ Splice(map, idx - 1, idx, new, mr)
    <2> DEFINE M   == merge_ranges(map[idx - 1], mr)
               new == <<M>>
    <2>1. /\ M \in Ranges /\ M.type = mr.type
          /\ M.physical_address = map[idx - 1].physical_address
          /\ mr_end(M) = mr_end(mr)
      BY <1>4, <1>14, MergeFacts
    <2>2. take_whole(map, idx, mr) = Replace(map, idx - 1, idx, new)
      BY <1>14 DEF take_whole
    <2> HIDE DEF M
    <2>3. IsMemoryMap(new) /\ Len(new) = 1
      BY <2>1, OneRange
    <2>4. new[1] = M
      OBVIOUS
    <2>5. ASSUME NEW p \in Nat, NEW t \in Types
          PROVE  TypeAt(new, p, t) <=>
                   IF Covers(mr, p) THEN t = mr.type
                   ELSE \E k \in (idx - 1) .. idx : map[k].type = t /\ Covers(map[k], p)
      <3>1. TypeAt(new, p, t) <=> M.type = t /\ Covers(M, p)
        BY TypeAtOne
      <3>2. (\E k \in (idx - 1) .. idx : map[k].type = t /\ Covers(map[k], p)) <=>
              \/ map[idx - 1].type = t /\ Covers(map[idx - 1], p)
              \/ cur.type = t /\ Covers(cur, p)
        BY <1>7, Zenon
      <3> HIDE DEF new, cur
      <3> QED
        BY <1>2, <1>4, <1>5, <1>14, <2>1, <3>1, <3>2, SMTT(30) DEF Covers
    <2> HIDE DEF new
    <2>6. \A i \in 1 .. Len(new) : ~Mergeable(new, i)
      BY <2>3 DEF Mergeable
    <2>7. /\ can_merge_ranges(map[idx - 1 - 1], new[1]) =>
               can_merge_ranges(map[idx - 1 - 1], map[idx - 1])
          /\ idx < Len(map) => ~can_merge_ranges(new[Len(new)], map[idx + 1])
      BY <1>4, <1>5, <1>6, <1>14, <2>1, <2>3, <2>4 DEF can_merge_ranges
    <2>9. KeepsCuts(map, idx - 1, idx, new, mr)
      BY <1>2, <1>4, <1>k, <1>14, <2>1, <2>3, <2>4, SMTT(30) DEF KeepsCuts
    <2>8. Splice(map, idx - 1, idx, new, mr)
      BY <1>0, <1>2, <1>4, <1>5, <1>14, <2>1, <2>3, <2>4, <2>5, <2>6, <2>7, <2>9
         DEF Splice, Types
    <2> QED
      BY <2>2, <2>8
  <1>15. ASSUME ~left, ~right, ~mergeable_before(map, idx, mr), mergeable_after(map, idx, mr)
         PROVE  \E new : /\ take_whole(map, idx, mr) = Replace(map, idx, idx + 1, new)
                         /\ Splice(map, idx, idx + 1, new, mr)
    <2> DEFINE M   == merge_ranges(map[idx + 1], mr)
               new == <<M>>
    <2>1. /\ M \in Ranges /\ M.type = mr.type
          /\ M.physical_address = mr.physical_address
          /\ mr_end(M) = mr_end(map[idx + 1])
      BY <1>5, <1>15, MergeFacts
    <2>2. take_whole(map, idx, mr) = Replace(map, idx, idx + 1, new)
      BY <1>15 DEF take_whole
    <2> HIDE DEF M
    <2>3. IsMemoryMap(new) /\ Len(new) = 1
      BY <2>1, OneRange
    <2>4. new[1] = M
      OBVIOUS
    <2>5. ASSUME NEW p \in Nat, NEW t \in Types
          PROVE  TypeAt(new, p, t) <=>
                   IF Covers(mr, p) THEN t = mr.type
                   ELSE \E k \in idx .. (idx + 1) : map[k].type = t /\ Covers(map[k], p)
      <3>1. TypeAt(new, p, t) <=> M.type = t /\ Covers(M, p)
        BY TypeAtOne
      <3>2. (\E k \in idx .. (idx + 1) : map[k].type = t /\ Covers(map[k], p)) <=>
              \/ cur.type = t /\ Covers(cur, p)
              \/ map[idx + 1].type = t /\ Covers(map[idx + 1], p)
        BY <1>7, Zenon
      <3> HIDE DEF new, cur
      <3> QED
        BY <1>2, <1>4, <1>5, <1>15, <2>1, <3>1, <3>2, SMTT(30) DEF Covers
    <2> HIDE DEF new
    <2>6. \A i \in 1 .. Len(new) : ~Mergeable(new, i)
      BY <2>3 DEF Mergeable
    <2>7. /\ idx > 1 => ~can_merge_ranges(map[idx - 1], new[1])
          /\ can_merge_ranges(new[Len(new)], map[idx + 1 + 1]) =>
               can_merge_ranges(map[idx + 1], map[idx + 1 + 1])
      BY <1>4, <1>5, <1>6, <1>15, <2>1, <2>3, <2>4 DEF can_merge_ranges
    <2>9. KeepsCuts(map, idx, idx + 1, new, mr)
      BY <1>2, <1>5, <1>k, <1>15, <2>1, <2>3, <2>4, SMTT(30) DEF KeepsCuts
    <2>8. Splice(map, idx, idx + 1, new, mr)
      BY <1>0, <1>2, <1>4, <1>5, <1>15, <2>1, <2>3, <2>4, <2>5, <2>6, <2>7, <2>9
         DEF Splice, Types
    <2> QED
      BY <2>2, <2>8
  <1>16. ASSUME ~left, ~right, mergeable_before(map, idx, mr), mergeable_after(map, idx, mr)
         PROVE  \E new : /\ take_whole(map, idx, mr) = Replace(map, idx - 1, idx + 1, new)
                         /\ Splice(map, idx - 1, idx + 1, new, mr)
    <2> DEFINE N   == merge_ranges(map[idx - 1], mr)
               M   == merge_ranges(N, map[idx + 1])
               new == <<M>>
    <2>0. /\ N \in Ranges /\ N.type = mr.type
          /\ N.physical_address = map[idx - 1].physical_address
          /\ mr_end(N) = mr_end(mr)
      BY <1>4, <1>16, MergeFacts
    <2>1. /\ M \in Ranges /\ M.type = mr.type
          /\ M.physical_address = map[idx - 1].physical_address
          /\ mr_end(M) = mr_end(map[idx + 1])
      <3>1. can_merge_ranges(N, map[idx + 1])
        BY <1>5, <1>16, <2>0 DEF can_merge_ranges
      <3> HIDE DEF N
      <3> QED
        BY <1>5, <1>16, <2>0, <3>1, MergeFacts
    <2>2. take_whole(map, idx, mr) = Replace(map, idx - 1, idx + 1, new)
      BY <1>16 DEF take_whole
    <2> HIDE DEF M, N
    <2>3. IsMemoryMap(new) /\ Len(new) = 1
      BY <2>1, OneRange
    <2>4. new[1] = M
      OBVIOUS
    <2>5. ASSUME NEW p \in Nat, NEW t \in Types
          PROVE  TypeAt(new, p, t) <=>
                   IF Covers(mr, p) THEN t = mr.type
                   ELSE \E k \in (idx - 1) .. (idx + 1) : map[k].type = t /\ Covers(map[k], p)
      <3>1. TypeAt(new, p, t) <=> M.type = t /\ Covers(M, p)
        BY TypeAtOne
      <3>2. (\E k \in (idx - 1) .. (idx + 1) : map[k].type = t /\ Covers(map[k], p)) <=>
              \/ map[idx - 1].type = t /\ Covers(map[idx - 1], p)
              \/ cur.type = t /\ Covers(cur, p)
              \/ map[idx + 1].type = t /\ Covers(map[idx + 1], p)
        BY <1>7, Zenon
      <3> HIDE DEF new, cur
      <3> QED
        <4>1. Covers(M, p) <=> \/ Covers(map[idx - 1], p) \/ Covers(mr, p)
                               \/ Covers(map[idx + 1], p)
          BY <1>2, <1>4, <1>5, <1>16, <2>1, SMTT(30) DEF Covers, can_merge_ranges
        <4>2. map[idx - 1].type = mr.type /\ map[idx + 1].type = mr.type
          BY <1>4, <1>5, <1>16 DEF can_merge_ranges
        <4>3. Covers(cur, p) <=> Covers(mr, p)
          BY <1>2, <1>16 DEF Covers
        <4> QED
          BY <2>1, <3>1, <3>2, <4>1, <4>2, <4>3, Zenon
    <2> HIDE DEF new
    <2>6. \A i \in 1 .. Len(new) : ~Mergeable(new, i)
      BY <2>3 DEF Mergeable
    <2>7. /\ can_merge_ranges(map[idx - 1 - 1], new[1]) =>
               can_merge_ranges(map[idx - 1 - 1], map[idx - 1])
          /\ can_merge_ranges(new[Len(new)], map[idx + 1 + 1]) =>
               can_merge_ranges(map[idx + 1], map[idx + 1 + 1])
      BY <1>4, <1>5, <1>6, <1>16, <2>1, <2>3, <2>4 DEF can_merge_ranges
    <2>9. KeepsCuts(map, idx - 1, idx + 1, new, mr)
      BY <1>2, <1>4, <1>5, <1>k, <1>16, <2>1, <2>3, <2>4, SMTT(30) DEF KeepsCuts
    <2>8. Splice(map, idx - 1, idx + 1, new, mr)
      BY <1>0, <1>2, <1>4, <1>5, <1>16, <2>1, <2>3, <2>4, <2>5, <2>6, <2>7, <2>9, SMTT(30)
         DEF Splice, Types
    <2> QED
      BY <2>2, <2>8
  <1>17. /\ left /\ right => allocate_out_of(map, idx, mr) = split_middle(map, idx, mr)
         /\ ~left /\ right => allocate_out_of(map, idx, mr) = split_left(map, idx, mr)
         /\ left /\ ~right => allocate_out_of(map, idx, mr) = split_right(map, idx, mr)
         /\ ~left /\ ~right => allocate_out_of(map, idx, mr) = take_whole(map, idx, mr)
    BY DEF allocate_out_of
  <1>18. \A lo, hi, new : Splice(map, lo, hi, new, mr) =>
           lo \in 1 .. Len(map) /\ hi \in 1 .. Len(map)
    BY DEF Splice
  <1> HIDE DEF left, right, cur
  <1> QED
    BY <1>8, <1>9, <1>10, <1>11, <1>12, <1>13, <1>14, <1>15, <1>16, <1>17, <1>18, Zenon

(***************************************************************************)
(* Such a replacement changes the type of the pages of mr, and of no       *)
(* other, ...                                                              *)
(***************************************************************************)
LEMMA SplicePages ==
    ASSUME NEW map, IsMemoryMap(map), NEW mr \in Ranges,
           NEW lo \in 1 .. Len(map), NEW hi \in 1 .. Len(map), NEW new,
           Splice(map, lo, hi, new, mr),
           NEW p \in Nat, NEW t \in {MEMORY_FREE, MEMORY_ALLOCATED}
    PROVE  TypeAt(Replace(map, lo, hi, new), p, t) <=>
             IF Covers(mr, p) THEN t = mr.type ELSE TypeAt(map, p, t)
  <1> DEFINE r   == Replace(map, lo, hi, new)
             cut == hi - lo + 1
             n   == Len(map) - cut + Len(new)
  <1>1. /\ lo <= hi /\ IsMemoryMap(new) /\ Len(new) \in 1 .. 3 /\ Len(new) > 0
        /\ map[lo].physical_address = new[1].physical_address
        /\ mr_end(new[Len(new)]) = mr_end(map[hi])
        /\ map[lo].physical_address <= mr.physical_address
        /\ mr_end(mr) <= mr_end(map[hi])
        /\ TypeAt(new, p, t) <=>
             IF Covers(mr, p) THEN t = mr.type
             ELSE \E k \in lo .. hi : map[k].type = t /\ Covers(map[k], p)
    BY SMTT(30) DEF Splice
  <1>2. /\ Len(map) \in Nat /\ Len(new) \in Nat /\ DOMAIN map = 1 .. Len(map)
        /\ DOMAIN new = 1 .. Len(new) /\ lo \in Nat /\ hi \in Nat
    BY <1>1, MapFacts
  <1>3. /\ \A x \in 1 .. Len(map) : /\ map[x].physical_address \in Nat
                                   /\ mr_end(map[x]) \in Nat
                                   /\ map[x].physical_address <= mr_end(map[x])
        /\ \A x, y \in 1 .. Len(map) :
              x < y => mr_end(map[x]) <= map[y].physical_address
    BY OrderFacts, Zenon
  <1>4. mr.physical_address \in Nat /\ mr_end(mr) \in Nat
    BY RangeFacts
  <1>5. DOMAIN r = 1 .. n /\ n \in Nat
    BY <1>1, <1>2 DEF Replace
  <1>6. Placed(map, lo, hi, new, r)
    BY <1>1, <1>2, ReplaceEntries
  <1> HIDE DEF r
  \* A range of the result is one that stays, outside lo .. hi, or a new one.
  <1>7. TypeAt(r, p, t) <=>
          \/ \E k \in 1 .. Len(map) : (k < lo \/ k > hi) /\ map[k].type = t /\ Covers(map[k], p)
          \/ TypeAt(new, p, t)
    <2>1. ASSUME NEW i \in 1 .. n, r[i].type = t, Covers(r[i], p)
          PROVE  \/ \E k \in 1 .. Len(map) :
                      (k < lo \/ k > hi) /\ map[k].type = t /\ Covers(map[k], p)
                 \/ \E j \in 1 .. Len(new) : new[j].type = t /\ Covers(new[j], p)
      <3>1. CASE i < lo
        BY <1>6, <2>1, <3>1, Zenon DEF Placed
      <3>2. CASE i >= lo /\ i < lo + Len(new)
        BY <1>6, <2>1, <3>2, Zenon DEF Placed
      <3>3. CASE i >= lo + Len(new)
        <4>1. /\ i - Len(new) + cut \in (hi + 1) .. Len(map)
              /\ i - Len(new) + cut \in 1 .. Len(map)
              /\ r[i] = map[i - Len(new) + cut]
          BY <1>6, <2>1, <3>3, Zenon DEF Placed
        <4>2. i - Len(new) + cut > hi
          BY <1>2, <4>1
        <4> HIDE DEF cut
        <4> QED
          BY <2>1, <4>1, <4>2
      <3> QED
        BY <1>2, <3>1, <3>2, <3>3
    <2>2. ASSUME NEW k \in 1 .. Len(map), k < lo \/ k > hi, map[k].type = t, Covers(map[k], p)
          PROVE  \E i \in 1 .. n : r[i].type = t /\ Covers(r[i], p)
      BY <1>6, <2>2, Zenon DEF Placed
    <2>3. ASSUME NEW j \in 1 .. Len(new), new[j].type = t, Covers(new[j], p)
          PROVE  \E i \in 1 .. n : r[i].type = t /\ Covers(r[i], p)
      BY <1>6, <2>3, Zenon DEF Placed
    <2> HIDE DEF n
    <2> QED
      BY <1>2, <1>5, <2>1, <2>2, <2>3, Zenon DEF TypeAt
  <1>8. TypeAt(map, p, t) <=>
          \/ \E k \in 1 .. Len(map) : (k < lo \/ k > hi) /\ map[k].type = t /\ Covers(map[k], p)
          \/ \E k \in lo .. hi : map[k].type = t /\ Covers(map[k], p)
    <2>1. \A k : k \in 1 .. Len(map) <=> \/ k \in 1 .. Len(map) /\ (k < lo \/ k > hi)
                                        \/ k \in lo .. hi
      BY <1>1, <1>2
    <2> QED
      BY <1>2, <2>1, Zenon DEF TypeAt
  <1>9. ASSUME Covers(mr, p), NEW k \in 1 .. Len(map), k < lo \/ k > hi
        PROVE  ~Covers(map[k], p)
    <2>1. mr.physical_address <= p /\ p < mr_end(mr)
      BY <1>9 DEF Covers
    <2>2. CASE k < lo
      <3>1. mr_end(map[k]) <= map[lo].physical_address
        BY <1>3, <2>2, Zenon
      <3>2. mr_end(map[k]) \in Nat /\ map[lo].physical_address \in Nat
        BY <1>3, Zenon
      <3> QED
        BY <1>1, <1>4, <2>1, <3>1, <3>2, SMTT(30) DEF Covers
    <2>3. CASE k > hi
      <3>1. mr_end(map[hi]) <= map[k].physical_address
        BY <1>2, <1>3, <2>3
      <3>2. mr_end(map[hi]) \in Nat /\ map[k].physical_address \in Nat
        BY <1>3, Zenon
      <3> QED
        BY <1>1, <1>4, <2>1, <3>1, <3>2 DEF Covers
    <2> QED
      BY <1>9, <2>2, <2>3
  <1>10. CASE Covers(mr, p)
    BY <1>1, <1>7, <1>9, <1>10, Zenon DEF r
  <1>11. CASE ~Covers(mr, p)
    BY <1>1, <1>7, <1>8, <1>11, Zenon DEF r
  <1> QED
    BY <1>10, <1>11

(***************************************************************************)
(* ... and leaves no seam where there was none.                            *)
(***************************************************************************)
LEMMA SpliceSeams ==
    ASSUME NEW map, IsMemoryMap(map), NEW mr \in Ranges,
           NEW lo \in 1 .. Len(map), NEW hi \in 1 .. Len(map), NEW new,
           Splice(map, lo, hi, new, mr),
           NEW b, SeamAt(Replace(map, lo, hi, new), b)
    PROVE  SeamAt(map, b)
  <1> DEFINE r   == Replace(map, lo, hi, new)
             cut == hi - lo + 1
             n   == Len(map) - cut + Len(new)
             up(k) == k - Len(new) + cut
  <1>1. /\ lo <= hi /\ IsMemoryMap(new) /\ Len(new) \in 1 .. 3
        /\ map[lo].physical_address = new[1].physical_address
        /\ \A i \in 1 .. Len(new) : ~Mergeable(new, i)
        /\ lo > 1 /\ can_merge_ranges(map[lo - 1], new[1]) =>
             can_merge_ranges(map[lo - 1], map[lo])
        /\ hi < Len(map) /\ can_merge_ranges(new[Len(new)], map[hi + 1]) =>
             can_merge_ranges(map[hi], map[hi + 1])
    BY DEF Splice
  <1>2. /\ Len(map) \in Nat /\ Len(new) \in Nat /\ DOMAIN map = 1 .. Len(map)
        /\ lo \in Nat /\ hi \in Nat /\ Len(new) >= 1 /\ lo <= hi
    BY <1>1, MapFacts, SMTT(30)
  <1>3. DOMAIN r = 1 .. n /\ n \in Nat /\ Len(r) = n
    BY <1>1, <1>2 DEF Replace
  <1>4. Placed(map, lo, hi, new, r)
    BY <1>1, <1>2, ReplaceEntries
  <1> HIDE DEF r
  <1>5. PICK i \in 1 .. n : Mergeable(r, i) /\ r[i + 1].physical_address = b
    BY <1>3 DEF SeamAt, r
  <1>6. /\ i \in 1 .. n /\ i + 1 \in 1 .. n /\ i \in Nat
        /\ can_merge_ranges(r[i], r[i + 1])
    BY <1>3, <1>5 DEF Mergeable
  <1>7. ASSUME NEW k \in 1 .. Len(map), k + 1 \in 1 .. Len(map),
               can_merge_ranges(map[k], map[k + 1]), map[k + 1].physical_address = b
        PROVE  SeamAt(map, b)
    <2>1. k \in 1 .. (Len(map) - 1)
      BY <1>2, <1>7
    <2>2. Mergeable(map, k)
      BY <1>7, <2>1, Zenon DEF Mergeable
    <2> QED
      BY <1>2, <1>7, <2>2, Zenon DEF SeamAt
  <1>8. CASE i + 1 < lo
    <2>1. i < lo
      BY <1>2, <1>6, <1>8
    <2>2. /\ i \in 1 .. Len(map) /\ r[i] = map[i]
          /\ i + 1 \in 1 .. Len(map) /\ r[i + 1] = map[i + 1]
      BY <1>4, <1>6, <1>8, <2>1, Zenon DEF Placed
    <2> QED
      BY <1>5, <1>6, <1>7, <2>2
  <1>9. CASE i + 1 = lo
    <2>0. i < lo /\ i + 1 >= lo /\ i + 1 < lo + Len(new)
      BY <1>2, <1>6, <1>9
    <2>1. i + 1 - lo + 1 = 1 /\ lo > 1 /\ i = lo - 1
      BY <1>2, <1>6, <1>9
    <2>2. i \in 1 .. Len(map) /\ r[i] = map[i] /\ r[i + 1] = new[i + 1 - lo + 1]
      <3> DEFINE j == i + 1
      <3>1. j \in 1 .. n /\ j >= lo /\ j < lo + Len(new)
        BY <1>6, <2>0
      <3> HIDE DEF j
      <3>2. r[j] = new[j - lo + 1]
        BY <1>4, <3>1, Zenon DEF Placed
      <3>3. i \in 1 .. Len(map) /\ r[i] = map[i]
        BY <1>4, <1>6, <2>0, Zenon DEF Placed
      <3> QED
        BY <3>2, <3>3 DEF j
    <2>3. can_merge_ranges(map[lo - 1], new[1])
      BY <1>6, <2>1, <2>2
    <2>4. can_merge_ranges(map[i], map[i + 1]) /\ i + 1 \in 1 .. Len(map)
      BY <1>1, <1>9, <2>1, <2>3
    <2>5. map[i + 1].physical_address = b
      BY <1>1, <1>5, <1>9, <2>1, <2>2
    <2> QED
      BY <1>7, <2>2, <2>4, <2>5
  <1>10. CASE i >= lo /\ i + 1 < lo + Len(new)
    <2>0. i + 1 >= lo /\ i < lo + Len(new)
      BY <1>2, <1>6, <1>10
    <2>1. i + 1 - lo + 1 = (i - lo + 1) + 1
      BY <1>2, <1>6, <1>10
    <2>2. /\ i - lo + 1 \in 1 .. Len(new) /\ r[i] = new[i - lo + 1]
          /\ i + 1 - lo + 1 \in 1 .. Len(new) /\ r[i + 1] = new[i + 1 - lo + 1]
      <3> DEFINE j == i + 1
      <3>1. j \in 1 .. n /\ j >= lo /\ j < lo + Len(new)
        BY <1>6, <1>10, <2>0
      <3> HIDE DEF j
      <3>2. j - lo + 1 \in 1 .. Len(new) /\ r[j] = new[j - lo + 1]
        BY <1>4, <3>1, Zenon DEF Placed
      <3>3. i - lo + 1 \in 1 .. Len(new) /\ r[i] = new[i - lo + 1]
        BY <1>4, <1>6, <1>10, <2>0, Zenon DEF Placed
      <3> QED
        BY <3>2, <3>3, SMTT(30) DEF j
    <2>3. i - lo + 1 \in 1 .. (Len(new) - 1)
      BY <1>2, <1>6, <2>2
    <2>4. Mergeable(new, i - lo + 1)
      BY <1>6, <2>1, <2>2, <2>3 DEF Mergeable
    <2> QED
      BY <1>1, <2>2, <2>4
  <1>11. CASE i >= lo /\ i + 1 = lo + Len(new)
    <2>0. i >= lo /\ i < lo + Len(new) /\ i + 1 >= lo + Len(new)
      BY <1>2, <1>6, <1>11
    <2>1. i - lo + 1 = Len(new) /\ up(i + 1) = hi + 1
      BY <1>2, <1>6, <1>11
    <2>2. /\ r[i] = new[i - lo + 1]
          /\ up(i + 1) \in 1 .. Len(map) /\ r[i + 1] = map[up(i + 1)]
      BY <1>4, <1>6, <2>0, Zenon DEF Placed
    <2>3. hi + 1 \in 1 .. Len(map) /\ r[i + 1] = map[hi + 1] /\ r[i] = new[Len(new)]
      BY <2>1, <2>2
    <2>4. hi < Len(map)
      BY <1>2, <2>3
    <2>5. can_merge_ranges(map[hi], map[hi + 1])
      BY <1>1, <1>6, <2>3, <2>4
    <2> QED
      BY <1>5, <1>7, <2>3, <2>5
  <1>12. CASE i >= lo + Len(new)
    <2>0. i + 1 >= lo + Len(new)
      BY <1>2, <1>6, <1>12
    <2>1. up(i + 1) = up(i) + 1
      BY <1>2, <1>6, <1>12
    <2>2. /\ up(i) \in 1 .. Len(map) /\ r[i] = map[up(i)]
          /\ up(i + 1) \in 1 .. Len(map) /\ r[i + 1] = map[up(i + 1)]
      BY <1>4, <1>6, <1>12, <2>0, Zenon DEF Placed
    <2> HIDE DEF up
    <2> QED
      BY <1>5, <1>6, <1>7, <2>1, <2>2
  <1> QED
    BY <1>2, <1>6, <1>8, <1>9, <1>10, <1>11, <1>12

\* The map has an empty range at b.
CutAt(m, b) ==
    \E i \in DOMAIN m : /\ m[i].physical_address = b
                        /\ m[i].physical_address = mr_end(m[i])

LEMMA CutsOfCutAt ==
    ASSUME NEW m, IsMemoryMap(m)
    PROVE  \A b : b \in CutsOf(m) <=> CutAt(m, b)
  <1>1. \A i \in DOMAIN m : m[i].size = 0 <=> m[i].physical_address = mr_end(m[i])
    BY MapFacts
  <1>2. \A b : b \in CutsOf(m) <=>
                 \E i \in DOMAIN m : m[i].size = 0 /\ m[i].physical_address = b
    BY DEF CutsOf
  <1> QED
    BY <1>1, <1>2, Zenon DEF CutAt

(***************************************************************************)
(* Cuts come and go only where a free of no pages, or one that ends at a   *)
(* cut, makes or merges them.                                              *)
(***************************************************************************)
LEMMA SpliceCuts ==
    ASSUME NEW map, IsMemoryMap(map), NEW mr \in Ranges,
           NEW lo \in 1 .. Len(map), NEW hi \in 1 .. Len(map), NEW new,
           Splice(map, lo, hi, new, mr), NEW b
    PROVE  /\ CutAt(map, b) =>
                \/ CutAt(Replace(map, lo, hi, new), b)
                \/ mr.type = MEMORY_FREE /\ b \in {mr.physical_address, mr_end(mr)}
           /\ CutAt(Replace(map, lo, hi, new), b) =>
                \/ CutAt(map, b)
                \/ /\ mr.type = MEMORY_FREE /\ mr.physical_address = mr_end(mr)
                   /\ b = mr.physical_address
  <1> DEFINE r   == Replace(map, lo, hi, new)
             cut == hi - lo + 1
             n   == Len(map) - cut + Len(new)
             CutEntry(x) == x.physical_address = b /\ x.physical_address = mr_end(x)
  <1>1. lo <= hi /\ IsMemoryMap(new) /\ Len(new) \in 1 .. 3
    BY DEF Splice
  <1>c. /\ \A k \in lo .. hi :
             map[k].physical_address = mr_end(map[k]) =>
                /\ mr.type = MEMORY_FREE
                /\ map[k].physical_address \in {mr.physical_address, mr_end(mr)}
        /\ \A j \in 1 .. Len(new) :
             new[j].physical_address = mr_end(new[j]) =>
                /\ mr.type = MEMORY_FREE /\ mr.physical_address = mr_end(mr)
                /\ new[j].physical_address = mr.physical_address
    BY DEF Splice, KeepsCuts
  <1>2. /\ Len(map) \in Nat /\ Len(new) \in Nat /\ DOMAIN map = 1 .. Len(map)
        /\ lo \in Nat /\ hi \in Nat /\ Len(new) >= 1
    <2>1. Len(new) \in Nat /\ Len(new) >= 1
      BY <1>1
    <2>2. Len(map) \in Nat /\ DOMAIN map = 1 .. Len(map)
      BY MapFacts
    <2> QED
      BY <2>1, <2>2
  <1>3. DOMAIN r = 1 .. n /\ n \in Nat
    BY <1>1, <1>2 DEF Replace
  <1>4. Placed(map, lo, hi, new, r)
    BY <1>1, <1>2, ReplaceEntries
  <1> HIDE DEF r
  <1>5. ASSUME NEW k \in 1 .. Len(map), CutEntry(map[k])
        PROVE  \/ \E i \in 1 .. n : CutEntry(r[i])
               \/ mr.type = MEMORY_FREE /\ b \in {mr.physical_address, mr_end(mr)}
    <2>1. CASE k \in lo .. hi
      BY <1>c, <1>5, <2>1
    <2>2. CASE k < lo \/ k > hi
      <3> HIDE DEF CutEntry
      <3> QED
        BY <1>4, <1>5, <2>2, Zenon DEF Placed
    <2>3. k \in lo .. hi \/ k < lo \/ k > hi
      BY <1>2
    <2> QED
      BY <2>1, <2>2, <2>3
  <1>6. ASSUME NEW i \in 1 .. n, CutEntry(r[i])
        PROVE  \/ \E k \in 1 .. Len(map) : CutEntry(map[k])
               \/ /\ mr.type = MEMORY_FREE /\ mr.physical_address = mr_end(mr)
                  /\ b = mr.physical_address
    <2>1. CASE i < lo \/ i >= lo + Len(new)
      <3> HIDE DEF CutEntry
      <3> QED
        BY <1>4, <1>6, <2>1, Zenon DEF Placed
    <2>2. CASE i >= lo /\ i < lo + Len(new)
      <3>1. i - lo + 1 \in 1 .. Len(new) /\ r[i] = new[i - lo + 1]
        BY <1>4, <2>2, Zenon DEF Placed
      <3> QED
        BY <1>c, <1>6, <3>1
    <2> QED
      BY <1>2, <1>3, <2>1, <2>2
  <1> HIDE DEF n
  <1> QED
    BY <1>2, <1>3, <1>5, <1>6, Zenon DEF CutAt, r

\* Up to three entries in the place of at least one.
LEMMA AtMostTwoMore ==
    \A n \in Nat : \A lo, hi \in 1 .. n, k \in 1 .. 3 :
        lo <= hi => n - (hi - lo + 1) + k <= n + 2
  OBVIOUS

(***************************************************************************)
(* Every case of allocate_out_of takes a map to a map, adds at most two    *)
(* entries and reaches no further than before.                             *)
(***************************************************************************)
LEMMA AllocateOutOfFacts ==
    ASSUME NEW map, IsMemoryMap(map), NEW idx \in 1 .. Len(map),
           NEW mr \in Ranges, may_allocate_out_of(map[idx], mr)
    PROVE  /\ IsMemoryMap(allocate_out_of(map, idx, mr))
           /\ Len(allocate_out_of(map, idx, mr)) <= Len(map) + 2
           /\ \A b \in Nat :
                Below(map, b) => Below(allocate_out_of(map, idx, mr), b)
           /\ \A b \in Nat :
                Above(map, b) => Above(allocate_out_of(map, idx, mr), b)
  <1> DEFINE r == allocate_out_of(map, idx, mr)
  <1>0. PICK lo \in 1 .. Len(map), hi \in 1 .. Len(map) : \E new :
               r = Replace(map, lo, hi, new) /\ Splice(map, lo, hi, new, mr)
    BY AllocateOutOfSplices
  <1>1. PICK new : r = Replace(map, lo, hi, new) /\ Splice(map, lo, hi, new, mr)
    BY <1>0
  <1> HIDE DEF r
  <1>2. /\ lo <= hi /\ IsMemoryMap(new) /\ Len(new) \in 1 .. 3
        /\ new[1].physical_address = map[lo].physical_address
        /\ mr_end(new[Len(new)]) = mr_end(map[hi])
    BY <1>1 DEF Splice
  <1>3. map[lo].physical_address \in Nat /\ mr_end(map[hi]) \in Nat /\ Len(map) \in Nat
    BY MapFacts
  <1>4. /\ Len(new) > 0 /\ map[lo].physical_address <= new[1].physical_address
        /\ mr_end(new[Len(new)]) <= mr_end(map[hi])
    BY <1>2, <1>3
  <1>5. /\ IsMemoryMap(r)
        /\ Len(r) = Len(map) - (hi - lo + 1) + Len(new)
        /\ \A b \in Nat : Below(map, b) => Below(r, b)
        /\ \A b \in Nat : Above(map, b) => Above(r, b)
    <2>1. /\ IsMemoryMap(Replace(map, lo, hi, new))
          /\ Len(Replace(map, lo, hi, new)) = Len(map) - (hi - lo + 1) + Len(new)
          /\ \A b \in Nat : Below(map, b) => Below(Replace(map, lo, hi, new), b)
          /\ \A b \in Nat : Above(map, b) => Above(Replace(map, lo, hi, new), b)
      BY <1>2, <1>4, ReplaceFacts, Zenon
    <2> QED
      BY <1>1, <2>1, Zenon
  <1>6. Len(r) <= Len(map) + 2
    BY <1>2, <1>3, <1>5, AtMostTwoMore, Zenon
  <1> QED
    BY <1>5, <1>6 DEF r

(***************************************************************************)
(* What allocate_out_of does to the pages: those of mr get its type, all   *)
(* others keep theirs, and two neighbours that could be one range were     *)
(* there before.                                                           *)
(***************************************************************************)
LEMMA AllocateOutOfPages ==
    ASSUME NEW map, IsMemoryMap(map), NEW idx \in 1 .. Len(map),
           NEW mr \in Ranges, may_allocate_out_of(map[idx], mr)
    PROVE  /\ \A p \in Nat, t \in {MEMORY_FREE, MEMORY_ALLOCATED} :
                TypeAt(allocate_out_of(map, idx, mr), p, t) <=>
                  IF Covers(mr, p) THEN t = mr.type ELSE TypeAt(map, p, t)
           /\ \A b : SeamAt(allocate_out_of(map, idx, mr), b) => SeamAt(map, b)
  <1> DEFINE r == allocate_out_of(map, idx, mr)
  <1>0. PICK lo \in 1 .. Len(map), hi \in 1 .. Len(map) : \E new :
               r = Replace(map, lo, hi, new) /\ Splice(map, lo, hi, new, mr)
    BY AllocateOutOfSplices
  <1>1. PICK new : r = Replace(map, lo, hi, new) /\ Splice(map, lo, hi, new, mr)
    BY <1>0
  <1> HIDE DEF r
  <1>2. ASSUME NEW p \in Nat, NEW t \in {MEMORY_FREE, MEMORY_ALLOCATED}
        PROVE  TypeAt(r, p, t) <=>
                 IF Covers(mr, p) THEN t = mr.type ELSE TypeAt(map, p, t)
    BY <1>1, SplicePages
  <1>3. ASSUME NEW b, SeamAt(r, b) PROVE SeamAt(map, b)
    BY <1>1, <1>3, SpliceSeams
  <1> QED
    BY <1>2, <1>3 DEF r

(***************************************************************************)
(* An allocation keeps the cuts.  A free keeps those that it does not      *)
(* border on, and makes one only if it is of no pages.                     *)
(***************************************************************************)
LEMMA AllocateOutOfCuts ==
    ASSUME NEW map, IsMemoryMap(map), NEW idx \in 1 .. Len(map),
           NEW mr \in Ranges, may_allocate_out_of(map[idx], mr)
    PROVE  LET r == allocate_out_of(map, idx, mr)
           IN  /\ mr.type = MEMORY_ALLOCATED => CutsOf(r) = CutsOf(map)
               /\ CutsOf(map) \ {mr.physical_address, mr_end(mr)} \subseteq CutsOf(r)
               /\ CutsOf(r) \subseteq IF mr.size = 0
                                      THEN CutsOf(map) \cup {mr.physical_address}
                                      ELSE CutsOf(map)
  <1> DEFINE r == allocate_out_of(map, idx, mr)
  <1>0. PICK lo \in 1 .. Len(map), hi \in 1 .. Len(map) : \E new :
               r = Replace(map, lo, hi, new) /\ Splice(map, lo, hi, new, mr)
    BY AllocateOutOfSplices
  <1>1. PICK new : r = Replace(map, lo, hi, new) /\ Splice(map, lo, hi, new, mr)
    BY <1>0
  <1>2. IsMemoryMap(r)
    BY AllocateOutOfFacts
  <1> HIDE DEF r
  <1>3. ASSUME NEW b
        PROVE  /\ CutAt(map, b) =>
                    \/ CutAt(r, b)
                    \/ mr.type = MEMORY_FREE /\ b \in {mr.physical_address, mr_end(mr)}
               /\ CutAt(r, b) =>
                    \/ CutAt(map, b)
                    \/ /\ mr.type = MEMORY_FREE /\ mr.physical_address = mr_end(mr)
                       /\ b = mr.physical_address
    BY <1>1, SpliceCuts
  <1>4. ASSUME NEW b
        PROVE  /\ b \in CutsOf(map) <=> CutAt(map, b)
               /\ b \in CutsOf(r) <=> CutAt(r, b)
    BY <1>2, CutsOfCutAt, Zenon
  <1>5. mr.physical_address = mr_end(mr) => mr.size = 0
    BY RangeFacts
  <1>6. MEMORY_ALLOCATED # MEMORY_FREE
    BY DEF MEMORY_ALLOCATED, MEMORY_FREE
  <1>7. mr.type = MEMORY_ALLOCATED => CutsOf(r) = CutsOf(map)
    BY <1>3, <1>4, <1>6, Zenon
  <1>8. CutsOf(map) \ {mr.physical_address, mr_end(mr)} \subseteq CutsOf(r)
    BY <1>3, <1>4, Zenon
  <1>9. CutsOf(r) \subseteq IF mr.size = 0 THEN CutsOf(map) \cup {mr.physical_address}
                           ELSE CutsOf(map)
    BY <1>3, <1>4, <1>5
  <1> QED
    BY <1>7, <1>8, <1>9 DEF r

-----------------------------------------------------------------------------
(***************************************************************************)
(* The same, said of the sets of pages that the properties are about.      *)
(***************************************************************************)
LEMMA PagesOfRange ==
    ASSUME NEW mr \in Ranges
    PROVE  /\ PagesOf(mr) \subseteq Nat
           /\ \A p : p \in PagesOf(mr) <=> p \in Nat /\ Covers(mr, p)
  BY RangeFacts DEF PagesOf, Run, Covers

LEMMA PagesOfTypeAt ==
    ASSUME NEW m, IsMemoryMap(m), NEW t
    PROVE  /\ PagesOfType(m, t) \subseteq Nat
           /\ \A p : p \in PagesOfType(m, t) <=> p \in Nat /\ TypeAt(m, p, t)
  <1>1. \A i \in DOMAIN m : m[i] \in Ranges
    BY DEF IsMemoryMap
  <1>2. \A i \in DOMAIN m : \A p : p \in PagesOf(m[i]) <=> p \in Nat /\ Covers(m[i], p)
    BY <1>1, PagesOfRange
  <1>3. \A p : p \in PagesOfType(m, t) <=>
                 \E i \in DOMAIN m : m[i].type = t /\ p \in PagesOf(m[i])
    BY DEF PagesOfType
  <1>4. \A p : p \in PagesOfType(m, t) <=> p \in Nat /\ TypeAt(m, p, t)
    BY <1>2, <1>3, Zenon DEF TypeAt
  <1> QED
    BY <1>4

\* At most one range of a map covers a page.
LEMMA OneCover ==
    ASSUME NEW m, IsMemoryMap(m), NEW i \in DOMAIN m, NEW j \in DOMAIN m,
           NEW p \in Nat, Covers(m[i], p), Covers(m[j], p)
    PROVE  i = j
  <1>1. DOMAIN m = 1 .. Len(m) /\ Len(m) \in Nat
    BY MapFacts
  <1>2. /\ m[i].physical_address \in Nat /\ mr_end(m[i]) \in Nat
        /\ m[j].physical_address \in Nat /\ mr_end(m[j]) \in Nat
        /\ i < j => mr_end(m[i]) <= m[j].physical_address
        /\ j < i => mr_end(m[j]) <= m[i].physical_address
    BY <1>1, MapFacts
  <1>3. ~(i < j) /\ ~(j < i)
    BY <1>2 DEF Covers
  <1> QED
    BY <1>1, <1>3

\* No page has both types.
LEMMA TypesDisjoint ==
    ASSUME NEW m, IsMemoryMap(m)
    PROVE  PagesOfType(m, MEMORY_FREE) \cap PagesOfType(m, MEMORY_ALLOCATED) = {}
  <1> SUFFICES ASSUME NEW p \in Nat, TypeAt(m, p, MEMORY_FREE),
                      TypeAt(m, p, MEMORY_ALLOCATED)
               PROVE  FALSE
    BY PagesOfTypeAt
  <1>1. PICK i \in DOMAIN m : m[i].type = MEMORY_FREE /\ Covers(m[i], p)
    BY DEF TypeAt
  <1>2. PICK j \in DOMAIN m : m[j].type = MEMORY_ALLOCATED /\ Covers(m[j], p)
    BY DEF TypeAt
  <1>3. i = j
    BY <1>1, <1>2, OneCover
  <1> QED
    BY <1>1, <1>2, <1>3 DEF MEMORY_FREE, MEMORY_ALLOCATED

\* The pages a map that passes the BUG_ONs of allocate_out_of turns over.
LEMMA CarvedPages ==
    ASSUME NEW map, IsMemoryMap(map), NEW idx \in 1 .. Len(map),
           NEW mr \in Ranges, may_allocate_out_of(map[idx], mr),
           NEW t \in {MEMORY_FREE, MEMORY_ALLOCATED}, t # mr.type
    PROVE  LET r == allocate_out_of(map, idx, mr)
           IN  /\ PagesOf(mr) \subseteq PagesOfType(map, t)
               /\ PagesOfType(r, mr.type) = PagesOfType(map, mr.type) \cup PagesOf(mr)
               /\ PagesOfType(r, t) = PagesOfType(map, t) \ PagesOf(mr)
  <1> DEFINE r == allocate_out_of(map, idx, mr)
  <1>1. IsMemoryMap(r)
    BY AllocateOutOfFacts
  <1>2. \A p \in Nat, u \in {MEMORY_FREE, MEMORY_ALLOCATED} :
          TypeAt(r, p, u) <=> IF Covers(mr, p) THEN u = mr.type ELSE TypeAt(map, p, u)
    BY AllocateOutOfPages
  <1>3. idx \in DOMAIN map /\ map[idx] \in Ranges
    BY MapFacts DEF IsMemoryMap
  <1>4. /\ map[idx].type = t /\ mr.type \in {MEMORY_FREE, MEMORY_ALLOCATED}
        /\ map[idx].physical_address <= mr.physical_address
        /\ mr_end(mr) <= mr_end(map[idx])
    BY <1>3, RangeFacts DEF may_allocate_out_of
  <1>5. ASSUME NEW p \in Nat, Covers(mr, p) PROVE TypeAt(map, p, t)
    <2>1. Covers(map[idx], p)
      BY <1>3, <1>4, <1>5, RangeFacts DEF Covers
    <2> QED
      BY <1>3, <1>4, <2>1, Zenon DEF TypeAt
  <1> HIDE DEF r
  <1>6. ASSUME NEW p PROVE p \in PagesOf(mr) <=> p \in Nat /\ Covers(mr, p)
    BY PagesOfRange
  <1>7. ASSUME NEW p, NEW u
        PROVE  /\ p \in PagesOfType(map, u) <=> p \in Nat /\ TypeAt(map, p, u)
               /\ p \in PagesOfType(r, u) <=> p \in Nat /\ TypeAt(r, p, u)
    BY <1>1, PagesOfTypeAt
  <1>8. PagesOf(mr) \subseteq PagesOfType(map, t)
    BY <1>5, <1>6, <1>7
  <1>9. PagesOfType(r, mr.type) = PagesOfType(map, mr.type) \cup PagesOf(mr)
    <2> SUFFICES ASSUME NEW p
                 PROVE  p \in PagesOfType(r, mr.type) <=>
                          p \in PagesOfType(map, mr.type) \/ p \in PagesOf(mr)
      BY Zenon
    <2> QED
      BY <1>2, <1>4, <1>6, <1>7, Zenon
  <1>10. PagesOfType(r, t) = PagesOfType(map, t) \ PagesOf(mr)
    <2> SUFFICES ASSUME NEW p
                 PROVE  p \in PagesOfType(r, t) <=>
                          p \in PagesOfType(map, t) /\ p \notin PagesOf(mr)
      BY Zenon
    <2> QED
      BY <1>2, <1>6, <1>7, Zenon
  <1> QED
    BY <1>8, <1>9, <1>10 DEF r

\* All pages the map has an entry for.
Known(m) == PagesOfType(m, MEMORY_FREE) \cup PagesOfType(m, MEMORY_ALLOCATED)

LEMMA CarvedKnown ==
    ASSUME NEW map, IsMemoryMap(map), NEW idx \in 1 .. Len(map),
           NEW mr \in Ranges, may_allocate_out_of(map[idx], mr)
    PROVE  Known(allocate_out_of(map, idx, mr)) \subseteq Known(map)
  <1>1. mr.type = MEMORY_FREE \/ mr.type = MEMORY_ALLOCATED
    BY RangeFacts
  <1>2. MEMORY_FREE # MEMORY_ALLOCATED
    BY DEF MEMORY_FREE, MEMORY_ALLOCATED
  <1>3. CASE mr.type = MEMORY_FREE
    BY <1>2, <1>3, CarvedPages DEF Known
  <1>4. CASE mr.type = MEMORY_ALLOCATED
    BY <1>2, <1>4, CarvedPages DEF Known
  <1> QED
    BY <1>1, <1>3, <1>4

\* The n pages from a on are all in range i of the map, which has type t.
HoldsRun(m, i, t, a, n) ==
    m[i].type = t /\ m[i].physical_address <= a /\ a + n <= mr_end(m[i])

(***************************************************************************)
(* Pages of one type in a row are in one range of the map, unless there is *)
(* a seam between them or, if they are not free, a cut: an empty range     *)
(* behind a free one makes a seam.                                         *)
(***************************************************************************)
BreakAt(m, t, b) == SeamAt(m, b) \/ (t # MEMORY_FREE /\ b \in CutsOf(m))

LEMMA RunInOneRange ==
    ASSUME NEW m, IsMemoryMap(m), NEW t, NEW a \in Nat, NEW n \in Nat, n > 0,
           Run(a, n) \subseteq PagesOfType(m, t)
    PROVE  \/ \E b \in Run(a + 1, n - 1) : BreakAt(m, t, b)
           \/ \E i \in 1 .. Len(m) : HoldsRun(m, i, t, a, n)
  <1> SUFFICES ASSUME \A b \in Run(a + 1, n - 1) : ~BreakAt(m, t, b)
               PROVE  \E i \in 1 .. Len(m) : HoldsRun(m, i, t, a, n)
    OBVIOUS
  <1>1. DOMAIN m = 1 .. Len(m) /\ Len(m) \in Nat
    BY MapFacts
  <1>2. \A p \in Run(a, n) : p \in Nat /\ TypeAt(m, p, t)
    BY PagesOfTypeAt
  <1>3. a \in Run(a, n)
    BY DEF Run
  <1>4. PICK i \in 1 .. Len(m) : m[i].type = t /\ Covers(m[i], a)
    BY <1>1, <1>2, <1>3 DEF TypeAt
  <1>5. /\ m[i].physical_address \in Nat /\ mr_end(m[i]) \in Nat
        /\ m[i].physical_address <= a /\ a < mr_end(m[i])
    BY <1>4, MapFacts DEF Covers
  <1>6. ASSUME mr_end(m[i]) < a + n PROVE FALSE
    <2> DEFINE e == mr_end(m[i])
    <2>1. e \in Run(a, n) /\ e \in Run(a + 1, n - 1)
      BY <1>5, <1>6 DEF Run
    <2>2. PICK j \in 1 .. Len(m) : m[j].type = t /\ Covers(m[j], e)
      BY <1>1, <1>2, <2>1 DEF TypeAt
    <2>3. /\ m[j].physical_address \in Nat /\ mr_end(m[j]) \in Nat
          /\ m[j].physical_address <= e /\ e < mr_end(m[j])
      BY <2>2, MapFacts DEF Covers
    <2>4. j > i
      <3>1. j # i
        BY <1>5, <2>3
      <3>2. ~(j < i)
        <4>1. j < i => mr_end(m[j]) <= m[i].physical_address
          BY MapFacts
        <4> QED
          BY <1>5, <2>3, <4>1
      <3> QED
        BY <1>1, <3>1, <3>2
    <2>5. m[j].physical_address = e
      <3>1. mr_end(m[i]) <= m[j].physical_address
        BY <2>4, MapFacts
      <3> QED
        BY <1>5, <2>3, <3>1
    <2>6. /\ i + 1 \in 1 .. Len(m) /\ i \in 1 .. (Len(m) - 1)
          /\ j = i + 1 \/ i + 1 < j
      BY <1>1, <2>4
    <2>7. m[i + 1].physical_address = e
      <3>1. mr_end(m[i]) <= m[i + 1].physical_address
        BY <1>1, <2>6, MapFacts
      <3>2. i + 1 < j => mr_end(m[i + 1]) <= m[j].physical_address
        BY <2>6, MapFacts
      <3>3. /\ m[i + 1].physical_address \in Nat /\ mr_end(m[i + 1]) \in Nat
            /\ m[i + 1].physical_address <= mr_end(m[i + 1])
        BY <2>6, OrderFacts
      <3> HIDE DEF e
      <3>4. e \in Nat /\ e <= m[i + 1].physical_address
        BY <1>5, <3>1 DEF e
      <3> QED
        BY <2>5, <2>6, <3>2, <3>3, <3>4
    <2>8. CASE m[i + 1].type = t
      <3>1. can_merge_ranges(m[i], m[i + 1])
        BY <1>4, <2>7, <2>8 DEF can_merge_ranges
      <3>2. SeamAt(m, e)
        BY <1>1, <2>6, <2>7, <3>1 DEF SeamAt, Mergeable
      <3> HIDE DEF e
      <3> QED
        BY <2>1, <3>2, Zenon DEF BreakAt
    <2>9. CASE m[i + 1].type # t
      <3>1. i + 1 < j
        BY <2>2, <2>6, <2>9
      <3>2. mr_end(m[i + 1]) <= m[j].physical_address
        BY <2>6, <3>1, MapFacts
      <3>3. /\ m[i + 1].physical_address \in Nat /\ m[i + 1].size \in Nat
            /\ mr_end(m[i + 1]) = m[i + 1].physical_address + m[i + 1].size
        BY <2>6, MapFacts
      <3>4. m[i + 1].size = 0
        BY <2>5, <2>7, <3>2, <3>3
      <3>5. e \in CutsOf(m)
        BY <1>1, <2>6, <2>7, <3>4 DEF CutsOf
      <3>6. m[i + 1] \in Ranges
        BY <1>1, <2>6 DEF IsMemoryMap
      <3>7. m[i + 1].type = MEMORY_FREE
        BY <3>4, <3>6, RangeFacts
      <3> HIDE DEF e
      <3> QED
        BY <2>1, <2>9, <3>5, <3>7, Zenon DEF BreakAt
    <2> QED
      BY <2>8, <2>9
  <1>7. HoldsRun(m, i, t, a, n)
    BY <1>4, <1>5, <1>6 DEF HoldsRun
  <1> QED
    BY <1>7

\* What an entry appended to the map adds to its pages and its seams.
LEMMA AppendPages ==
    ASSUME NEW m, IsMemoryMap(m), NEW mr \in Ranges, IsMemoryMap(Append(m, mr)), NEW t
    PROVE  /\ PagesOfType(Append(m, mr), t) =
                PagesOfType(m, t) \cup (IF mr.type = t THEN PagesOf(mr) ELSE {})
           /\ \A b : SeamAt(Append(m, mr), b) =>
                \/ SeamAt(m, b)
                \/ /\ Len(m) > 0 /\ can_merge_ranges(m[Len(m)], mr)
                   /\ b = mr.physical_address
  <1> DEFINE r == Append(m, mr)
             L == Len(m)
  <1>1. L \in Nat /\ DOMAIN m = 1 .. L /\ m \in Seq(Ranges)
    BY MapFacts DEF IsMemoryMap
  <1>2. /\ DOMAIN r = 1 .. (L + 1) /\ Len(r) = L + 1 /\ r[L + 1] = mr
        /\ \A i \in 1 .. L : r[i] = m[i]
    BY <1>1
  <1>3. IsMemoryMap(r)
    OBVIOUS
  <1> HIDE DEF r, L
  <1>4. ASSUME NEW p
        PROVE  TypeAt(r, p, t) <=> TypeAt(m, p, t) \/ (mr.type = t /\ Covers(mr, p))
    <2>1. \A i : i \in 1 .. (L + 1) <=> i \in 1 .. L \/ i = L + 1
      BY <1>1
    <2> QED
      BY <1>1, <1>2, <2>1, Zenon DEF TypeAt
  <1>5. PagesOfType(r, t) = PagesOfType(m, t) \cup (IF mr.type = t THEN PagesOf(mr) ELSE {})
    <2>1. ASSUME NEW p PROVE p \in PagesOf(mr) <=> p \in Nat /\ Covers(mr, p)
      BY PagesOfRange
    <2>2. ASSUME NEW p
          PROVE  /\ p \in PagesOfType(m, t) <=> p \in Nat /\ TypeAt(m, p, t)
                 /\ p \in PagesOfType(r, t) <=> p \in Nat /\ TypeAt(r, p, t)
      BY <1>3, PagesOfTypeAt
    <2>3. ASSUME NEW p
          PROVE  p \in PagesOfType(r, t) <=>
                   \/ p \in PagesOfType(m, t)
                   \/ p \in (IF mr.type = t THEN PagesOf(mr) ELSE {})
      BY <1>4, <2>1, <2>2
    <2> QED
      BY <2>3, Zenon
  <1>6. ASSUME NEW b, SeamAt(r, b)
        PROVE  \/ SeamAt(m, b)
               \/ L > 0 /\ can_merge_ranges(m[L], mr) /\ b = mr.physical_address
    <2>1. PICK i \in 1 .. (L + 1) : Mergeable(r, i) /\ r[i + 1].physical_address = b
      BY <1>2, <1>6 DEF SeamAt
    <2>2. i \in 1 .. L /\ can_merge_ranges(r[i], r[i + 1]) /\ r[i] = m[i]
      BY <1>1, <1>2, <2>1 DEF Mergeable
    <2>3. CASE i = L
      BY <1>1, <1>2, <2>1, <2>2, <2>3
    <2>4. CASE i # L
      <3>1. i \in 1 .. (L - 1) /\ i + 1 \in 1 .. L
        BY <1>1, <2>2, <2>4
      <3>2. r[i + 1] = m[i + 1]
        BY <1>2, <3>1
      <3>3. Mergeable(m, i) /\ m[i + 1].physical_address = b
        BY <2>1, <2>2, <3>1, <3>2 DEF Mergeable, L
      <3> QED
        BY <1>1, <2>2, <3>3 DEF SeamAt
    <2> QED
      BY <2>3, <2>4
  <1> QED
    BY <1>5, <1>6 DEF r, L

-----------------------------------------------------------------------------
(***************************************************************************)
(* The globals, and what a call makes of them.                             *)
(***************************************************************************)

Addresses == Nat \cup {ENOMEM}

States == [buffer : Nat \cup {ENOMEM, g_initial_buffer}, capacity : Nat,
           ranges : Seq(Ranges), bug : Bugs, ret : Addresses, ok : BOOLEAN]

\* The globals as the operators of BootAlloc take and return them.
Sound(s) == s \in States /\ Ordered(s.ranges)

\* The map of t has at most k entries more than that of s, no other pages and
\* no other seams.
Stays(s, t, k) ==
    /\ Len(t.ranges) <= Len(s.ranges) + k
    /\ Known(t.ranges) \subseteq Known(s.ranges)
    /\ \A b : SeamAt(t.ranges, b) => SeamAt(s.ranges, b)
    /\ \A b \in Nat : Below(s.ranges, b) => Below(t.ranges, b)
    /\ \A b \in Nat : Above(s.ranges, b) => Above(t.ranges, b)

\* t differs from s in the map, the panic and the value returned only.
SameBuffer(s, t) == t.buffer = s.buffer /\ t.capacity = s.capacity /\ t.ok = s.ok

HasRoom(s) == s.bug = "none" /\ Len(s.ranges) + WorstCaseGrowth <= s.capacity

LEMMA SoundFacts ==
    ASSUME NEW s, Sound(s)
    PROVE  /\ s.buffer \in Nat \cup {ENOMEM, g_initial_buffer}
           /\ s.capacity \in Nat
           /\ s.ranges \in Seq(Ranges) /\ IsMemoryMap(s.ranges)
           /\ Len(s.ranges) \in Nat
           /\ DOMAIN s.ranges = 1 .. Len(s.ranges)
           /\ s.bug \in Bugs /\ s.ret \in Addresses /\ s.ok \in BOOLEAN
           /\ Stays(s, s, 0)
  BY DEF Sound, States, IsMemoryMap, Stays

LEMMA BugFacts ==
    ASSUME NEW s, Sound(s), NEW b \in Bugs
    PROVE  /\ Sound([s EXCEPT !.bug = b])
           /\ SameBuffer(s, [s EXCEPT !.bug = b])
           /\ [s EXCEPT !.bug = b].ranges = s.ranges
           /\ [s EXCEPT !.bug = b].ret = s.ret
           /\ [s EXCEPT !.bug = b].bug = b
  BY DEF Sound, States, SameBuffer

LEMMA RetFacts ==
    ASSUME NEW s, Sound(s), NEW a \in Addresses
    PROVE  /\ Sound([s EXCEPT !.ret = a])
           /\ SameBuffer(s, [s EXCEPT !.ret = a])
           /\ [s EXCEPT !.ret = a].ranges = s.ranges
           /\ [s EXCEPT !.ret = a].bug = s.bug
           /\ [s EXCEPT !.ret = a].ret = a
  BY DEF Sound, States, SameBuffer

LEMMA RangesFacts ==
    ASSUME NEW s, Sound(s), NEW m, IsMemoryMap(m)
    PROVE  /\ Sound([s EXCEPT !.ranges = m])
           /\ SameBuffer(s, [s EXCEPT !.ranges = m])
           /\ [s EXCEPT !.ranges = m].ranges = m
           /\ [s EXCEPT !.ranges = m].bug = s.bug
           /\ [s EXCEPT !.ranges = m].ret = s.ret
  BY DEF Sound, States, SameBuffer, IsMemoryMap

-----------------------------------------------------------------------------
(***************************************************************************)
(* Carving a range out of the map keeps the globals sound, and does not    *)
(* run out of entries when there is room for two.                          *)
(***************************************************************************)
LEMMA CarveFacts ==
    ASSUME NEW s, Sound(s), NEW idx \in 1 .. Len(s.ranges), NEW mr \in Ranges
    PROVE  /\ Sound(carve(s, idx, mr))
           /\ Stays(s, carve(s, idx, mr), 2)
           /\ SameBuffer(s, carve(s, idx, mr))
           /\ HasRoom(s) => carve(s, idx, mr).bug # "range_emplace_at"
  <1> DEFINE map == allocate_out_of(s.ranges, idx, mr)
  <1>1. CASE ~may_allocate_out_of(s.ranges[idx], mr)
    <2>1. carve(s, idx, mr) = [s EXCEPT !.bug = "allocate_out_of"]
      BY <1>1 DEF carve
    <2>2. "allocate_out_of" \in Bugs /\ "allocate_out_of" # "range_emplace_at"
      BY DEF Bugs
    <2> QED
      BY <2>1, <2>2, BugFacts, SoundFacts DEF Stays
  <1>2. CASE may_allocate_out_of(s.ranges[idx], mr)
    <2>1. /\ IsMemoryMap(map)
          /\ Len(map) <= Len(s.ranges) + 2
          /\ \A b \in Nat : Below(s.ranges, b) => Below(map, b)
          /\ \A b \in Nat : Above(s.ranges, b) => Above(map, b)
      BY <1>2, SoundFacts, AllocateOutOfFacts
    <2>0. /\ Known(map) \subseteq Known(s.ranges)
          /\ \A b : SeamAt(map, b) => SeamAt(s.ranges, b)
      BY <1>2, SoundFacts, CarvedKnown, AllocateOutOfPages
    <2>2. Len(map) \in Nat
      BY <2>1, MapFacts
    <2>3. carve(s, idx, mr) = IF Len(map) > s.capacity
                              THEN [s EXCEPT !.bug = "range_emplace_at"]
                              ELSE [s EXCEPT !.ranges = map]
      BY <1>2 DEF carve
    <2> HIDE DEF map
    <2>4. CASE Len(map) > s.capacity
      <3>1. ~HasRoom(s)
        BY <2>1, <2>2, <2>4, SoundFacts DEF HasRoom, WorstCaseGrowth
      <3>2. "range_emplace_at" \in Bugs
        BY DEF Bugs
      <3>3. carve(s, idx, mr) = [s EXCEPT !.bug = "range_emplace_at"]
        BY <2>3, <2>4
      <3> QED
        BY <3>1, <3>2, <3>3, BugFacts, SoundFacts DEF Stays
    <2>5. CASE ~(Len(map) > s.capacity)
      <3>1. carve(s, idx, mr) = [s EXCEPT !.ranges = map]
        BY <2>3, <2>5
      <3>2. /\ Sound(carve(s, idx, mr))
            /\ SameBuffer(s, carve(s, idx, mr))
            /\ carve(s, idx, mr).ranges = map
            /\ carve(s, idx, mr).bug = s.bug
        BY <2>1, <3>1, RangesFacts
      <3>3. Stays(s, carve(s, idx, mr), 2)
        BY <2>0, <2>1, <3>2 DEF Stays
      <3>4. HasRoom(s) => carve(s, idx, mr).bug # "range_emplace_at"
        BY <3>2 DEF HasRoom
      <3> QED
        BY <3>2, <3>3, <3>4
    <2> QED
      BY <2>4, <2>5
  <1> QED
    BY <1>1, <1>2

\* find_range returns an index of the map, or 0.
LEMMA FindRangeIndex ==
    ASSUME NEW m, IsMemoryMap(m), NEW v, NEW allow,
           NEW x \in find_range(m, v, allow)
    PROVE  x \in 0 .. Len(m)
  <1>1. DOMAIN m = 1 .. Len(m) /\ Len(m) \in Nat
    BY MapFacts
  <1>2. x \in DOMAIN m \cup {0}
    BY DEF find_range, StartingAt, Covering, FirstsAbove
  <1> QED
    BY <1>1, <1>2

(***************************************************************************)
(* What both searches for memory do to the globals.  Where no range starts *)
(* at page 0, no allocation does either.                                   *)
(***************************************************************************)
Allocates(s, t) ==
    /\ Sound(t) /\ Stays(s, t, 2) /\ SameBuffer(s, t)
    /\ HasRoom(s) => t.bug # "range_emplace_at"

LEMMA CarveAllocates ==
    ASSUME NEW s, Sound(s), NEW idx \in 1 .. Len(s.ranges),
           NEW base \in Nat, NEW n \in Nat, n > 0
    PROVE  /\ Allocates(s, [carve(s, idx, MR(base, n, MEMORY_ALLOCATED))
                              EXCEPT !.ret = base])
           /\ [carve(s, idx, MR(base, n, MEMORY_ALLOCATED)) EXCEPT !.ret = base].ret
                = base
  <1> DEFINE mr == MR(base, n, MEMORY_ALLOCATED)
             c  == carve(s, idx, mr)
             t  == [c EXCEPT !.ret = base]
  <1>1. mr \in Ranges
    BY MRFacts
  <1>2. /\ Sound(c) /\ Stays(s, c, 2) /\ SameBuffer(s, c)
        /\ HasRoom(s) => c.bug # "range_emplace_at"
    BY <1>1, CarveFacts
  <1>3. base \in Addresses
    BY DEF Addresses
  <1> HIDE DEF c
  <1>4. /\ Sound(t) /\ SameBuffer(c, t) /\ t.ranges = c.ranges
        /\ t.bug = c.bug /\ t.ret = base
    BY <1>2, <1>3, RetFacts
  <1> HIDE DEF t
  <1>5. Allocates(s, t) /\ t.ret = base
    BY <1>2, <1>4 DEF Allocates, Stays, SameBuffer
  <1> QED
    BY <1>5 DEF t, c

LEMMA RefusalAllocates ==
    ASSUME NEW s, Sound(s)
    PROVE  /\ Allocates(s, [s EXCEPT !.bug = "invalid allocation"])
           /\ [s EXCEPT !.bug = "invalid allocation"].bug = "invalid allocation"
           /\ Allocates(s, [s EXCEPT !.ret = ENOMEM])
           /\ [s EXCEPT !.ret = ENOMEM].ret = ENOMEM
  <1>1. "invalid allocation" \in Bugs /\ ENOMEM \in Addresses
    BY DEF Bugs, Addresses
  <1>2. Len(s.ranges) \in Nat
    BY SoundFacts
  <1> DEFINE t == [s EXCEPT !.bug = "invalid allocation"]
             u == [s EXCEPT !.ret = ENOMEM]
  <1>3. /\ Sound(t) /\ SameBuffer(s, t) /\ t.ranges = s.ranges
        /\ t.bug = "invalid allocation"
    BY <1>1, BugFacts
  <1>4. /\ Sound(u) /\ SameBuffer(s, u) /\ u.ranges = s.ranges
        /\ u.bug = s.bug /\ u.ret = ENOMEM
    BY <1>1, RetFacts
  <1> HIDE DEF t, u
  <1>5. Allocates(s, t)
    <2>1. "invalid allocation" # "range_emplace_at"
      OBVIOUS
    <2>2. t.bug # "range_emplace_at"
      BY <1>3, <2>1
    <2>3. Len(s.ranges) <= Len(s.ranges) + 2
      BY <1>2
    <2>4. Stays(s, t, 2)
      BY <1>3, <2>3, Zenon DEF Stays
    <2> QED
      BY <1>3, <2>2, <2>4 DEF Allocates
  <1>6. Allocates(s, u)
    BY <1>2, <1>4 DEF Allocates, Stays, HasRoom
  <1> QED
    BY <1>3, <1>4, <1>5, <1>6 DEF t, u

\* t is s with n pages from base on carved out of the free range idx.
CarvesFree(s, t, n, idx, base) ==
    /\ s.ranges[idx].type = MEMORY_FREE
    /\ s.ranges[idx].physical_address <= base
    /\ base + n <= mr_end(s.ranges[idx])
    /\ t = [carve(s, idx, MR(base, n, MEMORY_ALLOCATED)) EXCEPT !.ret = base]

(***************************************************************************)
(* How a search for n pages in a row ends: a panic when none are asked     *)
(* for, a refusal, or pages out of a free range.                           *)
(***************************************************************************)
LEMMA TopDownCases ==
    ASSUME NEW s, Sound(s), NEW n \in Nat
    PROVE  LET t == allocate_top_down(s, n)
           IN  \/ n = 0 /\ t = [s EXCEPT !.bug = "invalid allocation"]
               \/ /\ n > 0 /\ t = [s EXCEPT !.ret = ENOMEM]
                  /\ \A i \in 1 .. Len(s.ranges) :
                       ~(s.ranges[i].type = MEMORY_FREE /\ s.ranges[i].size >= n)
               \/ n > 0 /\ \E idx \in 1 .. Len(s.ranges), base \in Nat :
                             CarvesFree(s, t, n, idx, base)
  <1> DEFINE fits == {i \in DOMAIN s.ranges : /\ s.ranges[i].type = MEMORY_FREE
                                              /\ s.ranges[i].size >= n}
             idx  == CHOOSE i \in fits : \A j \in fits : j <= i
             base == mr_end(s.ranges[idx]) - n
             t    == allocate_top_down(s, n)
  <1>1. t = IF n = 0 THEN [s EXCEPT !.bug = "invalid allocation"]
            ELSE IF fits = {} THEN [s EXCEPT !.ret = ENOMEM]
            ELSE [carve(s, idx, MR(base, n, MEMORY_ALLOCATED)) EXCEPT !.ret = base]
    BY DEF allocate_top_down
  <1>2. Len(s.ranges) \in Nat /\ DOMAIN s.ranges = 1 .. Len(s.ranges)
    BY SoundFacts
  <1>3. fits \subseteq 1 .. Len(s.ranges)
    BY <1>2
  <1> HIDE DEF t
  <1>4. CASE n = 0
    BY <1>1, <1>4 DEF t
  <1>5. CASE n # 0 /\ fits = {}
    <2>1. n > 0 /\ t = [s EXCEPT !.ret = ENOMEM]
      <3> HIDE DEF fits, idx, base
      <3> QED
        BY <1>1, <1>5
    <2>2. \A i \in 1 .. Len(s.ranges) :
            ~(s.ranges[i].type = MEMORY_FREE /\ s.ranges[i].size >= n)
      BY <1>2, <1>5
    <2> QED
      BY <2>1, <2>2 DEF t
  <1>6. CASE n # 0 /\ fits # {}
    <2>1. \E i \in fits : \A j \in fits : j <= i
      <3> HIDE DEF fits
      <3> QED
        BY <1>2, <1>3, <1>6, HighestIndex
    <2>2. idx \in fits
      <3> HIDE DEF fits
      <3> QED
        BY <2>1
    <2>3. t = [carve(s, idx, MR(base, n, MEMORY_ALLOCATED)) EXCEPT !.ret = base]
      <3> HIDE DEF fits, idx, base
      <3> QED
        BY <1>1, <1>6
    <2> HIDE DEF idx
    <2>4. /\ idx \in 1 .. Len(s.ranges) /\ s.ranges[idx].size >= n
          /\ s.ranges[idx].type = MEMORY_FREE
      BY <1>2, <2>2
    <2>5. /\ s.ranges[idx].physical_address \in Nat /\ s.ranges[idx].size \in Nat
          /\ mr_end(s.ranges[idx]) = s.ranges[idx].physical_address + s.ranges[idx].size
      BY <2>4, SoundFacts, MapFacts
    <2>6. /\ base \in Nat /\ base >= s.ranges[idx].physical_address
          /\ base + n <= mr_end(s.ranges[idx])
      BY <2>4, <2>5, SMTT(30)
    <2> HIDE DEF base
    <2>7. CarvesFree(s, t, n, idx, base)
      BY <2>3, <2>4, <2>6 DEF CarvesFree
    <2>8. n > 0
      BY <1>6
    <2> QED
      BY <2>4, <2>6, <2>7, <2>8 DEF t
  <1> QED
    BY <1>4, <1>5, <1>6

LEMMA TopDownFacts ==
    ASSUME NEW s, Sound(s), NEW n \in Nat
    PROVE  /\ Allocates(s, allocate_top_down(s, n))
           /\ Above(s.ranges, 1) /\ allocate_top_down(s, n).bug = "none" =>
                allocate_top_down(s, n).ret # 0
  <1> DEFINE t == allocate_top_down(s, n)
  <1>1. Len(s.ranges) \in Nat /\ DOMAIN s.ranges = 1 .. Len(s.ranges)
    BY SoundFacts
  <1>2. \/ t = [s EXCEPT !.bug = "invalid allocation"]
        \/ t = [s EXCEPT !.ret = ENOMEM]
        \/ n > 0 /\ \E idx \in 1 .. Len(s.ranges), base \in Nat :
                      CarvesFree(s, t, n, idx, base)
    BY TopDownCases
  <1> HIDE DEF t
  <1>3. CASE t = [s EXCEPT !.bug = "invalid allocation"] \/ t = [s EXCEPT !.ret = ENOMEM]
    <2>1. ENOMEM # 0 /\ "invalid allocation" # "none"
      BY DEF ENOMEM
    <2> QED
      BY <1>3, <2>1, RefusalAllocates DEF t
  <1>4. ASSUME n > 0, NEW idx \in 1 .. Len(s.ranges), NEW base \in Nat,
               CarvesFree(s, t, n, idx, base)
        PROVE  /\ Allocates(s, t)
               /\ Above(s.ranges, 1) /\ t.bug = "none" => t.ret # 0
    <2>1. /\ s.ranges[idx].physical_address <= base
          /\ t = [carve(s, idx, MR(base, n, MEMORY_ALLOCATED)) EXCEPT !.ret = base]
      BY <1>4 DEF CarvesFree
    <2>2. Allocates(s, t) /\ t.ret = base
      BY <1>4, <2>1, CarveAllocates
    <2>3. s.ranges[idx].physical_address \in Nat
      BY SoundFacts, MapFacts
    <2>4. Above(s.ranges, 1) => base # 0
      BY <1>1, <2>1, <2>3 DEF Above
    <2> QED
      BY <2>2, <2>4
  <1> QED
    BY <1>2, <1>3, <1>4 DEF t

(***************************************************************************)
(* Where a range of the map covers value, find_range returns it, or an     *)
(* empty one before it that starts at value.                               *)
(***************************************************************************)
LEMMA FindRangeCovers ==
    ASSUME NEW m, IsMemoryMap(m), NEW v \in Nat, NEW allow,
           NEW i \in DOMAIN m, Covers(m[i], v), NEW x \in find_range(m, v, allow)
    PROVE  /\ x \in 1 .. i
           /\ \A j \in x .. (i - 1) : m[j].physical_address = v /\ mr_end(m[j]) = v
           /\ v \notin CutsOf(m) => x = i
  <1>1. DOMAIN m = 1 .. Len(m) /\ Len(m) \in Nat /\ i \in Nat
    BY MapFacts
  <1>2. /\ \A k \in 1 .. Len(m) : /\ m[k].physical_address \in Nat
                                 /\ mr_end(m[k]) \in Nat
                                 /\ m[k].physical_address <= mr_end(m[k])
        /\ \A k, l \in 1 .. Len(m) :
              k < l => mr_end(m[k]) <= m[l].physical_address
    BY OrderFacts, Zenon
  <1>3. m[i].physical_address <= v /\ v < mr_end(m[i])
    BY DEF Covers
  <1>4. /\ x \in 1 .. i
        /\ \A j \in x .. (i - 1) : m[j].physical_address = v /\ mr_end(m[j]) = v
    <2>1. CASE StartingAt(m, v) = {}
      <3>1. i \in Covering(m, v)
        BY DEF Covering
      <3>2. x \in Covering(m, v)
        BY <2>1, <3>1 DEF find_range
      <3>3. x \in DOMAIN m /\ Covers(m[x], v)
        BY <3>2 DEF Covering
      <3>4. x = i
        BY <3>3, OneCover
      <3> QED
        BY <1>1, <3>4
    <2>2. CASE StartingAt(m, v) # {}
      <3>1. x \in 1 .. Len(m) /\ m[x].physical_address = v
        BY <1>1, <2>2 DEF find_range, StartingAt
      <3>2. ~(i < x)
        BY <1>1, <1>2, <1>3, <3>1
      <3>3. ASSUME NEW j \in x .. (i - 1)
            PROVE  m[j].physical_address = v /\ mr_end(m[j]) = v
        <4>1. j \in 1 .. Len(m) /\ j < i /\ (x = j \/ x < j)
          BY <1>1, <3>1
        <4>2. /\ m[j].physical_address \in Nat /\ mr_end(m[j]) \in Nat
              /\ m[j].physical_address <= mr_end(m[j])
              /\ m[i].physical_address \in Nat /\ mr_end(m[x]) \in Nat
              /\ m[x].physical_address <= mr_end(m[x])
          BY <1>1, <1>2, <3>1, <4>1
        <4>3. mr_end(m[j]) <= m[i].physical_address
          BY <1>1, <1>2, <4>1
        <4>4. x < j => mr_end(m[x]) <= m[j].physical_address
          BY <1>2, <3>1, <4>1
        <4> QED
          BY <1>3, <3>1, <4>1, <4>2, <4>3, <4>4
      <3> QED
        BY <1>1, <3>1, <3>2, <3>3
    <2> QED
      BY <2>1, <2>2
  <1>5. ASSUME v \notin CutsOf(m), x # i PROVE FALSE
    <2>1. x \in x .. (i - 1) /\ x \in 1 .. Len(m)
      BY <1>1, <1>4, <1>5
    <2>2. m[x].physical_address = v /\ mr_end(m[x]) = v
      BY <1>4, <2>1
    <2>3. m[x].size = 0
      BY <2>1, <2>2, MapFacts
    <2> QED
      BY <1>1, <1>5, <2>1, <2>2, <2>3 DEF CutsOf
  <1> QED
    BY <1>4, <1>5

LEMMA WithinCases ==
    ASSUME NEW s, Sound(s), NEW n \in Nat, NEW lower \in Nat, NEW upper \in Nat,
           NEW t \in allocate_within(s, n, lower, upper)
    PROVE  \/ /\ n = 0 \/ lower + n > upper
              /\ t = [s EXCEPT !.bug = "invalid allocation"]
           \/ /\ n > 0 /\ lower + n <= upper
              /\ t = [s EXCEPT !.ret = ENOMEM]
              /\ \A i \in 1 .. Len(s.ranges) :
                   ~(/\ s.ranges[i].type = MEMORY_FREE
                     /\ s.ranges[i].physical_address <= lower
                     /\ lower + n <= mr_end(s.ranges[i]))
           \/ /\ n > 0 /\ lower + n <= upper
              /\ \E idx \in 1 .. Len(s.ranges), base \in Nat :
                    /\ lower <= base /\ base + n <= upper
                    /\ CarvesFree(s, t, n, idx, base)
  <1>0. CASE n = 0 \/ lower + n > upper
    BY <1>0 DEF allocate_within
  <1>9. n = 0 \/ lower + n > upper \/ (n > 0 /\ lower + n <= upper)
    OBVIOUS
  <1> SUFFICES ASSUME ~(n = 0 \/ lower + n > upper)
               PROVE  \/ /\ t = [s EXCEPT !.ret = ENOMEM]
                         /\ \A i \in 1 .. Len(s.ranges) :
                              ~(/\ s.ranges[i].type = MEMORY_FREE
                                /\ s.ranges[i].physical_address <= lower
                                /\ lower + n <= mr_end(s.ranges[i]))
                      \/ \E idx \in 1 .. Len(s.ranges), base \in Nat :
                           /\ lower <= base /\ base + n <= upper
                           /\ CarvesFree(s, t, n, idx, base)
    BY <1>0, <1>9, Zenon
  <1>n. n > 0 /\ lower + n <= upper
    OBVIOUS
  <1>f. PICK first \in find_range(s.ranges, lower, TRUE) :
               t = allocate_from(s, first, n, lower, upper)
    BY DEF allocate_within
  <1> DEFINE picked == {k \in first .. Len(s.ranges) :
                          picked_within(s.ranges, n, lower, upper, first, k)}
             idx    == CHOOSE k \in picked : TRUE
             start  == s.ranges[idx].physical_address
             base   == IF lower > start THEN lower ELSE start
  <1>1. t = IF first = 0 \/ picked = {} THEN [s EXCEPT !.ret = ENOMEM]
            ELSE [carve(s, idx, MR(base, n, MEMORY_ALLOCATED)) EXCEPT !.ret = base]
    BY <1>f DEF allocate_from
  <1>2. /\ first \in 0 .. Len(s.ranges) /\ Len(s.ranges) \in Nat
        /\ DOMAIN s.ranges = 1 .. Len(s.ranges) /\ IsMemoryMap(s.ranges)
    BY SoundFacts, FindRangeIndex
  \* A free range with all of the pages named ends the search: the ranges before
  \* it, if there are any, are empty ones at lower.
  <1>3. ASSUME NEW i \in 1 .. Len(s.ranges),
               s.ranges[i].type = MEMORY_FREE,
               s.ranges[i].physical_address <= lower,
               lower + n <= mr_end(s.ranges[i])
        PROVE  first # 0 /\ picked # {}
    <2>1. s.ranges[i].physical_address \in Nat /\ mr_end(s.ranges[i]) \in Nat
      BY <1>2, MapFacts
    <2>2. Covers(s.ranges[i], lower)
      BY <1>n, <1>3, <2>1 DEF Covers
    <2>3. /\ first \in 1 .. i
          /\ \A j \in first .. (i - 1) : /\ s.ranges[j].physical_address = lower
                                         /\ mr_end(s.ranges[j]) = lower
      <3>1. i \in DOMAIN s.ranges /\ IsMemoryMap(s.ranges)
        BY <1>2
      <3>2. /\ first \in 1 .. i
            /\ \A j \in first .. (i - 1) : /\ s.ranges[j].physical_address = lower
                                           /\ mr_end(s.ranges[j]) = lower
            /\ lower \notin CutsOf(s.ranges) => first = i
        BY <2>2, <3>1, FindRangeCovers, Zenon
      <3> QED
        BY <3>2, Zenon
    <2> HIDE DEF picked
    <2>4. picked_within(s.ranges, n, lower, upper, first, i)
      <3> DEFINE below(a) == IF a < upper THEN a ELSE upper
                 above(a) == IF a > lower THEN a ELSE lower
                 gap(j)   == below(mr_end(s.ranges[j])) - above(s.ranges[j].physical_address)
                 fits(j)  == /\ s.ranges[j].physical_address <= upper
                             /\ s.ranges[j].type = MEMORY_FREE
                             /\ gap(j) >= n
                 goes_on(j) == /\ s.ranges[j].physical_address <= upper
                               /\ mr_end(s.ranges[j]) < upper
                               /\ upper - mr_end(s.ranges[j]) >= n
      <3>1. fits(i)
        BY <1>n, <1>3, <2>1, SMTT(30)
      <3>2. ASSUME NEW j \in first .. (i - 1) PROVE ~fits(j) /\ goes_on(j)
        <4>1. s.ranges[j].physical_address = lower /\ mr_end(s.ranges[j]) = lower
          BY <2>3
        <4> QED
          BY <1>n, <4>1, SMTT(30)
      <3> HIDE DEF fits, goes_on
      <3> QED
        BY <3>1, <3>2, Zenon DEF picked_within, fits, goes_on
    <2>5. i \in picked
      BY <1>2, <2>3, <2>4 DEF picked
    <2> QED
      BY <1>2, <2>3, <2>5
  <1>5. CASE first = 0 \/ picked = {}
    <2>2. \A i \in 1 .. Len(s.ranges) :
            ~(/\ s.ranges[i].type = MEMORY_FREE
              /\ s.ranges[i].physical_address <= lower
              /\ lower + n <= mr_end(s.ranges[i]))
      <3> HIDE DEF picked
      <3> QED
        BY <1>3, <1>5
    <2>3. t = [s EXCEPT !.ret = ENOMEM]
      <3> HIDE DEF picked, idx, base
      <3> QED
        BY <1>1, <1>5
    <2> QED
      BY <2>2, <2>3
  <1>6. CASE ~(first = 0 \/ picked = {})
    <2>1. idx \in picked
      BY <1>6
    <2>2. t = [carve(s, idx, MR(base, n, MEMORY_ALLOCATED)) EXCEPT !.ret = base]
      <3> HIDE DEF picked, idx, base
      <3> QED
        BY <1>1, <1>6
    <2> HIDE DEF idx
    <2>3. /\ idx \in 1 .. Len(s.ranges)
          /\ picked_within(s.ranges, n, lower, upper, first, idx)
      BY <1>2, <1>6, <2>1
    <2>4. start \in Nat /\ mr_end(s.ranges[idx]) \in Nat
      BY <1>2, <2>3, MapFacts
    <2>5. /\ s.ranges[idx].type = MEMORY_FREE
          /\ base \in Nat /\ start <= base /\ lower <= base
          /\ base + n <= upper /\ base + n <= mr_end(s.ranges[idx])
      BY <1>n, <2>3, <2>4, SMTT(30) DEF picked_within
    <2> HIDE DEF base
    <2>6. CarvesFree(s, t, n, idx, base)
      BY <2>2, <2>5 DEF CarvesFree
    <2> QED
      BY <2>3, <2>5, <2>6
  <1> QED
    BY <1>5, <1>6

LEMMA WithinFacts ==
    ASSUME NEW s, Sound(s), NEW n \in Nat, NEW lower \in Nat, NEW upper \in Nat,
           NEW t \in allocate_within(s, n, lower, upper)
    PROVE  Allocates(s, t)
  <1>1. \/ t = [s EXCEPT !.bug = "invalid allocation"]
        \/ t = [s EXCEPT !.ret = ENOMEM]
        \/ n > 0 /\ \E idx \in 1 .. Len(s.ranges), base \in Nat :
                      CarvesFree(s, t, n, idx, base)
    BY WithinCases
  <1>2. ASSUME n > 0, NEW idx \in 1 .. Len(s.ranges), NEW base \in Nat,
               CarvesFree(s, t, n, idx, base)
        PROVE  Allocates(s, t)
    BY <1>2, CarveAllocates DEF CarvesFree
  <1> QED
    BY <1>1, <1>2, RefusalAllocates

-----------------------------------------------------------------------------
(***************************************************************************)
(* Growth.                                                                 *)
(***************************************************************************)

\* The pages for a number of entries hold that many entries.
LEMMA PagesForFacts ==
    ASSUME NEW x \in Nat
    PROVE  pages_for(x) \in Nat /\ x <= pages_for(x) * EntriesPerPage
  <1> DEFINE E == EntriesPerPage
             q == (x + E - 1) \div E
  <1>1. E \in Nat /\ E >= 4
    BY EntriesPerPageAssumption
  <1> HIDE DEF E
  <1>2. x + E - 1 \in Nat
    BY <1>1
  <1>3. q \in Nat /\ E * q <= x + E - 1 /\ x + E - 1 < E * q + E
    BY <1>1, <1>2
  <1>4. E * q \in Nat /\ q * E = E * q
    BY <1>1, <1>3
  <1>5. x <= q * E
    BY <1>1, <1>3, <1>4
  <1> QED
    BY <1>3, <1>5 DEF pages_for, E

\* The allocator between two calls, page 0 not being memory it manages.
Fit(s) ==
    /\ HasRoom(s) /\ s.ok = TRUE /\ s.capacity >= 4 /\ Above(s.ranges, 1)
    /\ s.buffer = g_initial_buffer \/ ~GrowthDue(s.buffer, s.capacity, s.ranges)

(***************************************************************************)
(* After maybe_grow_buffer there is room for the call at hand and for the  *)
(* growth of the next one: four entries.                                   *)
(***************************************************************************)
LEMMA GrowFacts ==
    ASSUME NEW s, Sound(s)
    PROVE  LET g == maybe_grow_buffer(s)
           IN  /\ Sound(g) /\ Stays(s, g, 2)
               /\ s.capacity <= g.capacity
               /\ Fit(s) => /\ g.bug # "range_emplace_at"
                            /\ g.bug = "none" => /\ g.ok = TRUE
                                                 /\ Len(g.ranges) + 4 <= g.capacity
  <1> DEFINE np == pages_for(2 * s.capacity)
             a  == boot_alloc_nogrow(s, np)
             g  == maybe_grow_buffer(s)
             Claim(u) == /\ Sound(u) /\ Stays(s, u, 2)
                         /\ s.capacity <= u.capacity
                         /\ Fit(s) => /\ u.bug # "range_emplace_at"
                                      /\ u.bug = "none" =>
                                           /\ u.ok = TRUE
                                           /\ Len(u.ranges) + 4 <= u.capacity
  <1>1. s.capacity \in Nat /\ Len(s.ranges) \in Nat
    BY SoundFacts
  <1>2. np \in Nat /\ 2 * s.capacity <= np * EntriesPerPage
    <2>1. 2 * s.capacity \in Nat
      BY <1>1
    <2> QED
      BY <2>1, PagesForFacts, Zenon
  <1> HIDE DEF np
  <1>3. /\ Allocates(s, a)
        /\ Above(s.ranges, 1) /\ a.bug = "none" => a.ret # 0
    BY <1>2, TopDownFacts DEF boot_alloc_nogrow
  <1>4. g = IF ~GrowthDue(s.buffer, s.capacity, s.ranges) THEN s
            ELSE IF a.bug # "none" THEN a
            ELSE IF a.ret = 0 THEN [a EXCEPT !.ok = FALSE]
            ELSE [a EXCEPT !.buffer = a.ret, !.capacity = np * EntriesPerPage]
    BY DEF maybe_grow_buffer, np
  <1> HIDE DEF a, g
  <1>5. /\ Sound(a) /\ Stays(s, a, 2)
        /\ a.capacity = s.capacity /\ a.ok = s.ok /\ a.buffer = s.buffer
        /\ HasRoom(s) => a.bug # "range_emplace_at"
    BY <1>3 DEF Allocates, SameBuffer
  <1>6. CASE ~GrowthDue(s.buffer, s.capacity, s.ranges)
    <2>1. g = s
      BY <1>4, <1>6
    <2>2. Stays(s, s, 2)
      BY <1>1, SoundFacts DEF Stays
    <2>3. Len(s.ranges) + 4 <= s.capacity
      BY <1>1, <1>6 DEF GrowthDue, growth_watermark, WorstCaseGrowth
    <2>4. Fit(s) => s.bug = "none" /\ s.ok = TRUE
      BY DEF Fit, HasRoom
    <2>5. Claim(s)
      BY <1>1, <2>2, <2>3, <2>4
    <2> QED
      BY <2>1, <2>5 DEF g
  <1>7. CASE GrowthDue(s.buffer, s.capacity, s.ranges) /\ a.bug # "none"
    <2>1. g = a
      BY <1>4, <1>7
    <2>2. Claim(a)
      BY <1>1, <1>5, <1>7 DEF Fit
    <2> QED
      BY <2>1, <2>2 DEF g
  <1>8. CASE /\ GrowthDue(s.buffer, s.capacity, s.ranges)
             /\ a.bug = "none" /\ a.ret = 0
    <2> DEFINE u == [a EXCEPT !.ok = FALSE]
    <2>1. g = u
      BY <1>4, <1>8
    <2>2. Sound(u) /\ u.ranges = a.ranges /\ u.capacity = a.capacity
      BY <1>5 DEF Sound, States
    <2>3. ~Fit(s)
      BY <1>3, <1>8 DEF Fit
    <2> HIDE DEF u
    <2>4. Stays(s, u, 2)
      BY <1>5, <2>2 DEF Stays
    <2>5. Claim(u)
      BY <1>1, <1>5, <2>2, <2>3, <2>4
    <2> QED
      BY <2>1, <2>5 DEF g
  <1>9. CASE /\ GrowthDue(s.buffer, s.capacity, s.ranges)
             /\ a.bug = "none" /\ a.ret # 0
    <2> DEFINE cap == np * EntriesPerPage
               u == [a EXCEPT !.buffer = a.ret, !.capacity = cap]
    <2>1. g = u
      BY <1>4, <1>9
    <2>2. cap \in Nat
      BY <1>2, EntriesPerPageAssumption
    <2>3. 2 * s.capacity <= cap
      BY <1>2
    <2> HIDE DEF cap
    <2>4. a.ret \in Nat \cup {ENOMEM, g_initial_buffer}
      BY <1>5, SoundFacts DEF Addresses
    <2>5. /\ Sound(u) /\ u.ranges = a.ranges /\ u.capacity = cap
          /\ u.ok = a.ok /\ u.bug = a.bug
      BY <1>5, <2>2, <2>4 DEF Sound, States
    <2> HIDE DEF u
    <2>6. Stays(s, u, 2)
      BY <1>5, <2>5 DEF Stays
    <2>7. Len(u.ranges) <= Len(s.ranges) + 2 /\ Len(u.ranges) \in Nat
      BY <2>5, <2>6, SoundFacts DEF Stays
    <2>8. Fit(s) => Len(u.ranges) + 4 <= cap
      BY <1>1, <2>2, <2>3, <2>7, SMTT(30) DEF Fit, HasRoom, WorstCaseGrowth
    <2>9. Fit(s) => u.ok = TRUE /\ u.bug # "range_emplace_at"
      BY <1>5, <2>5 DEF Fit
    <2>10. s.capacity <= u.capacity
      BY <1>1, <2>2, <2>3, <2>5
    <2>11. Claim(u)
      BY <2>5, <2>6, <2>8, <2>9, <2>10
    <2> QED
      BY <2>1, <2>11 DEF g
  <1> QED
    BY <1>6, <1>7, <1>8, <1>9

-----------------------------------------------------------------------------
(***************************************************************************)
(* The calls: sound globals stay sound, and an allocator that is fit does  *)
(* not run out of entries and has room for the next growth.                *)
(***************************************************************************)
Completes(s, t) ==
    /\ Sound(t)
    /\ s.capacity <= t.capacity
    /\ Fit(s) => /\ t.bug # "range_emplace_at"
                 /\ t.bug = "none" => Len(t.ranges) + 2 <= t.capacity

\* A call that gives up after maybe_grow_buffer, with an error to return.
LEMMA GivesUp ==
    ASSUME NEW s, Sound(s), NEW g, g = maybe_grow_buffer(s),
           g.bug # "none" \/ ~g.ok,
           NEW a \in Addresses
    PROVE  /\ Completes(s, g) /\ Stays(s, g, 4)
           /\ Completes(s, [g EXCEPT !.ret = a]) /\ Stays(s, [g EXCEPT !.ret = a], 4)
  <1>1. /\ Sound(g) /\ Stays(s, g, 2) /\ s.capacity <= g.capacity
        /\ Fit(s) => /\ g.bug # "range_emplace_at"
                     /\ g.bug = "none" => /\ g.ok = TRUE
                                          /\ Len(g.ranges) + 4 <= g.capacity
    BY GrowFacts
  <1>2. Len(s.ranges) \in Nat /\ Len(g.ranges) \in Nat
    BY <1>1, SoundFacts
  <1>3. Fit(s) => g.bug # "none"
    BY <1>1
  <1>4. Completes(s, g)
    BY <1>1, <1>3 DEF Completes
  <1>5. Stays(s, g, 4)
    BY <1>1, <1>2 DEF Stays
  <1> DEFINE u == [g EXCEPT !.ret = a]
  <1>6. /\ Sound(u) /\ u.ranges = g.ranges /\ u.bug = g.bug
        /\ u.capacity = g.capacity
    BY <1>1, RetFacts DEF SameBuffer
  <1> HIDE DEF u
  <1>7. Completes(s, u)
    BY <1>1, <1>3, <1>6 DEF Completes
  <1>8. Stays(s, u, 4)
    BY <1>5, <1>6 DEF Stays
  <1> QED
    BY <1>4, <1>5, <1>7, <1>8 DEF u

\* A call that goes on to change the map after maybe_grow_buffer.
LEMMA GoesOn ==
    ASSUME NEW s, Sound(s), NEW g, g = maybe_grow_buffer(s),
           g.bug = "none", g.ok,
           NEW t, Allocates(g, t)
    PROVE  Completes(s, t) /\ Stays(s, t, 4)
  <1>1. /\ Sound(g) /\ Stays(s, g, 2) /\ s.capacity <= g.capacity
        /\ Fit(s) => Len(g.ranges) + 4 <= g.capacity
    BY GrowFacts
  <1>2. /\ Sound(t) /\ Stays(g, t, 2) /\ t.capacity = g.capacity
        /\ HasRoom(g) => t.bug # "range_emplace_at"
    BY DEF Allocates, SameBuffer
  <1>3. /\ Len(s.ranges) \in Nat /\ Len(g.ranges) \in Nat /\ Len(t.ranges) \in Nat
        /\ s.capacity \in Nat /\ g.capacity \in Nat
    BY <1>1, <1>2, SoundFacts
  <1>4. Len(g.ranges) <= Len(s.ranges) + 2 /\ Len(t.ranges) <= Len(g.ranges) + 2
    BY <1>1, <1>2 DEF Stays
  <1>5. Fit(s) => HasRoom(g)
    BY <1>1, <1>3 DEF HasRoom, WorstCaseGrowth
  <1>6. Fit(s) => Len(t.ranges) + 2 <= t.capacity
    BY <1>1, <1>2, <1>3, <1>4
  <1>7. Completes(s, t)
    BY <1>1, <1>2, <1>5, <1>6 DEF Completes
  <1>8. Len(t.ranges) <= Len(s.ranges) + 4
    BY <1>3, <1>4
  <1>9. Stays(s, t, 4)
    BY <1>1, <1>2, <1>8 DEF Stays
  <1> QED
    BY <1>7, <1>9

LEMMA AllocFacts ==
    ASSUME NEW s, Sound(s), NEW n \in Nat
    PROVE  Completes(s, boot_alloc(s, n)) /\ Stays(s, boot_alloc(s, n), 4)
  <1> DEFINE g == maybe_grow_buffer(s)
  <1>1. Sound(g)
    BY GrowFacts
  <1>2. Allocates(g, boot_alloc_nogrow(g, n))
    BY <1>1, TopDownFacts DEF boot_alloc_nogrow
  <1>3. ENOMEM \in Addresses
    BY DEF Addresses
  <1>4. boot_alloc(s, n) = IF g.bug # "none" THEN g
                           ELSE IF ~g.ok THEN [g EXCEPT !.ret = ENOMEM]
                           ELSE boot_alloc_nogrow(g, n)
    BY DEF boot_alloc
  <1>5. g = maybe_grow_buffer(s)
    OBVIOUS
  <1> HIDE DEF g
  <1>6. CASE g.bug # "none" \/ ~g.ok
    BY <1>3, <1>4, <1>5, <1>6, GivesUp
  <1>7. CASE g.bug = "none" /\ g.ok
    BY <1>2, <1>4, <1>5, <1>7, GoesOn
  <1> QED
    BY <1>6, <1>7

LEMMA AllocAtFacts ==
    ASSUME NEW s, Sound(s), NEW a \in Nat, NEW n \in Nat,
           NEW t \in boot_alloc_at(s, a, n)
    PROVE  Completes(s, t) /\ Stays(s, t, 4)
  <1> DEFINE g == maybe_grow_buffer(s)
  <1>1. Sound(g)
    BY GrowFacts
  <1>2. ASSUME NEW w \in allocate_within(g, n, a, a + n) PROVE Allocates(g, w)
    BY <1>1, WithinFacts
  <1>3. ENOMEM \in Addresses
    BY DEF Addresses
  <1>4. t \in IF g.bug # "none" THEN {g}
              ELSE IF ~g.ok THEN {[g EXCEPT !.ret = ENOMEM]}
              ELSE allocate_within(g, n, a, a + n)
    BY DEF boot_alloc_at
  <1>5. g = maybe_grow_buffer(s)
    OBVIOUS
  <1> HIDE DEF g
  <1>6. CASE g.bug # "none" \/ ~g.ok
    <2>1. t = g \/ t = [g EXCEPT !.ret = ENOMEM]
      BY <1>4, <1>6
    <2> QED
      BY <1>3, <1>5, <1>6, <2>1, GivesUp
  <1>7. CASE g.bug = "none" /\ g.ok
    <2>1. t \in allocate_within(g, n, a, a + n)
      BY <1>4, <1>7
    <2> QED
      BY <1>2, <1>5, <1>7, <2>1, GoesOn
  <1> QED
    BY <1>6, <1>7

LEMMA FreeFacts ==
    ASSUME NEW s, Sound(s), NEW a \in Nat, NEW n \in Nat,
           NEW t \in boot_free(s, a, n)
    PROVE  Completes(s, t) /\ Stays(s, t, 4)
  <1> DEFINE g   == maybe_grow_buffer(s)
             mr  == MR(a, n, MEMORY_FREE)
             u   == [g EXCEPT !.bug = "invalid free"]
  <1>1. Sound(g)
    BY GrowFacts
  <1>2. Len(g.ranges) \in Nat
    BY <1>1, SoundFacts
  <1>3. mr \in Ranges
    BY MRFacts
  <1>4. \/ (g.bug # "none" \/ ~g.ok) /\ t = g
        \/ /\ g.bug = "none" /\ g.ok
           /\ \E idx \in find_range(g.ranges, a, FALSE) :
                t = IF idx = 0 THEN u ELSE carve(g, idx, mr)
    BY DEF boot_free, free_range
  <1>5. g = maybe_grow_buffer(s)
    OBVIOUS
  <1> HIDE DEF g, mr
  <1>6. CASE (g.bug # "none" \/ ~g.ok) /\ t = g
    <2>1. ENOMEM \in Addresses
      BY DEF Addresses
    <2> QED
      BY <1>5, <1>6, <2>1, GivesUp
  <1>7. ASSUME g.bug = "none", g.ok, NEW idx \in find_range(g.ranges, a, FALSE),
               idx # 0, t = carve(g, idx, mr)
        PROVE  Completes(s, t) /\ Stays(s, t, 4)
    <2>1. idx \in 1 .. Len(g.ranges)
      <3>1. IsMemoryMap(g.ranges)
        BY <1>1, SoundFacts
      <3>2. idx \in 0 .. Len(g.ranges)
        BY <3>1, FindRangeIndex
      <3> QED
        BY <1>2, <1>7, <3>2
    <2>2. Allocates(g, t)
      BY <1>1, <1>3, <1>7, <2>1, CarveFacts DEF Allocates
    <2> QED
      BY <1>5, <1>7, <2>2, GoesOn
  <1>8. CASE g.bug = "none" /\ g.ok /\ t = u
    <2>1. "invalid free" \in Bugs /\ "invalid free" # "range_emplace_at"
      BY DEF Bugs
    <2>2. /\ Sound(u) /\ SameBuffer(g, u) /\ u.ranges = g.ranges
          /\ u.bug = "invalid free"
      BY <1>1, <2>1, BugFacts
    <2> HIDE DEF u
    <2>3. Len(g.ranges) <= Len(g.ranges) + 2
      BY <1>2
    <2>4. Stays(g, u, 2)
      BY <2>2, <2>3, Zenon DEF Stays
    <2>5. u.bug # "range_emplace_at"
      BY <2>1, <2>2
    <2>6. Allocates(g, u)
      BY <2>2, <2>4, <2>5 DEF Allocates
    <2> QED
      BY <1>5, <1>8, <2>6, GoesOn
  <1> HIDE DEF u
  <1> QED
    BY <1>4, <1>6, <1>7, <1>8, Zenon

(***************************************************************************)
(* boot_alloc_init appends above everything that is in the map already.    *)
(***************************************************************************)
LEMMA AppendFacts ==
    ASSUME NEW s, Sound(s), NEW mr \in Ranges, Below(s.ranges, mr.physical_address)
    PROVE  LET t == range_append(s, mr)
           IN  /\ Completes(s, t)
               /\ Below(t.ranges, mr_end(mr))
               /\ Above(s.ranges, 1) /\ mr.physical_address >= 1 => Above(t.ranges, 1)
  <1> DEFINE g == maybe_grow_buffer(s)
             m == Append(g.ranges, mr)
             t == range_append(s, mr)
             Claim(u) == /\ Completes(s, u)
                         /\ Below(u.ranges, mr_end(mr))
                         /\ Above(s.ranges, 1) /\ mr.physical_address >= 1
                              => Above(u.ranges, 1)
  <1>1. /\ Sound(g) /\ Stays(s, g, 2) /\ s.capacity <= g.capacity
        /\ Fit(s) => /\ g.bug # "range_emplace_at"
                     /\ g.bug = "none" => /\ g.ok = TRUE
                                          /\ Len(g.ranges) + 4 <= g.capacity
    BY GrowFacts
  <1>2. /\ mr.physical_address \in Nat /\ mr_end(mr) \in Nat
        /\ mr.physical_address <= mr_end(mr)
    BY RangeFacts
  <1>3. t = IF g.bug # "none" THEN g
            ELSE IF ~g.ok THEN [g EXCEPT !.ret = ENOMEM]
            ELSE IF Len(g.ranges) >= g.capacity
                 THEN [g EXCEPT !.bug = "range_emplace_at"]
            ELSE [g EXCEPT !.ranges = m, !.ret = 0]
    BY DEF range_append
  <1>4. g = maybe_grow_buffer(s)
    OBVIOUS
  <1> HIDE DEF g, t
  <1>5. /\ g.ranges \in Seq(Ranges) /\ IsMemoryMap(g.ranges)
        /\ Len(g.ranges) \in Nat /\ DOMAIN g.ranges = 1 .. Len(g.ranges)
        /\ g.capacity \in Nat
    BY <1>1, SoundFacts
  <1>6. /\ Below(g.ranges, mr.physical_address)
        /\ Above(s.ranges, 1) => Above(g.ranges, 1)
    BY <1>1, <1>2 DEF Stays
  <1>7. Below(g.ranges, mr_end(mr))
    BY <1>2, <1>5, <1>6, MapFacts DEF Below
  <1>8. CASE g.bug # "none"
    <2>1. t = g
      BY <1>3, <1>8
    <2>2. Completes(s, g)
      BY <1>1, <1>8 DEF Completes
    <2> QED
      BY <1>6, <1>7, <2>1, <2>2 DEF t
  <1>9. CASE g.bug = "none" /\ ~g.ok
    <2> DEFINE u == [g EXCEPT !.ret = ENOMEM]
    <2>1. t = u
      BY <1>3, <1>9
    <2>2. ENOMEM \in Addresses
      BY DEF Addresses
    <2>3. Completes(s, u)
      BY <1>4, <1>9, <2>2, GivesUp
    <2>4. u.ranges = g.ranges
      BY <1>1, <2>2, RetFacts
    <2> HIDE DEF u
    <2>5. Claim(u)
      BY <1>6, <1>7, <2>3, <2>4
    <2> QED
      BY <2>1, <2>5 DEF t
  <1>10. CASE g.bug = "none" /\ g.ok /\ Len(g.ranges) >= g.capacity
    <2> DEFINE u == [g EXCEPT !.bug = "range_emplace_at"]
    <2>1. t = u
      BY <1>3, <1>10
    <2>2. ~Fit(s)
      BY <1>1, <1>5, <1>10
    <2>3. "range_emplace_at" \in Bugs
      BY DEF Bugs
    <2>4. Sound(u) /\ u.ranges = g.ranges /\ u.capacity = g.capacity
      BY <1>1, <2>3, BugFacts DEF SameBuffer
    <2> HIDE DEF u
    <2>5. Claim(u)
      BY <1>1, <1>6, <1>7, <2>2, <2>4 DEF Completes
    <2> QED
      BY <2>1, <2>5 DEF t
  <1>11. CASE g.bug = "none" /\ g.ok /\ ~(Len(g.ranges) >= g.capacity)
    <2> DEFINE u == [g EXCEPT !.ranges = m, !.ret = 0]
    <2>1. t = u
      BY <1>3, <1>11
    <2>2. /\ m \in Seq(Ranges) /\ Len(m) = Len(g.ranges) + 1
          /\ DOMAIN m = 1 .. (Len(g.ranges) + 1)
          /\ \A i \in 1 .. Len(g.ranges) : m[i] = g.ranges[i]
          /\ m[Len(g.ranges) + 1] = mr
      BY <1>5
    <2> HIDE DEF m
    <2>3. \A i \in 1 .. Len(g.ranges) : mr_end(g.ranges[i]) <= mr.physical_address
      BY <1>5, <1>6 DEF Below
    <2>4. Ordered(m)
      <3> SUFFICES ASSUME NEW i \in DOMAIN m, NEW j \in DOMAIN m, i < j
                   PROVE  mr_end(m[i]) <= m[j].physical_address
        BY DEF Ordered
      <3>1. i \in 1 .. Len(g.ranges)
        BY <1>5, <2>2
      <3>2. CASE j = Len(g.ranges) + 1
        BY <2>2, <2>3, <3>1, <3>2
      <3>3. CASE j # Len(g.ranges) + 1
        <4>1. j \in 1 .. Len(g.ranges)
          BY <1>5, <2>2, <3>3
        <4> QED
          BY <1>5, <2>2, <3>1, <4>1, MapFacts
      <3> QED
        BY <3>2, <3>3
    <2>5. 0 \in Addresses
      BY DEF Addresses
    <2>6. /\ Sound(u) /\ u.ranges = m /\ u.capacity = g.capacity /\ u.bug = g.bug
      BY <1>1, <2>2, <2>4, <2>5 DEF Sound, States
    <2> HIDE DEF u
    <2>7. Completes(s, u)
      BY <1>1, <1>5, <1>11, <2>2, <2>6 DEF Completes
    <2>8. Below(m, mr_end(mr))
      BY <1>2, <1>5, <1>7, <2>2, SMTT(30) DEF Below
    <2>9. Above(s.ranges, 1) /\ mr.physical_address >= 1 => Above(m, 1)
      BY <1>2, <1>5, <1>6, <2>2 DEF Above
    <2>10. Claim(u)
      BY <2>6, <2>7, <2>8, <2>9
    <2> QED
      BY <2>1, <2>10 DEF t
  <1> QED
    BY <1>8, <1>9, <1>10, <1>11

-----------------------------------------------------------------------------
(***************************************************************************)
(* The cuts: what a call does to the empty ranges of the map.              *)
(***************************************************************************)
SameCuts(s, t) == CutsOf(t.ranges) = CutsOf(s.ranges)

\* A free of n pages at a keeps the cuts elsewhere, and makes one only if n is 0.
CutsAfterFree(C, D, a, n) ==
    C \ {a, a + n} \subseteq D /\ D \subseteq (IF n = 0 THEN C \cup {a} ELSE C)

LEMMA CutsStay ==
    ASSUME NEW C, NEW a, NEW n
    PROVE  CutsAfterFree(C, C, a, n)
  BY DEF CutsAfterFree

LEMMA CarveCuts ==
    ASSUME NEW s, Sound(s), NEW idx \in 1 .. Len(s.ranges), NEW mr \in Ranges,
           s.bug = "none", NEW c, c = carve(s, idx, mr)
    PROVE  /\ mr.type = MEMORY_ALLOCATED \/ c.bug # "none" => SameCuts(s, c)
           /\ CutsAfterFree(CutsOf(s.ranges), CutsOf(c.ranges),
                            mr.physical_address, mr.size)
  <1> DEFINE map == allocate_out_of(s.ranges, idx, mr)
  <1>1. IsMemoryMap(s.ranges)
    BY SoundFacts
  <1>2. CASE c.ranges = s.ranges
    BY <1>2, CutsStay DEF SameCuts
  <1>3. CASE c.ranges # s.ranges
    <2>1. /\ may_allocate_out_of(s.ranges[idx], mr)
          /\ c = [s EXCEPT !.ranges = map]
      <3>1. \A b \in Bugs : [s EXCEPT !.bug = b].ranges = s.ranges
        BY BugFacts
      <3>2. "allocate_out_of" \in Bugs /\ "range_emplace_at" \in Bugs
        BY DEF Bugs
      <3> QED
        BY <1>3, <3>1, <3>2 DEF carve
    <2>2. IsMemoryMap(map)
      BY <1>1, <2>1, AllocateOutOfFacts
    <2>3. /\ mr.type = MEMORY_ALLOCATED => CutsOf(map) = CutsOf(s.ranges)
          /\ CutsOf(s.ranges) \ {mr.physical_address, mr_end(mr)} \subseteq CutsOf(map)
          /\ CutsOf(map) \subseteq IF mr.size = 0
                                   THEN CutsOf(s.ranges) \cup {mr.physical_address}
                                   ELSE CutsOf(s.ranges)
      BY <1>1, <2>1, AllocateOutOfCuts
    <2> HIDE DEF map
    <2>4. c.ranges = map /\ c.bug = "none"
      BY <2>1, <2>2, RangesFacts
    <2>5. mr_end(mr) = mr.physical_address + mr.size
      BY RangeFacts
    <2> QED
      BY <2>3, <2>4, <2>5 DEF SameCuts, CutsAfterFree
  <1> QED
    BY <1>2, <1>3

\* An allocation out of a free range keeps the cuts.
LEMMA CarvesFreeCuts ==
    ASSUME NEW s, Sound(s), s.bug = "none", NEW n \in Nat, n > 0,
           NEW idx \in 1 .. Len(s.ranges), NEW base \in Nat,
           NEW t, CarvesFree(s, t, n, idx, base)
    PROVE  SameCuts(s, t)
  <1> DEFINE mr == MR(base, n, MEMORY_ALLOCATED)
             c  == carve(s, idx, mr)
  <1>1. mr \in Ranges /\ mr.type = MEMORY_ALLOCATED
    BY MRFacts
  <1>2. Sound(c)
    BY <1>1, CarveFacts
  <1>3. t = [c EXCEPT !.ret = base]
    BY DEF CarvesFree
  <1> HIDE DEF mr
  <1>4. c = carve(s, idx, mr)
    OBVIOUS
  <1> HIDE DEF c
  <1>5. SameCuts(s, c)
    BY <1>1, <1>4, CarveCuts
  <1>6. base \in Addresses
    BY DEF Addresses
  <1>7. t.ranges = c.ranges
    BY <1>2, <1>3, <1>6, RetFacts
  <1> QED
    BY <1>5, <1>7 DEF SameCuts

\* A search that finds no pages changes no ranges.
LEMMA RefusalCuts ==
    ASSUME NEW s, Sound(s)
    PROVE  /\ SameCuts(s, [s EXCEPT !.bug = "invalid allocation"])
           /\ SameCuts(s, [s EXCEPT !.ret = ENOMEM])
  <1>1. "invalid allocation" \in Bugs /\ ENOMEM \in Addresses
    BY DEF Bugs, Addresses
  <1>2. [s EXCEPT !.bug = "invalid allocation"].ranges = s.ranges
    BY <1>1, BugFacts
  <1>3. [s EXCEPT !.ret = ENOMEM].ranges = s.ranges
    BY <1>1, RetFacts
  <1> QED
    BY <1>2, <1>3, Zenon DEF SameCuts

LEMMA TopDownCuts ==
    ASSUME NEW s, Sound(s), s.bug = "none", NEW n \in Nat
    PROVE  SameCuts(s, allocate_top_down(s, n))
  <1> DEFINE t == allocate_top_down(s, n)
  <1>1. \/ t = [s EXCEPT !.bug = "invalid allocation"]
        \/ t = [s EXCEPT !.ret = ENOMEM]
        \/ n > 0 /\ \E idx \in 1 .. Len(s.ranges), base \in Nat :
                      CarvesFree(s, t, n, idx, base)
    BY TopDownCases
  <1> HIDE DEF t
  <1>2. ASSUME n > 0, NEW idx \in 1 .. Len(s.ranges), NEW base \in Nat,
               CarvesFree(s, t, n, idx, base)
        PROVE  SameCuts(s, t)
    BY <1>2, CarvesFreeCuts
  <1>3. CASE t = [s EXCEPT !.bug = "invalid allocation"] \/ t = [s EXCEPT !.ret = ENOMEM]
    BY <1>3, RefusalCuts, Zenon DEF t
  <1> QED
    BY <1>1, <1>2, <1>3, Zenon DEF t

LEMMA WithinCuts ==
    ASSUME NEW s, Sound(s), s.bug = "none", NEW n \in Nat,
           NEW lower \in Nat, NEW upper \in Nat,
           NEW t \in allocate_within(s, n, lower, upper)
    PROVE  SameCuts(s, t)
  <1>1. \/ t = [s EXCEPT !.bug = "invalid allocation"]
        \/ t = [s EXCEPT !.ret = ENOMEM]
        \/ n > 0 /\ \E idx \in 1 .. Len(s.ranges), base \in Nat :
                      CarvesFree(s, t, n, idx, base)
    BY WithinCases
  <1>2. ASSUME n > 0, NEW idx \in 1 .. Len(s.ranges), NEW base \in Nat,
               CarvesFree(s, t, n, idx, base)
        PROVE  SameCuts(s, t)
    BY <1>2, CarvesFreeCuts
  <1>3. CASE t = [s EXCEPT !.bug = "invalid allocation"] \/ t = [s EXCEPT !.ret = ENOMEM]
    BY <1>3, RefusalCuts, Zenon
  <1> QED
    BY <1>1, <1>2, <1>3, Zenon

LEMMA GrowCuts ==
    ASSUME NEW s, Sound(s), s.bug = "none"
    PROVE  SameCuts(s, maybe_grow_buffer(s))
  <1> DEFINE np == pages_for(2 * s.capacity)
             a  == boot_alloc_nogrow(s, np)
             g  == maybe_grow_buffer(s)
  <1>1. np \in Nat
    <2>1. 2 * s.capacity \in Nat
      BY SoundFacts
    <2> QED
      BY <2>1, PagesForFacts, Zenon
  <1> HIDE DEF np
  <1>2. Sound(a) /\ SameCuts(s, a)
    BY <1>1, TopDownCuts, TopDownFacts DEF boot_alloc_nogrow, Allocates
  <1>3. g = IF ~GrowthDue(s.buffer, s.capacity, s.ranges) THEN s
            ELSE IF a.bug # "none" THEN a
            ELSE IF a.ret = 0 THEN [a EXCEPT !.ok = FALSE]
            ELSE [a EXCEPT !.buffer = a.ret, !.capacity = np * EntriesPerPage]
    BY DEF maybe_grow_buffer, np
  <1> HIDE DEF a, g
  <1>4. g.ranges = s.ranges \/ g.ranges = a.ranges
    BY <1>2, <1>3 DEF Sound, States
  <1> QED
    BY <1>2, <1>4 DEF SameCuts, g

LEMMA AllocCuts ==
    ASSUME NEW s, Sound(s), s.bug = "none", NEW n \in Nat
    PROVE  SameCuts(s, boot_alloc(s, n))
  <1> DEFINE g == maybe_grow_buffer(s)
             t == boot_alloc(s, n)
  <1>1. Sound(g) /\ SameCuts(s, g)
    BY GrowFacts, GrowCuts
  <1>2. t = IF g.bug # "none" THEN g
            ELSE IF ~g.ok THEN [g EXCEPT !.ret = ENOMEM]
            ELSE boot_alloc_nogrow(g, n)
    BY DEF boot_alloc
  <1> HIDE DEF g, t
  <1>3. g.bug = "none" => SameCuts(g, boot_alloc_nogrow(g, n))
    BY <1>1, TopDownCuts DEF boot_alloc_nogrow
  <1>4. SameCuts(g, [g EXCEPT !.ret = ENOMEM])
    BY <1>1, RefusalCuts
  <1> QED
    BY <1>1, <1>2, <1>3, <1>4, Zenon DEF SameCuts, t

LEMMA AllocAtCuts ==
    ASSUME NEW s, Sound(s), s.bug = "none", NEW a \in Nat, NEW n \in Nat,
           NEW t \in boot_alloc_at(s, a, n)
    PROVE  SameCuts(s, t)
  <1> DEFINE g == maybe_grow_buffer(s)
  <1>1. Sound(g) /\ SameCuts(s, g)
    BY GrowFacts, GrowCuts
  <1>2. t \in IF g.bug # "none" THEN {g}
              ELSE IF ~g.ok THEN {[g EXCEPT !.ret = ENOMEM]}
              ELSE allocate_within(g, n, a, a + n)
    BY DEF boot_alloc_at
  <1> HIDE DEF g
  <1>3. ASSUME g.bug = "none", t \in allocate_within(g, n, a, a + n)
        PROVE  SameCuts(g, t)
    <2>1. a + n \in Nat
      OBVIOUS
    <2> QED
      BY <1>1, <1>3, <2>1, WithinCuts, Zenon
  <1>4. SameCuts(g, [g EXCEPT !.ret = ENOMEM])
    BY <1>1, RefusalCuts
  <1>5. \/ t = g \/ t = [g EXCEPT !.ret = ENOMEM]
        \/ g.bug = "none" /\ t \in allocate_within(g, n, a, a + n)
    BY <1>2
  <1> QED
    BY <1>1, <1>3, <1>4, <1>5, Zenon DEF SameCuts

LEMMA FreeCuts ==
    ASSUME NEW s, Sound(s), s.bug = "none", NEW a \in Nat, NEW n \in Nat,
           NEW t \in boot_free(s, a, n)
    PROVE  /\ t.bug # "none" => SameCuts(s, t)
           /\ CutsAfterFree(CutsOf(s.ranges), CutsOf(t.ranges), a, n)
  <1> DEFINE g  == maybe_grow_buffer(s)
             mr == MR(a, n, MEMORY_FREE)
             u  == [g EXCEPT !.bug = "invalid free"]
  <1>1. Sound(g) /\ SameCuts(s, g)
    BY GrowFacts, GrowCuts
  <1>2. mr \in Ranges /\ mr.physical_address = a /\ mr.size = n
    BY MRFacts
  <1>3. \/ t = g
        \/ t = u
        \/ /\ g.bug = "none"
           /\ \E idx \in find_range(g.ranges, a, FALSE) :
                idx # 0 /\ t = carve(g, idx, mr)
    BY DEF boot_free, free_range
  <1>4. "invalid free" \in Bugs
    BY DEF Bugs
  <1>5. u.ranges = g.ranges
    BY <1>1, <1>4, BugFacts
  <1> HIDE DEF g, mr, u
  <1>6. CASE t = g \/ t = u
    BY <1>1, <1>5, <1>6, CutsStay DEF SameCuts
  <1>7. ASSUME g.bug = "none", NEW idx \in find_range(g.ranges, a, FALSE),
               idx # 0, t = carve(g, idx, mr)
        PROVE  /\ t.bug # "none" => SameCuts(s, t)
               /\ CutsAfterFree(CutsOf(s.ranges), CutsOf(t.ranges), a, n)
    <2>1. idx \in 1 .. Len(g.ranges)
      <3>1. IsMemoryMap(g.ranges) /\ Len(g.ranges) \in Nat
        BY <1>1, SoundFacts
      <3>2. idx \in 0 .. Len(g.ranges)
        BY <3>1, FindRangeIndex
      <3> QED
        BY <1>7, <3>1, <3>2
    <2>2. /\ mr.type = MEMORY_ALLOCATED \/ t.bug # "none" => SameCuts(g, t)
          /\ CutsAfterFree(CutsOf(g.ranges), CutsOf(t.ranges),
                           mr.physical_address, mr.size)
      BY <1>1, <1>2, <1>7, <2>1, CarveCuts
    <2> QED
      BY <1>1, <1>2, <2>2 DEF SameCuts
  <1> QED
    BY <1>3, <1>6, <1>7, Zenon

LEMMA AppendCuts ==
    ASSUME NEW s, Sound(s), s.bug = "none", NEW mr \in Ranges, mr.size > 0
    PROVE  SameCuts(s, range_append(s, mr))
  <1> DEFINE g == maybe_grow_buffer(s)
             m == Append(g.ranges, mr)
             t == range_append(s, mr)
  <1>1. Sound(g) /\ SameCuts(s, g)
    BY GrowFacts, GrowCuts
  <1>2. t.ranges = g.ranges \/ t.ranges = m
    <2>1. t = IF g.bug # "none" THEN g
              ELSE IF ~g.ok THEN [g EXCEPT !.ret = ENOMEM]
              ELSE IF Len(g.ranges) >= g.capacity
                   THEN [g EXCEPT !.bug = "range_emplace_at"]
              ELSE [g EXCEPT !.ranges = m, !.ret = 0]
      BY DEF range_append
    <2> HIDE DEF g, t, m
    <2> QED
      BY <1>1, <2>1 DEF Sound, States
  <1> HIDE DEF g, t
  <1>3. CutsOf(m) = CutsOf(g.ranges)
    <2>1. /\ g.ranges \in Seq(Ranges) /\ Len(g.ranges) \in Nat
          /\ DOMAIN g.ranges = 1 .. Len(g.ranges)
      BY <1>1, SoundFacts
    <2>2. /\ DOMAIN m = 1 .. (Len(g.ranges) + 1) /\ m[Len(g.ranges) + 1] = mr
          /\ \A i \in 1 .. Len(g.ranges) : m[i] = g.ranges[i]
      BY <2>1
    <2>3. \A i : i \in 1 .. (Len(g.ranges) + 1) <=>
                   i \in 1 .. Len(g.ranges) \/ i = Len(g.ranges) + 1
      BY <2>1
    <2>4. mr.size # 0
      BY RangeFacts
    <2> HIDE DEF m
    <2>5. ASSUME NEW b
          PROVE  b \in CutsOf(m) <=> b \in CutsOf(g.ranges)
      <3>1. b \in CutsOf(m) <=> \E i \in DOMAIN m : m[i].size = 0 /\ m[i].physical_address = b
        BY DEF CutsOf
      <3>2. b \in CutsOf(g.ranges) <=>
              \E i \in DOMAIN g.ranges : /\ g.ranges[i].size = 0
                                         /\ g.ranges[i].physical_address = b
        BY DEF CutsOf
      <3> QED
        BY <2>1, <2>2, <2>3, <2>4, <3>1, <3>2, Zenon
    <2> QED
      BY <2>5, Zenon
  <1> QED
    BY <1>1, <1>2, <1>3 DEF SameCuts, t

-----------------------------------------------------------------------------
(***************************************************************************)
(* The inductive invariant.  MapOrdered is not inductive while             *)
(* boot_alloc_init runs: an entry is appended without a look at the map,   *)
(* so the map must end below the entries that are still to come, and no    *)
(* growth in between may lift its end.                                     *)
(***************************************************************************)
EntriesAbove ==
    next_entry <= Len(memory_map) =>
        Below(ranges, memory_map[next_entry].physical_address)

MapInv == TypeOK /\ MapOrdered /\ EntriesAbove

\* What the loader's memory map is known to be.
LEMMA LoaderFacts ==
    ASSUME memory_map \in MemoryMaps
    PROVE  /\ Len(memory_map) \in Nat
           /\ \A i \in 1 .. Len(memory_map) :
                /\ memory_map[i].physical_address \in Nat
                /\ memory_map[i].size \in Nat /\ memory_map[i].size > 0
           /\ \A i, j \in 1 .. Len(memory_map) :
                i < j => memory_map[i].physical_address + memory_map[i].size
                           <= memory_map[j].physical_address
  <1>1. memory_map \in Seq(LoaderEntries) /\ Ordered(memory_map)
    BY MemoryMapsAssumption
  <1>2. Len(memory_map) \in Nat /\ DOMAIN memory_map = 1 .. Len(memory_map)
    BY <1>1
  <1>3. \A i \in 1 .. Len(memory_map) : memory_map[i] \in LoaderEntries
    BY <1>1
  <1>4. \A i \in 1 .. Len(memory_map) :
           /\ memory_map[i].physical_address \in Nat
           /\ memory_map[i].size \in Nat /\ memory_map[i].size > 0
    BY <1>3 DEF LoaderEntries
  <1>5. \A i, j \in 1 .. Len(memory_map) :
          i < j => memory_map[i].physical_address + memory_map[i].size
                     <= memory_map[j].physical_address
    BY <1>1, <1>2 DEF Ordered, mr_end
  <1> QED
    BY <1>2, <1>4, <1>5

LEMMA GlobalsSound == MapInv => Sound(Globals)
  BY DEF MapInv, TypeOK, MapOrdered, Sound, States, Globals, Addresses

LEMMA GlobalsFields ==
    /\ Globals.buffer = g_buffer /\ Globals.capacity = g_capacity
    /\ Globals.ranges = ranges /\ Globals.bug = bug
    /\ Globals.ret = 0 /\ Globals.ok = TRUE
  BY DEF Globals

\* A call that returns sound globals leaves the variables well typed.
LEMMA ReturnsFacts ==
    ASSUME MapInv, NEW s, Sound(s),
           NEW op \in {"append", "alloc", "alloc_at", "free"},
           NEW a \in Nat, NEW n \in Nat, NEW r \in Addresses,
           Returns(s, op, a, n, r),
           memory_map' = memory_map, next_entry' \in Nat \ {0},
           held' \subseteq Nat
    PROVE  TypeOK' /\ MapOrdered' /\ ranges' = s.ranges
  <1>1. /\ s.buffer \in Nat \cup {ENOMEM, g_initial_buffer}
        /\ s.capacity \in Nat /\ s.ranges \in Seq(Ranges) /\ s.bug \in Bugs
        /\ IsMemoryMap(s.ranges)
    BY SoundFacts
  <1>2. (IF s.bug = "none" THEN r ELSE 0) \in Nat \cup {ENOMEM}
    BY DEF Addresses
  <1>3. call' \in [op : {"none", "append", "alloc", "alloc_at", "free"},
                   address : Nat, pages : Nat, ret : Nat \cup {ENOMEM}]
    BY <1>2 DEF Returns
  <1> QED
    BY <1>1, <1>3 DEF Returns, MapInv, TypeOK, MapOrdered, IsMemoryMap

LEMMA GrantedFacts ==
    ASSUME NEW s, Sound(s), NEW n \in Nat
    PROVE  Granted(s, n) \subseteq Nat
  BY SoundFacts DEF Granted, error_phys_addr, Run, Addresses, ENOMEM

LEMMA InitMapInv == Init => MapInv
  <1> SUFFICES ASSUME Init PROVE MapInv
    OBVIOUS
  <1>1. TypeOK
    BY EntriesPerPageAssumption DEF Init, TypeOK, NoCall, Bugs
  <1>2. ranges = <<>> /\ DOMAIN ranges = {}
    BY DEF Init
  <1>3. MapOrdered /\ EntriesAbove
    BY <1>2 DEF MapOrdered, Ordered, EntriesAbove, Below
  <1> QED
    BY <1>1, <1>3 DEF MapInv

LEMMA NextMapInv == MapInv /\ [Next]_vars => MapInv'
  <1> SUFFICES ASSUME MapInv, [Next]_vars PROVE MapInv'
    OBVIOUS
  <1>1. Sound(Globals)
    BY GlobalsSound
  <1>2. /\ memory_map \in MemoryMaps /\ next_entry \in Nat \ {0}
        /\ held \subseteq Nat /\ Len(memory_map) \in Nat
    BY LoaderFacts DEF MapInv, TypeOK
  <1>3. MaxPages \in Nat /\ Pages \subseteq Nat
    BY PagesAssumption
  \* After boot_alloc_init the third conjunct of the invariant says nothing.
  <1>4. Initialised /\ memory_map' = memory_map /\ next_entry' = next_entry
          => EntriesAbove'
    BY <1>2 DEF Initialised, EntriesAbove
  <1>5. CASE AppendEntry
    <2> DEFINE entry == memory_map[next_entry]
               type  == IF entry.type = "FREE" THEN MEMORY_FREE ELSE MEMORY_ALLOCATED
               mr    == MR(entry.physical_address, entry.size, type)
               s     == range_append(Globals, mr)
    <2>1. next_entry \in 1 .. Len(memory_map)
      BY <1>2, <1>5 DEF AppendEntry, Initialised
    <2>2. /\ entry.physical_address \in Nat /\ entry.size \in Nat /\ entry.size > 0
      BY <1>2, <2>1, LoaderFacts
    <2>3. /\ mr \in Ranges /\ mr.physical_address = entry.physical_address
          /\ mr_end(mr) = entry.physical_address + entry.size
      BY <2>2, MRFacts, ZenonT(40)
    <2>4. Below(Globals.ranges, mr.physical_address)
      BY <1>2, <2>1, <2>3, GlobalsFields DEF MapInv, EntriesAbove
    <2>5. /\ Returns(s, "append", entry.physical_address, entry.size, s.ret)
          /\ held' = IF s.bug = "none" /\ s.ret = 0 /\ type = MEMORY_ALLOCATED
                       THEN held \cup PagesOf(entry) ELSE held
          /\ next_entry' = next_entry + 1 /\ memory_map' = memory_map
      BY <1>5 DEF AppendEntry
    <2> HIDE DEF mr
    <2>6. Sound(s) /\ Below(s.ranges, mr_end(mr))
      BY <1>1, <2>3, <2>4, AppendFacts DEF Completes
    <2>7. s.ret \in Addresses
      BY <2>6, SoundFacts
    <2>8. PagesOf(entry) \subseteq Nat
      BY <2>2 DEF PagesOf, Run
    <2>9. held' \subseteq Nat
      BY <1>2, <2>5, <2>8
    <2> HIDE DEF s, entry
    <2>10. TypeOK' /\ MapOrdered' /\ ranges' = s.ranges
      BY <1>2, <2>2, <2>5, <2>6, <2>7, <2>9, ReturnsFacts
    <2>11. EntriesAbove'
      <3> SUFFICES ASSUME next_entry + 1 <= Len(memory_map)
                   PROVE  Below(s.ranges, memory_map[next_entry + 1].physical_address)
        BY <2>5, <2>10 DEF EntriesAbove
      <3>1. next_entry + 1 \in 1 .. Len(memory_map)
        BY <1>2
      <3>2. /\ mr_end(mr) <= memory_map[next_entry + 1].physical_address
            /\ mr_end(mr) \in Nat
            /\ memory_map[next_entry + 1].physical_address \in Nat
        BY <1>2, <2>1, <2>2, <2>3, <3>1, LoaderFacts DEF entry
      <3>3. \A i \in DOMAIN s.ranges : mr_end(s.ranges[i]) \in Nat
        BY <2>6, SoundFacts, MapFacts
      <3> QED
        BY <2>6, <3>2, <3>3 DEF Below
    <2> QED
      BY <2>10, <2>11 DEF MapInv
  <1>6. CASE SkipEntry
    <2>1. next_entry \in 1 .. Len(memory_map)
      BY <1>2, <1>6 DEF SkipEntry, Initialised
    <2>2. TypeOK' /\ MapOrdered'
      BY <1>2, <1>6 DEF SkipEntry, MapInv, TypeOK, MapOrdered
    <2>3. Below(ranges, memory_map[next_entry].physical_address)
      BY <1>2, <2>1 DEF MapInv, EntriesAbove
    <2>4. ASSUME next_entry + 1 <= Len(memory_map)
          PROVE  Below(ranges, memory_map[next_entry + 1].physical_address)
      <3>1. next_entry + 1 \in 1 .. Len(memory_map)
        BY <1>2, <2>4
      <3>2. /\ memory_map[next_entry].physical_address
                 <= memory_map[next_entry + 1].physical_address
            /\ memory_map[next_entry].physical_address \in Nat
            /\ memory_map[next_entry + 1].physical_address \in Nat
        BY <1>2, <2>1, <3>1, LoaderFacts
      <3>3. \A i \in DOMAIN ranges : mr_end(ranges[i]) \in Nat
        BY <1>1, GlobalsFields, SoundFacts, MapFacts
      <3> QED
        BY <2>3, <3>2, <3>3 DEF Below
    <2> QED
      BY <1>6, <2>2, <2>4 DEF SkipEntry, MapInv, EntriesAbove
  <1>7. CASE \E n \in 0 .. MaxPages : Alloc(n)
    <2>1. PICK n \in 0 .. MaxPages : Alloc(n)
      BY <1>7
    <2>2. n \in Nat
      BY <1>3
    <2> DEFINE s == boot_alloc(Globals, n)
    <2>3. Sound(s)
      BY <1>1, <2>2, AllocFacts DEF Completes
    <2>4. /\ Initialised /\ Returns(s, "alloc", 0, n, s.ret)
          /\ held' = held \cup Granted(s, n)
          /\ memory_map' = memory_map /\ next_entry' = next_entry
      BY <2>1 DEF Alloc
    <2> HIDE DEF s
    <2>5. held' \subseteq Nat /\ s.ret \in Addresses
      BY <1>2, <2>2, <2>3, <2>4, GrantedFacts, SoundFacts
    <2>6. TypeOK' /\ MapOrdered'
      BY <1>2, <2>2, <2>3, <2>4, <2>5, ReturnsFacts
    <2> QED
      BY <1>4, <2>4, <2>6 DEF MapInv
  <1>8. CASE \E a \in Pages, n \in 0 .. MaxPages : AllocAt(a, n)
    <2>1. PICK a \in Pages, n \in 0 .. MaxPages : AllocAt(a, n)
      BY <1>8
    <2>2. n \in Nat /\ a \in Nat
      BY <1>3
    <2>4. PICK s \in boot_alloc_at(Globals, a, n) :
                 /\ Initialised /\ Returns(s, "alloc_at", a, n, s.ret)
                 /\ held' = held \cup Granted(s, n)
                 /\ memory_map' = memory_map /\ next_entry' = next_entry
      BY <2>1 DEF AllocAt
    <2>3. Sound(s)
      BY <1>1, <2>2, AllocAtFacts DEF Completes
    <2>5. held' \subseteq Nat /\ s.ret \in Addresses
      BY <1>2, <2>2, <2>3, <2>4, GrantedFacts, SoundFacts
    <2>6. TypeOK' /\ MapOrdered'
      BY <1>2, <2>2, <2>3, <2>4, <2>5, ReturnsFacts
    <2> QED
      BY <1>4, <2>4, <2>6 DEF MapInv
  <1>9. CASE \E a \in Pages, n \in 0 .. MaxPages : Free(a, n)
    <2>1. PICK a \in Pages, n \in 0 .. MaxPages : Free(a, n)
      BY <1>9
    <2>2. n \in Nat /\ a \in Nat
      BY <1>3
    <2>4. PICK s \in boot_free(Globals, a, n) :
                 /\ Initialised /\ Returns(s, "free", a, n, 0)
                 /\ held' = IF s.bug = "none" THEN held \ Run(a, n) ELSE held
                 /\ memory_map' = memory_map /\ next_entry' = next_entry
      BY <2>1 DEF Free
    <2>3. Sound(s)
      BY <1>1, <2>2, FreeFacts DEF Completes
    <2>5. held' \subseteq Nat /\ 0 \in Addresses
      BY <1>2, <2>4 DEF Addresses
    <2>6. TypeOK' /\ MapOrdered'
      BY <1>2, <2>2, <2>3, <2>4, <2>5, ReturnsFacts
    <2> QED
      BY <1>4, <2>4, <2>6 DEF MapInv
  <1>10. CASE UNCHANGED vars
    BY <1>10 DEF vars, MapInv, TypeOK, MapOrdered, EntriesAbove
  <1> QED
    BY <1>5, <1>6, <1>7, <1>8, <1>9, <1>10 DEF Next

(***************************************************************************)
(* Whatever the loader passes and callers ask for, frees of no pages too,  *)
(* the map stays a sorted sequence of disjoint ranges of which only free   *)
(* ones may be empty, and no operation goes wrong on types.                *)
(***************************************************************************)
THEOREM MapStaysOrdered == Spec => [](TypeOK /\ MapOrdered)
  <1>1. MapInv => TypeOK /\ MapOrdered
    BY DEF MapInv
  <1> QED
    BY InitMapInv, NextMapInv, <1>1, PTL DEF Spec

-----------------------------------------------------------------------------
(***************************************************************************)
(* Room in the buffer.  RoomForGrowth alone is not inductive: a growth     *)
(* only makes room if the buffer it doubles has four entries at least, and *)
(* it only happens if the pages found do not start at page 0, which the    *)
(* code takes for a failure after the map has changed.                     *)
(***************************************************************************)
RoomInv == RoomForGrowth /\ g_capacity >= 4 /\ Above(ranges, 1)

LEMMA InitRoomInv == Init => RoomInv
  <1> SUFFICES ASSUME Init PROVE RoomInv
    OBVIOUS
  <1>1. Len(ranges) = 0 /\ DOMAIN ranges = {} /\ g_capacity = EntriesPerPage
    BY DEF Init
  <1>2. bug # "range_emplace_at"
    BY DEF Init
  <1> QED
    BY <1>1, <1>2, EntriesPerPageAssumption
       DEF RoomInv, RoomForGrowth, WorstCaseGrowth, Above

\* The allocator is fit whenever a call is made.
LEMMA RunningIsFit ==
    ASSUME RoomInv, Running
    PROVE  Fit(Globals)
  BY GlobalsFields DEF RoomInv, RoomForGrowth, Running, RegrowthDue, Fit, HasRoom

\* A call that completes on a fit allocator keeps the invariant.
LEMMA CompletesKeepsRoom ==
    ASSUME MapInv, RoomInv, Running, NEW s, Completes(Globals, s), Above(s.ranges, 1),
           g_capacity' = s.capacity, ranges' = s.ranges, bug' = s.bug
    PROVE  RoomInv'
  <1>1. Fit(Globals)
    BY RunningIsFit
  <1>2. /\ s.bug # "range_emplace_at"
        /\ s.bug = "none" => Len(s.ranges) + 2 <= s.capacity
        /\ g_capacity <= s.capacity /\ s.capacity \in Nat
    BY <1>1, GlobalsFields, SoundFacts DEF Completes
  <1>3. g_capacity \in Nat /\ g_capacity >= 4
    BY DEF MapInv, TypeOK, RoomInv
  <1> QED
    BY <1>2, <1>3 DEF RoomInv, RoomForGrowth, WorstCaseGrowth

LEMMA NextRoomInv ==
    ASSUME PageZeroUnused
    PROVE  MapInv /\ RoomInv /\ [Next]_vars => RoomInv'
  <1> SUFFICES ASSUME MapInv, RoomInv, [Next]_vars PROVE RoomInv'
    OBVIOUS
  <1>1. Sound(Globals) /\ Above(Globals.ranges, 1)
    BY GlobalsSound, GlobalsFields DEF RoomInv
  <1>2. /\ memory_map \in MemoryMaps /\ next_entry \in Nat \ {0}
        /\ Len(memory_map) \in Nat
    BY LoaderFacts DEF MapInv, TypeOK
  <1>3. MaxPages \in Nat /\ Pages \subseteq Nat
    BY PagesAssumption
  <1>4. CASE AppendEntry
    <2> DEFINE entry == memory_map[next_entry]
               type  == IF entry.type = "FREE" THEN MEMORY_FREE ELSE MEMORY_ALLOCATED
               mr    == MR(entry.physical_address, entry.size, type)
               s     == range_append(Globals, mr)
    <2>1. next_entry \in 1 .. Len(memory_map)
      BY <1>2, <1>4 DEF AppendEntry, Initialised
    <2>2. /\ entry.physical_address \in Nat /\ entry.size \in Nat /\ entry.size > 0
      BY <1>2, <2>1, LoaderFacts
    <2>3. mr \in Ranges /\ mr.physical_address = entry.physical_address
      BY <2>2, MRFacts
    <2>4. mr.physical_address >= 1
      <3>1. memory_map \in Seq(LoaderEntries)
        BY <1>2, MemoryMapsAssumption
      <3>2. next_entry \in DOMAIN memory_map
        BY <2>1, <3>1
      <3> QED
        BY <1>2, <2>3, <3>2 DEF PageZeroUnused
    <2>5. Below(Globals.ranges, mr.physical_address)
      BY <1>2, <2>1, <2>3, GlobalsFields DEF MapInv, EntriesAbove
    <2>6. Running /\ g_capacity' = s.capacity /\ ranges' = s.ranges /\ bug' = s.bug
      BY <1>4 DEF AppendEntry, Returns
    <2> HIDE DEF mr
    <2>7. Completes(Globals, s) /\ Above(s.ranges, 1)
      BY <1>1, <2>3, <2>4, <2>5, AppendFacts
    <2> HIDE DEF s
    <2> QED
      BY <2>6, <2>7, CompletesKeepsRoom
  <1>5. CASE SkipEntry
    BY <1>5 DEF SkipEntry, RoomInv, RoomForGrowth
  <1>6. CASE \E n \in 0 .. MaxPages : Alloc(n)
    <2>1. PICK n \in 0 .. MaxPages : Alloc(n)
      BY <1>6
    <2>2. n \in Nat
      BY <1>3
    <2> DEFINE s == boot_alloc(Globals, n)
    <2>3. Completes(Globals, s) /\ Above(s.ranges, 1)
      BY <1>1, <2>2, AllocFacts DEF Stays
    <2>4. Running /\ g_capacity' = s.capacity /\ ranges' = s.ranges /\ bug' = s.bug
      BY <2>1 DEF Alloc, Returns
    <2> HIDE DEF s
    <2> QED
      BY <2>3, <2>4, CompletesKeepsRoom
  <1>7. CASE \E a \in Pages, n \in 0 .. MaxPages : AllocAt(a, n)
    <2>1. PICK a \in Pages, n \in 0 .. MaxPages : AllocAt(a, n)
      BY <1>7
    <2>2. n \in Nat /\ a \in Nat
      BY <1>3
    <2>4. PICK s \in boot_alloc_at(Globals, a, n) :
                 /\ Running /\ g_capacity' = s.capacity
                 /\ ranges' = s.ranges /\ bug' = s.bug
      BY <2>1 DEF AllocAt, Returns
    <2>3. Completes(Globals, s) /\ Above(s.ranges, 1)
      BY <1>1, <2>2, AllocAtFacts DEF Stays
    <2> QED
      BY <2>3, <2>4, CompletesKeepsRoom
  <1>8. CASE \E a \in Pages, n \in 0 .. MaxPages : Free(a, n)
    <2>1. PICK a \in Pages, n \in 0 .. MaxPages : Free(a, n)
      BY <1>8
    <2>2. n \in Nat /\ a \in Nat
      BY <1>3
    <2>4. PICK s \in boot_free(Globals, a, n) :
                 /\ Running /\ g_capacity' = s.capacity
                 /\ ranges' = s.ranges /\ bug' = s.bug
      BY <2>1 DEF Free, Returns
    <2>3. Completes(Globals, s) /\ Above(s.ranges, 1)
      BY <1>1, <2>2, FreeFacts DEF Stays
    <2> QED
      BY <2>3, <2>4, CompletesKeepsRoom
  <1>9. CASE UNCHANGED vars
    BY <1>9 DEF vars, RoomInv, RoomForGrowth
  <1> QED
    BY <1>4, <1>5, <1>6, <1>7, <1>8, <1>9 DEF Next

(***************************************************************************)
(* Where the loader keeps page 0 to itself, the map never outgrows its     *)
(* buffer: the capacity check of range_emplace_at never fires, for every   *)
(* page size, loader map and sequence of calls up to the growth of a       *)
(* buffer that is dynamic already.                                         *)
(***************************************************************************)
THEOREM BufferNeverOverflows == PageZeroUnused => (Spec => []RoomForGrowth)
  <1> SUFFICES ASSUME PageZeroUnused PROVE Spec => []RoomForGrowth
    OBVIOUS
  <1>1. MapInv /\ RoomInv /\ [Next]_vars => MapInv' /\ RoomInv'
    BY NextMapInv, NextRoomInv
  <1>2. Init => MapInv /\ RoomInv
    BY InitMapInv, InitRoomInv
  <1>3. MapInv /\ RoomInv => RoomForGrowth
    BY DEF RoomInv
  <1> QED
    BY <1>1, <1>2, <1>3, PTL DEF Spec

-----------------------------------------------------------------------------
(***************************************************************************)
(* Seams.                                                                  *)
(***************************************************************************)

\* Two ways to say that every seam of a map is one of a set B.
LEMMA SeamsOfMap ==
    ASSUME NEW m, IsMemoryMap(m), NEW B
    PROVE  (\A b : SeamAt(m, b) => b \in B) <=>
              \A i \in 1 .. (Len(m) - 1) :
                 can_merge_ranges(m[i], m[i + 1]) => m[i + 1].physical_address \in B
  <1>1. Len(m) \in Nat /\ DOMAIN m = 1 .. Len(m)
    BY MapFacts
  <1>2. ASSUME NEW i \in 1 .. (Len(m) - 1) PROVE i \in DOMAIN m
    BY <1>1
  <1> QED
    BY <1>1, <1>2, Zenon DEF SeamAt, Mergeable

\* The addresses at which the loader's entries touch.
LoaderSeams == {b \in Nat : LoaderSeam(b)}

SeamsAreLoaders == \A b : SeamAt(ranges, b) => b \in LoaderSeams

LEMMA SeamsOfRanges == MapInv => (OnlyLoaderSeams <=> SeamsAreLoaders)
  <1> SUFFICES ASSUME MapInv PROVE OnlyLoaderSeams <=> SeamsAreLoaders
    OBVIOUS
  <1>1. IsMemoryMap(ranges) /\ Len(ranges) \in Nat
    BY GlobalsSound, GlobalsFields, SoundFacts
  <1>2. ASSUME NEW i \in 1 .. (Len(ranges) - 1)
        PROVE  ranges[i + 1].physical_address \in LoaderSeams <=>
                 LoaderSeam(ranges[i + 1].physical_address)
    <2>1. i + 1 \in 1 .. Len(ranges)
      BY <1>1
    <2>2. ranges[i + 1].physical_address \in Nat
      BY <1>1, <2>1, MapFacts
    <2> QED
      BY <2>2 DEF LoaderSeams
  <1> QED
    BY <1>1, <1>2, SeamsOfMap DEF OnlyLoaderSeams, SeamsAreLoaders

\* What an append adds to the seams and the pages of the map.
LEMMA AppendSeams ==
    ASSUME NEW s, Sound(s), s.bug = "none", CutsOf(s.ranges) = {},
           NEW mr \in Ranges, Below(s.ranges, mr.physical_address)
    PROVE  LET t == range_append(s, mr)
           IN  /\ Known(t.ranges) \subseteq Known(s.ranges) \cup PagesOf(mr)
               /\ \A b : SeamAt(t.ranges, b) =>
                    \/ SeamAt(s.ranges, b)
                    \/ b = mr.physical_address /\ b - 1 \in Known(s.ranges)
  <1> DEFINE g == maybe_grow_buffer(s)
             t == range_append(s, mr)
  <1>1. Sound(g) /\ Stays(s, g, 2)
    BY GrowFacts
  <1>2. Sound(t)
    BY AppendFacts DEF Completes
  <1>3. t.ranges = g.ranges \/ t.ranges = Append(g.ranges, mr)
    <2>1. t = IF g.bug # "none" THEN g
              ELSE IF ~g.ok THEN [g EXCEPT !.ret = ENOMEM]
              ELSE IF Len(g.ranges) >= g.capacity
                   THEN [g EXCEPT !.bug = "range_emplace_at"]
              ELSE [g EXCEPT !.ranges = Append(g.ranges, mr), !.ret = 0]
      BY DEF range_append
    <2> HIDE DEF g, t
    <2> QED
      BY <1>1, <2>1 DEF Sound, States
  <1>4. IsMemoryMap(g.ranges) /\ IsMemoryMap(t.ranges)
    BY <1>1, <1>2, SoundFacts
  <1>8. CutsOf(g.ranges) = {}
    BY GrowCuts DEF SameCuts
  <1> HIDE DEF g, t
  <1>5. /\ Known(g.ranges) \subseteq Known(s.ranges)
        /\ \A b : SeamAt(g.ranges, b) => SeamAt(s.ranges, b)
    BY <1>1 DEF Stays
  <1>6. CASE t.ranges = g.ranges
    BY <1>5, <1>6 DEF t
  <1>7. CASE t.ranges = Append(g.ranges, mr)
    <2> DEFINE m == g.ranges
    <2>1. /\ PagesOfType(t.ranges, MEMORY_FREE) \subseteq
               PagesOfType(m, MEMORY_FREE) \cup PagesOf(mr)
          /\ PagesOfType(t.ranges, MEMORY_ALLOCATED) \subseteq
               PagesOfType(m, MEMORY_ALLOCATED) \cup PagesOf(mr)
      BY <1>4, <1>7, AppendPages
    <2>2. ASSUME NEW b, SeamAt(t.ranges, b)
          PROVE  \/ SeamAt(m, b)
                 \/ /\ Len(m) > 0 /\ can_merge_ranges(m[Len(m)], mr)
                    /\ b = mr.physical_address
      BY <1>4, <1>7, <2>2, AppendPages
    <2>3. ASSUME Len(m) > 0, can_merge_ranges(m[Len(m)], mr)
          PROVE  mr.physical_address - 1 \in Known(m)
      <3>1. Len(m) \in 1 .. Len(m) /\ Len(m) \in DOMAIN m
        BY <1>4, <2>3, MapFacts
      <3>2. m[Len(m)] \in Ranges
        BY <1>4, <3>1 DEF IsMemoryMap
      <3> DEFINE last == m[Len(m)]
                 p    == mr.physical_address - 1
      <3>7. last.size # 0
        BY <1>8, <3>1, Zenon DEF CutsOf
      <3> HIDE DEF last
      <3>3. /\ last.physical_address \in Nat /\ last.size \in Nat /\ last.size > 0
            /\ mr_end(last) = last.physical_address + last.size
            /\ mr_end(last) = mr.physical_address
            /\ last.type \in {MEMORY_FREE, MEMORY_ALLOCATED}
        BY <2>3, <3>2, <3>7, RangeFacts DEF can_merge_ranges, last
      <3>4. p \in Nat /\ Covers(last, p)
        BY <3>3 DEF Covers
      <3> HIDE DEF p
      <3>5. TypeAt(m, p, last.type)
        BY <3>1, <3>4, Zenon DEF TypeAt, last
      <3>6. p \in PagesOfType(m, last.type)
        BY <1>4, <3>4, <3>5, PagesOfTypeAt
      <3> QED
        BY <3>3, <3>6 DEF Known, p
    <2>4. Known(t.ranges) \subseteq Known(s.ranges) \cup PagesOf(mr)
      BY <1>5, <2>1 DEF Known
    <2>5. ASSUME NEW b, SeamAt(t.ranges, b)
          PROVE  \/ SeamAt(s.ranges, b)
                 \/ b = mr.physical_address /\ b - 1 \in Known(s.ranges)
      BY <1>5, <2>2, <2>3, <2>5
    <2> QED
      BY <2>4, <2>5 DEF t
  <1> QED
    BY <1>3, <1>6, <1>7

(***************************************************************************)
(* The strengthening.  OnlyLoaderSeams is not inductive: an entry that is  *)
(* appended may touch the last range of the map, and only then is a seam   *)
(* the loader's when what the map ends with is memory the loader passed    *)
(* and not an empty range, of which there are none before the first free.  *)
(***************************************************************************)
FromLoader ==
    \A p \in Known(ranges) :
        \E i \in 1 .. Len(memory_map) : i < next_entry /\ p \in PagesOf(memory_map[i])

NoCutsYet == ~Initialised => Cuts = {}

SeamInv == OnlyLoaderSeams /\ FromLoader /\ NoCutsYet

LEMMA InitSeamInv == Init => SeamInv
  <1> SUFFICES ASSUME Init PROVE SeamInv
    OBVIOUS
  <1>1. ranges = <<>> /\ DOMAIN ranges = {} /\ Len(ranges) = 0
    BY DEF Init
  <1>2. Known(ranges) = {}
    BY <1>1 DEF Known, PagesOfType
  <1>3. Cuts = {}
    BY <1>1 DEF Cuts, CutsOf
  <1> QED
    BY <1>1, <1>2, <1>3 DEF SeamInv, OnlyLoaderSeams, FromLoader, NoCutsYet

\* A call that adds neither seams nor pages keeps the invariant.
LEMMA StaysKeepsSeams ==
    ASSUME MapInv, MapInv', SeamInv, NEW s, NEW k, Stays(Globals, s, k),
           Initialised, ranges' = s.ranges,
           memory_map' = memory_map, next_entry' = next_entry
    PROVE  SeamInv'
  <1>1. SeamsAreLoaders
    BY SeamsOfRanges DEF SeamInv
  <1>2. /\ Known(ranges') \subseteq Known(ranges)
        /\ \A b : SeamAt(ranges', b) => SeamAt(ranges, b)
    BY GlobalsFields DEF Stays
  <1>3. SeamsAreLoaders'
    BY <1>1, <1>2 DEF SeamsAreLoaders, LoaderSeams, LoaderSeam
  <1>4. OnlyLoaderSeams'
    BY <1>3, SeamsOfRanges, PTL
  <1>5. FromLoader'
    BY <1>2 DEF FromLoader, SeamInv
  <1>6. NoCutsYet'
    BY DEF NoCutsYet, Initialised
  <1> QED
    BY <1>4, <1>5, <1>6 DEF SeamInv

\* The range that an entry of the loader becomes.
LEMMA EntryFacts ==
    \A a, n \in Nat, t \in {MEMORY_FREE, MEMORY_ALLOCATED} : n > 0 =>
        /\ MR(a, n, t) \in Ranges /\ MR(a, n, t).physical_address = a
        /\ MR(a, n, t).size = n /\ MR(a, n, t).type = t
  BY DEF MR, Ranges

\* A run whose last page is b - 1 ends at b.
LEMMA EndOfRun ==
    \A a, n, b \in Nat : b - 1 \in a .. (a + n - 1) /\ a + n <= b => a + n = b
  OBVIOUS

LEMMA NextSeamInv == MapInv /\ MapInv' /\ SeamInv /\ [Next]_vars => SeamInv'
  <1> SUFFICES ASSUME MapInv, MapInv', SeamInv, [Next]_vars PROVE SeamInv'
    OBVIOUS
  <1>1. Sound(Globals)
    BY GlobalsSound
  <1>2. /\ memory_map \in MemoryMaps /\ next_entry \in Nat \ {0}
        /\ Len(memory_map) \in Nat
    BY LoaderFacts DEF MapInv, TypeOK
  <1>3. MaxPages \in Nat /\ Pages \subseteq Nat
    BY PagesAssumption
  <1>4. CASE AppendEntry
    <2> DEFINE entry == memory_map[next_entry]
               type  == IF entry.type = "FREE" THEN MEMORY_FREE ELSE MEMORY_ALLOCATED
               mr    == MR(entry.physical_address, entry.size, type)
               s     == range_append(Globals, mr)
    <2>1. next_entry \in 1 .. Len(memory_map)
      BY <1>2, <1>4 DEF AppendEntry, Initialised
    <2>2. /\ entry.physical_address \in Nat /\ entry.size \in Nat /\ entry.size > 0
      BY <1>2, <2>1, LoaderFacts
    <2>3. /\ mr \in Ranges /\ mr.physical_address = entry.physical_address
          /\ mr.size = entry.size
      BY <2>2, MRFacts
    <2>4. Below(Globals.ranges, mr.physical_address)
      BY <1>2, <2>1, <2>3, GlobalsFields DEF MapInv, EntriesAbove
    <2>5. /\ ranges' = s.ranges /\ memory_map' = memory_map
          /\ next_entry' = next_entry + 1
      BY <1>4 DEF AppendEntry, Returns
    <2>6. PagesOf(mr) = PagesOf(memory_map[next_entry])
      BY <2>3 DEF PagesOf
    <2>12. Globals.bug = "none" /\ CutsOf(Globals.ranges) = {}
      BY <1>4, GlobalsFields
         DEF AppendEntry, Running, SeamInv, NoCutsYet, Cuts
    <2> HIDE DEF mr, entry
    <2>13. Cuts' = {}
      BY <1>1, <2>2, <2>3, <2>5, <2>12, AppendCuts DEF SameCuts, Cuts
    <2>7. /\ Known(ranges') \subseteq Known(ranges) \cup PagesOf(mr)
          /\ \A b : SeamAt(ranges', b) =>
               \/ SeamAt(ranges, b)
               \/ b = mr.physical_address /\ b - 1 \in Known(ranges)
      BY <1>1, <2>3, <2>4, <2>5, <2>12, AppendSeams, GlobalsFields
    <2> HIDE DEF s
    <2>8. FromLoader'
      <3> SUFFICES ASSUME NEW p \in Known(ranges')
                   PROVE  \E i \in 1 .. Len(memory_map) :
                             i < next_entry + 1 /\ p \in PagesOf(memory_map[i])
        BY <2>5 DEF FromLoader
      <3>1. CASE p \in Known(ranges)
        <4>1. PICK i \in 1 .. Len(memory_map) :
                      i < next_entry /\ p \in PagesOf(memory_map[i])
          BY <3>1 DEF SeamInv, FromLoader
        <4>2. i < next_entry + 1
          BY <1>2, <4>1
        <4> QED
          BY <4>1, <4>2
      <3>2. CASE p \in PagesOf(mr)
        BY <1>2, <2>1, <2>6, <3>2
      <3> QED
        BY <2>7, <3>1, <3>2
    <2>9. ASSUME entry.physical_address - 1 \in Known(ranges)
          PROVE  entry.physical_address \in LoaderSeams
      <3> DEFINE b == entry.physical_address
                 k == next_entry - 1
      <3>1. PICK i \in 1 .. Len(memory_map) :
                    i < next_entry /\ b - 1 \in PagesOf(memory_map[i])
        BY <2>9 DEF SeamInv, FromLoader
      <3>2. /\ memory_map[i].physical_address \in Nat /\ memory_map[i].size \in Nat
            /\ memory_map[i].physical_address + memory_map[i].size <= b
        BY <1>2, <2>1, <3>1, LoaderFacts DEF entry
      <3>3. memory_map[i].physical_address + memory_map[i].size = b
        <4> HIDE DEF b
        <4>1. b - 1 \in memory_map[i].physical_address ..
                          (memory_map[i].physical_address + memory_map[i].size - 1)
          BY <3>1, Zenon DEF PagesOf, Run
        <4>2. b \in Nat
          BY <2>2, Zenon DEF b
        <4> QED
          BY <3>2, <4>1, <4>2, EndOfRun, Zenon
      <3>4. i = k
        <4> SUFFICES ASSUME i < k PROVE FALSE
          BY <1>2, <3>1
        <4>1. k \in 1 .. Len(memory_map) /\ k < next_entry
          BY <1>2, <2>1
        <4>2. /\ memory_map[k].physical_address \in Nat /\ memory_map[k].size \in Nat
              /\ memory_map[k].size > 0
              /\ b <= memory_map[k].physical_address
              /\ memory_map[k].physical_address + memory_map[k].size <= b
          BY <1>2, <2>1, <3>1, <3>3, <4>1, LoaderFacts DEF entry
        <4> QED
          BY <2>2, <4>2
      <3>5. k \in 1 .. (Len(memory_map) - 1) /\ k + 1 = next_entry
        BY <1>2, <2>1, <3>1, <3>4
      <3>6. mr_end(memory_map[k]) = b /\ memory_map[k + 1].physical_address = b
        BY <3>3, <3>4, <3>5 DEF mr_end, entry
      <3> QED
        BY <2>2, <3>5, <3>6 DEF LoaderSeams, LoaderSeam
    <2>10. SeamsAreLoaders'
      <3>1. SeamsAreLoaders
        BY SeamsOfRanges DEF SeamInv
      <3>2. LoaderSeams' = LoaderSeams
        BY <2>5 DEF LoaderSeams, LoaderSeam
      <3> QED
        BY <2>3, <2>7, <2>9, <3>1, <3>2 DEF SeamsAreLoaders
    <2>11. OnlyLoaderSeams'
      BY <2>10, SeamsOfRanges, PTL
    <2> QED
      BY <2>8, <2>11, <2>13 DEF SeamInv, NoCutsYet
  <1>5. CASE SkipEntry
    <2>1. /\ ranges' = ranges /\ memory_map' = memory_map
          /\ next_entry' = next_entry + 1
      BY <1>5 DEF SkipEntry
    <2>2. \A i \in 1 .. Len(memory_map) : i < next_entry => i < next_entry + 1
      BY <1>2
    <2>3. FromLoader'
      BY <2>1, <2>2, Zenon DEF SeamInv, FromLoader
    <2>4. OnlyLoaderSeams'
      BY <2>1 DEF SeamInv, OnlyLoaderSeams, LoaderSeam
    <2>5. NoCutsYet'
      BY <1>5, <2>1 DEF SkipEntry, SeamInv, NoCutsYet, Cuts
    <2> QED
      BY <2>3, <2>4, <2>5 DEF SeamInv
  <1>6. CASE \E n \in 0 .. MaxPages : Alloc(n)
    <2>1. PICK n \in 0 .. MaxPages : Alloc(n)
      BY <1>6
    <2> DEFINE s == boot_alloc(Globals, n)
    <2>2. Stays(Globals, s, 4)
      BY <1>1, <1>3, AllocFacts
    <2>3. /\ Initialised /\ ranges' = s.ranges
          /\ memory_map' = memory_map /\ next_entry' = next_entry
      BY <2>1 DEF Alloc, Returns
    <2> HIDE DEF s
    <2> QED
      BY <2>2, <2>3, StaysKeepsSeams
  <1>7. CASE \E a \in Pages, n \in 0 .. MaxPages : AllocAt(a, n)
    <2>1. PICK a \in Pages, n \in 0 .. MaxPages : AllocAt(a, n)
      BY <1>7
    <2>2. PICK s \in boot_alloc_at(Globals, a, n) :
                 /\ Initialised /\ ranges' = s.ranges
                 /\ memory_map' = memory_map /\ next_entry' = next_entry
      BY <2>1 DEF AllocAt, Returns
    <2>3. Stays(Globals, s, 4)
      BY <1>1, <1>3, AllocAtFacts
    <2> QED
      BY <2>2, <2>3, StaysKeepsSeams
  <1>8. CASE \E a \in Pages, n \in 0 .. MaxPages : Free(a, n)
    <2>1. PICK a \in Pages, n \in 0 .. MaxPages : Free(a, n)
      BY <1>8
    <2>2. PICK s \in boot_free(Globals, a, n) :
                 /\ Initialised /\ ranges' = s.ranges
                 /\ memory_map' = memory_map /\ next_entry' = next_entry
      BY <2>1 DEF Free, Returns
    <2>3. Stays(Globals, s, 4)
      BY <1>1, <1>3, FreeFacts
    <2> QED
      BY <2>2, <2>3, StaysKeepsSeams
  <1>9. CASE UNCHANGED vars
    BY <1>9 DEF vars, SeamInv, OnlyLoaderSeams, LoaderSeam, FromLoader,
                NoCutsYet, Initialised, Cuts
  <1> QED
    BY <1>4, <1>5, <1>6, <1>7, <1>8, <1>9 DEF Next

(***************************************************************************)
(* Whatever is allocated and freed, and in whichever order, the map is as  *)
(* short as the loader's own entries and the frees of no pages allow:      *)
(* allocate_out_of merges every pair of neighbours of one type that it     *)
(* brings about.                                                           *)
(***************************************************************************)
THEOREM NoFragmentation == Spec => []OnlyLoaderSeams
  <1>1. Init => MapInv /\ SeamInv
    BY InitMapInv, InitSeamInv
  <1>2. MapInv /\ SeamInv /\ [Next]_vars => MapInv' /\ SeamInv'
    BY NextMapInv, NextSeamInv
  <1>3. SeamInv => OnlyLoaderSeams
    BY DEF SeamInv
  <1> QED
    BY <1>1, <1>2, <1>3, PTL DEF Spec

-----------------------------------------------------------------------------
(***************************************************************************)
(* What the operators of BootAlloc do to sets of pages, when the allocator *)
(* is fit: there is room in the map, and page 0 is not in it.              *)
(***************************************************************************)
FreeIn(s) == PagesOfType(s.ranges, MEMORY_FREE)
TakenIn(s) == PagesOfType(s.ranges, MEMORY_ALLOCATED)
OwnIn(s) == IF s.buffer >= 0 THEN Run(s.buffer, pages_for(s.capacity)) ELSE {}

\* From s to t the pages P, which were free, become allocated.
Takes(s, t, P) ==
    /\ P \subseteq FreeIn(s)
    /\ FreeIn(t) = FreeIn(s) \ P
    /\ TakenIn(t) = TakenIn(s) \cup P

LEMMA RunOfMR ==
    ASSUME NEW a, NEW n, NEW t
    PROVE  PagesOf(MR(a, n, t)) = Run(a, n)
  BY DEF PagesOf, MR

\* With room in the map, a carve that the BUG_ONs let through succeeds.
LEMMA CarveDoes ==
    ASSUME NEW s, Sound(s), HasRoom(s), NEW idx \in 1 .. Len(s.ranges),
           NEW mr \in Ranges, may_allocate_out_of(s.ranges[idx], mr)
    PROVE  LET map == allocate_out_of(s.ranges, idx, mr)
               t   == carve(s, idx, mr)
           IN  IsMemoryMap(map) /\ t.ranges = map /\ t.bug = "none"
  <1> DEFINE map == allocate_out_of(s.ranges, idx, mr)
  <1>1. IsMemoryMap(map) /\ Len(map) <= Len(s.ranges) + 2
    BY SoundFacts, AllocateOutOfFacts
  <1>2. Len(map) \in Nat
    BY <1>1, MapFacts
  <1>3. ~(Len(map) > s.capacity)
    BY <1>1, <1>2, SoundFacts DEF HasRoom, WorstCaseGrowth
  <1>4. carve(s, idx, mr) = [s EXCEPT !.ranges = map]
    BY <1>3 DEF carve
  <1> HIDE DEF map
  <1>5. [s EXCEPT !.ranges = map].ranges = map /\ [s EXCEPT !.ranges = map].bug = "none"
    BY <1>1, RangesFacts DEF HasRoom
  <1> QED
    BY <1>1, <1>4, <1>5 DEF map

LEMMA CarveTakes ==
    ASSUME NEW s, Sound(s), HasRoom(s), NEW idx \in 1 .. Len(s.ranges),
           NEW base \in Nat, NEW n \in Nat, n > 0, NEW t, CarvesFree(s, t, n, idx, base)
    PROVE  t.bug = "none" /\ t.ret = base /\ Takes(s, t, Run(base, n))
  <1> DEFINE mr  == MR(base, n, MEMORY_ALLOCATED)
             c   == carve(s, idx, mr)
             map == allocate_out_of(s.ranges, idx, mr)
  <1>1. /\ s.ranges[idx].type = MEMORY_FREE
        /\ s.ranges[idx].physical_address <= base
        /\ base + n <= mr_end(s.ranges[idx])
        /\ t = [c EXCEPT !.ret = base]
    BY DEF CarvesFree
  <1>2. /\ mr \in Ranges /\ mr.physical_address = base /\ mr_end(mr) = base + n
        /\ mr.type = MEMORY_ALLOCATED
    BY MRFacts
  <1>3. MEMORY_FREE # MEMORY_ALLOCATED
    BY DEF MEMORY_FREE, MEMORY_ALLOCATED
  <1>4. PagesOf(mr) = Run(base, n)
    BY RunOfMR
  <1> HIDE DEF mr
  <1>5. may_allocate_out_of(s.ranges[idx], mr)
    BY <1>1, <1>2, <1>3 DEF may_allocate_out_of
  <1>6. c.ranges = map /\ c.bug = "none"
    BY <1>2, <1>5, CarveDoes
  <1>7. Sound(c) /\ base \in Addresses
    BY <1>2, CarveFacts DEF Addresses
  <1> HIDE DEF c
  <1>8. t.ranges = map /\ t.bug = "none" /\ t.ret = base
    BY <1>1, <1>6, <1>7, RetFacts
  <1>9. /\ PagesOf(mr) \subseteq PagesOfType(s.ranges, MEMORY_FREE)
        /\ PagesOfType(map, MEMORY_ALLOCATED) =
             PagesOfType(s.ranges, MEMORY_ALLOCATED) \cup PagesOf(mr)
        /\ PagesOfType(map, MEMORY_FREE) =
             PagesOfType(s.ranges, MEMORY_FREE) \ PagesOf(mr)
    BY <1>2, <1>3, <1>5, SoundFacts, CarvedPages, SMTT(30)
  <1> HIDE DEF map
  <1> QED
    BY <1>4, <1>8, <1>9 DEF Takes, FreeIn, TakenIn

LEMMA TopDownTakes ==
    ASSUME NEW s, Sound(s), HasRoom(s), Above(s.ranges, 1), NEW n \in Nat, n > 0
    PROVE  LET t == allocate_top_down(s, n)
           IN  /\ t.bug = "none"
               /\ \/ /\ t.ret = ENOMEM /\ t.ranges = s.ranges
                     /\ \A i \in 1 .. Len(s.ranges) :
                          ~(s.ranges[i].type = MEMORY_FREE /\ s.ranges[i].size >= n)
                  \/ t.ret \in Nat /\ t.ret >= 1 /\ Takes(s, t, Run(t.ret, n))
  <1> DEFINE t == allocate_top_down(s, n)
             None == \A i \in 1 .. Len(s.ranges) :
                        ~(s.ranges[i].type = MEMORY_FREE /\ s.ranges[i].size >= n)
  <1>0. \/ n = 0 /\ t = [s EXCEPT !.bug = "invalid allocation"]
        \/ n > 0 /\ t = [s EXCEPT !.ret = ENOMEM] /\ None
        \/ n > 0 /\ \E idx \in 1 .. Len(s.ranges), base \in Nat :
                      CarvesFree(s, t, n, idx, base)
    BY TopDownCases
  <1>2. Above(s.ranges, 1) /\ t.bug = "none" => t.ret # 0
    BY TopDownFacts
  <1> HIDE DEF t, None
  <1>1. \/ t = [s EXCEPT !.ret = ENOMEM] /\ None
        \/ \E idx \in 1 .. Len(s.ranges), base \in Nat : CarvesFree(s, t, n, idx, base)
    <2>1. n # 0
      OBVIOUS
    <2> QED
      BY <1>0, <2>1, Zenon
  <1>3. CASE t = [s EXCEPT !.ret = ENOMEM] /\ None
    <2>1. ENOMEM \in Addresses
      BY DEF Addresses
    <2>2. t.ranges = s.ranges /\ t.bug = "none" /\ t.ret = ENOMEM
      BY <1>3, <2>1, RetFacts DEF HasRoom
    <2> QED
      BY <1>3, <2>2 DEF t, None
  <1>4. ASSUME NEW idx \in 1 .. Len(s.ranges), NEW base \in Nat,
               CarvesFree(s, t, n, idx, base)
        PROVE  t.bug = "none" /\ t.ret \in Nat /\ t.ret >= 1 /\ Takes(s, t, Run(t.ret, n))
    <2>1. t.bug = "none" /\ t.ret = base /\ Takes(s, t, Run(base, n))
      BY <1>4, CarveTakes
    <2> QED
      BY <1>2, <2>1
  <1> QED
    BY <1>1, <1>3, <1>4 DEF t

\* The buffer that np pages are taken for has np pages.
LEMMA PagesForWhole ==
    ASSUME NEW q \in Nat
    PROVE  pages_for(q * EntriesPerPage) = q
  <1> DEFINE E == EntriesPerPage
             x == q * E + E - 1
             d == x \div E
  <1>1. E \in Nat /\ E >= 4 /\ q * E \in Nat
    BY EntriesPerPageAssumption
  <1> HIDE DEF E
  <1>2. x \in Nat
    BY <1>1
  <1>3. d \in Nat /\ E * d <= x /\ x < E * d + E
    BY <1>1, <1>2
  <1>4. E * d \in Nat /\ q * E = E * q /\ E * (d + 1) = E * d + E /\ E * (q + 1) = E * q + E
    BY <1>1, <1>3
  <1>5. E * q < E * (d + 1) /\ E * d < E * (q + 1)
    BY <1>1, <1>3, <1>4
  <1>6. q < d + 1 /\ d < q + 1
    <2>1. d + 1 <= q => E * (d + 1) <= E * q
      BY <1>1, <1>3
    <2>2. q + 1 <= d => E * (q + 1) <= E * d
      BY <1>1, <1>3
    <2> QED
      BY <1>1, <1>3, <1>4, <1>5, <2>1, <2>2
  <1> QED
    BY <1>3, <1>6 DEF pages_for, E

(***************************************************************************)
(* A growth takes free pages, all of them for the buffer; a growth that    *)
(* finds none takes nothing, and leaves a buffer that is nowhere.          *)
(***************************************************************************)
LEMMA GrowTakes ==
    ASSUME NEW s, Sound(s), Fit(s)
    PROVE  LET g == maybe_grow_buffer(s)
           IN  /\ Sound(g) /\ HasRoom(g) /\ Above(g.ranges, 1) /\ g.ok = TRUE
               /\ OwnIn(s) \subseteq OwnIn(g)
               /\ Takes(s, g, OwnIn(g) \ OwnIn(s))
               /\ ~GrowthDue(s.buffer, s.capacity, s.ranges) => g = s
  <1> DEFINE np == pages_for(2 * s.capacity)
             a  == boot_alloc_nogrow(s, np)
             g  == maybe_grow_buffer(s)
  <1>1. /\ s.capacity \in Nat /\ s.capacity >= 4 /\ HasRoom(s) /\ Above(s.ranges, 1)
        /\ s.bug = "none" /\ s.ok = TRUE
    BY SoundFacts DEF Fit, HasRoom
  <1>2. np \in Nat /\ 2 * s.capacity <= np * EntriesPerPage
    BY <1>1, PagesForFacts
  <1>3. np > 0
    <2>1. np = 0 => np * EntriesPerPage = 0
      BY EntriesPerPageAssumption
    <2> HIDE DEF np
    <2> QED
      BY <1>1, <1>2, <2>1
  <1>4. pages_for(np * EntriesPerPage) = np
    BY <1>2, PagesForWhole
  <1>5. g = IF ~GrowthDue(s.buffer, s.capacity, s.ranges) THEN s
            ELSE IF a.bug # "none" THEN a
            ELSE IF a.ret = 0 THEN [a EXCEPT !.ok = FALSE]
            ELSE [a EXCEPT !.buffer = a.ret, !.capacity = np * EntriesPerPage]
    BY DEF maybe_grow_buffer
  <1>6. /\ Sound(g) /\ Stays(s, g, 2) /\ g.bug # "range_emplace_at"
        /\ g.bug = "none" => g.ok = TRUE /\ Len(g.ranges) + 4 <= g.capacity
    BY GrowFacts
  <1> HIDE DEF g, np
  <1>7. Above(g.ranges, 1)
    BY <1>1, <1>6 DEF Stays
  <1>8. g.bug = "none" => HasRoom(g) /\ g.ok = TRUE
    BY <1>6, SoundFacts DEF HasRoom, WorstCaseGrowth
  <1>9. CASE ~GrowthDue(s.buffer, s.capacity, s.ranges)
    <2>1. g = s
      BY <1>5, <1>9
    <2>2. Takes(s, s, OwnIn(s) \ OwnIn(s))
      BY DEF Takes
    <2> QED
      BY <1>1, <1>6, <1>7, <1>8, <2>1, <2>2 DEF g
  <1>10. CASE GrowthDue(s.buffer, s.capacity, s.ranges)
    <2>1. /\ a.bug = "none"
          /\ \/ a.ret = ENOMEM /\ a.ranges = s.ranges
             \/ a.ret \in Nat /\ a.ret >= 1 /\ Takes(s, a, Run(a.ret, np))
      BY <1>1, <1>2, <1>3, TopDownTakes DEF boot_alloc_nogrow
    <2>2. Sound(a)
      BY <1>2, TopDownFacts DEF Allocates, boot_alloc_nogrow
    <2> HIDE DEF a
    <2>3. a.ret # 0
      BY <2>1 DEF ENOMEM
    <2>4. g = [a EXCEPT !.buffer = a.ret, !.capacity = np * EntriesPerPage]
      BY <1>5, <1>10, <2>1, <2>3
    <2>5. /\ g.ranges = a.ranges /\ g.bug = "none" /\ g.buffer = a.ret
          /\ g.capacity = np * EntriesPerPage
      BY <2>1, <2>2, <2>4 DEF Sound, States
    <2>6. OwnIn(s) = {}
      BY <1>10 DEF Fit, OwnIn, g_initial_buffer
    <2>7. CASE a.ret = ENOMEM /\ a.ranges = s.ranges
      <3>1. OwnIn(g) = {}
        BY <2>5, <2>7 DEF OwnIn, ENOMEM
      <3>2. Takes(s, g, {})
        BY <2>5, <2>7 DEF Takes, FreeIn, TakenIn
      <3> QED
        BY <1>6, <1>7, <1>8, <1>10, <2>5, <2>6, <3>1, <3>2 DEF g
    <2>8. CASE a.ret \in Nat /\ a.ret >= 1 /\ Takes(s, a, Run(a.ret, np))
      <3>1. OwnIn(g) = Run(a.ret, np)
        BY <1>4, <2>5, <2>8 DEF OwnIn
      <3>2. Takes(s, g, Run(a.ret, np))
        BY <2>5, <2>8 DEF Takes, FreeIn, TakenIn
      <3>3. OwnIn(g) \ OwnIn(s) = Run(a.ret, np) /\ OwnIn(s) \subseteq OwnIn(g)
        BY <2>6, <3>1
      <3> QED
        BY <1>6, <1>7, <1>8, <1>10, <2>5, <3>2, <3>3 DEF g
    <2> QED
      BY <2>1, <2>7, <2>8
  <1> QED
    BY <1>9, <1>10

\* The pages the call took for the buffer, and those it gave its caller.
Grown(s, t) == OwnIn(t) \ OwnIn(s)

\* From s to t the call takes P for its caller, apart from what the buffer took.
Gives(s, t, P) ==
    /\ OwnIn(s) \subseteq OwnIn(t)
    /\ P \cap Grown(s, t) = {}
    /\ Takes(s, t, P \cup Grown(s, t))

\* From s to t the caller gives P back.
TakesBack(s, t, P) ==
    /\ OwnIn(s) \subseteq OwnIn(t)
    /\ P \subseteq TakenIn(s) \cup Grown(s, t)
    /\ Grown(s, t) \subseteq FreeIn(s)
    /\ FreeIn(t) = (FreeIn(s) \ Grown(s, t)) \cup P
    /\ TakenIn(t) = (TakenIn(s) \cup Grown(s, t)) \ P

\* What follows the growth changes the map and not the buffer.
LEMMA GivesAfterGrowth ==
    ASSUME NEW s, NEW g, NEW t, NEW P, OwnIn(s) \subseteq OwnIn(g),
           Takes(s, g, Grown(s, g)), Takes(g, t, P), SameBuffer(g, t)
    PROVE  Gives(s, t, P)
  <1>1. OwnIn(t) = OwnIn(g) /\ Grown(s, t) = Grown(s, g)
    BY DEF SameBuffer, OwnIn, Grown
  <1>2. P \subseteq FreeIn(s) \ Grown(s, g)
    BY DEF Takes
  <1>3. Takes(s, t, P \cup Grown(s, g))
    <2> DEFINE G == Grown(s, g)
    <2> HIDE DEF G
    <2>1. Takes(s, g, G)
      BY DEF G
    <2>2. Takes(s, t, P \cup G)
      BY <2>1 DEF Takes
    <2> QED
      BY <2>2 DEF G
  <1> HIDE DEF Grown, Takes, OwnIn
  <1> QED
    BY <1>1, <1>2, <1>3 DEF Gives

\* A change of the panic or of the value returned takes nothing.
LEMMA TakesNothing ==
    ASSUME NEW g, NEW t, t.ranges = g.ranges
    PROVE  Takes(g, t, {})
  BY DEF Takes, FreeIn, TakenIn

LEMMA AllocTakes ==
    ASSUME NEW s, Sound(s), Fit(s), NEW n \in Nat
    PROVE  LET t == boot_alloc(s, n)
           IN  \/ n = 0 /\ t.bug # "none" /\ Gives(s, t, {})
               \/ /\ n > 0 /\ t.bug = "none" /\ t.ret = ENOMEM /\ Gives(s, t, {})
                  /\ \A i \in 1 .. Len(t.ranges) :
                       ~(t.ranges[i].type = MEMORY_FREE /\ t.ranges[i].size >= n)
               \/ /\ n > 0 /\ t.bug = "none" /\ t.ret \in Nat /\ t.ret >= 1
                  /\ Gives(s, t, Run(t.ret, n))
  <1> DEFINE g == maybe_grow_buffer(s)
             t == allocate_top_down(g, n)
             Short(m) == \A i \in 1 .. Len(m) : ~(m[i].type = MEMORY_FREE /\ m[i].size >= n)
  <1>1. /\ Sound(g) /\ HasRoom(g) /\ Above(g.ranges, 1) /\ g.ok = TRUE
        /\ OwnIn(s) \subseteq OwnIn(g) /\ Takes(s, g, Grown(s, g))
    BY GrowTakes DEF Grown
  <1> HIDE DEF g
  <1>2. boot_alloc(s, n) = t
    BY <1>1 DEF boot_alloc, boot_alloc_nogrow, HasRoom, g
  <1>3. SameBuffer(g, t)
    BY <1>1, TopDownFacts DEF Allocates
  <1>4. CASE n = 0
    <2>1. t = [g EXCEPT !.bug = "invalid allocation"]
      BY <1>4 DEF allocate_top_down
    <2>2. "invalid allocation" \in Bugs /\ "invalid allocation" # "none"
      BY DEF Bugs
    <2>3. t.ranges = g.ranges /\ t.bug # "none"
      <3> HIDE DEF t
      <3>1. /\ [g EXCEPT !.bug = "invalid allocation"].ranges = g.ranges
            /\ [g EXCEPT !.bug = "invalid allocation"].bug = "invalid allocation"
        BY <1>1, <2>2, BugFacts, Zenon
      <3> QED
        BY <2>1, <2>2, <3>1, Zenon
    <2>4. Gives(s, t, {})
      BY <1>1, <1>3, <2>3, TakesNothing, GivesAfterGrowth
    <2> QED
      BY <1>2, <1>4, <2>3, <2>4
  <1>5. CASE n > 0
    <2>1. /\ t.bug = "none"
          /\ \/ t.ret = ENOMEM /\ t.ranges = g.ranges /\ Short(g.ranges)
             \/ t.ret \in Nat /\ t.ret >= 1 /\ Takes(g, t, Run(t.ret, n))
      BY <1>1, <1>5, TopDownTakes
    <2> HIDE DEF t, Short
    <2>2. CASE t.ret = ENOMEM /\ t.ranges = g.ranges /\ Short(g.ranges)
      <3>1. Gives(s, t, {})
        BY <1>1, <1>3, <2>2, TakesNothing, GivesAfterGrowth
      <3>2. Short(t.ranges)
        BY <2>2
      <3> QED
        BY <1>2, <1>5, <2>1, <2>2, <3>1, <3>2 DEF Short
    <2>3. CASE t.ret \in Nat /\ t.ret >= 1 /\ Takes(g, t, Run(t.ret, n))
      <3>1. Gives(s, t, Run(t.ret, n))
        BY <1>1, <1>3, <2>3, GivesAfterGrowth
      <3> QED
        BY <1>2, <1>5, <2>1, <2>3, <3>1
    <2> QED
      BY <2>1, <2>2, <2>3
  <1> QED
    BY <1>4, <1>5

LEMMA AllocAtTakes ==
    ASSUME NEW s, Sound(s), Fit(s), NEW a \in Nat, NEW n \in Nat,
           NEW t \in boot_alloc_at(s, a, n)
    PROVE  \/ n = 0 /\ t.bug # "none" /\ Gives(s, t, {})
           \/ /\ n > 0 /\ t.bug = "none" /\ t.ret = ENOMEM /\ Gives(s, t, {})
              /\ \A i \in 1 .. Len(t.ranges) :
                   ~(/\ t.ranges[i].type = MEMORY_FREE
                     /\ t.ranges[i].physical_address <= a
                     /\ a + n <= mr_end(t.ranges[i]))
           \/ /\ n > 0 /\ t.bug = "none" /\ t.ret = a /\ a >= 1
              /\ Gives(s, t, Run(a, n))
  <1> DEFINE g == maybe_grow_buffer(s)
             None(m) == \A i \in 1 .. Len(m) :
                           ~(/\ m[i].type = MEMORY_FREE
                             /\ m[i].physical_address <= a
                             /\ a + n <= mr_end(m[i]))
  <1>1. /\ Sound(g) /\ HasRoom(g) /\ Above(g.ranges, 1) /\ g.ok = TRUE
        /\ OwnIn(s) \subseteq OwnIn(g) /\ Takes(s, g, Grown(s, g))
    BY GrowTakes DEF Grown
  <1> HIDE DEF g
  <1>2. t \in allocate_within(g, n, a, a + n)
    BY <1>1 DEF boot_alloc_at, HasRoom, g
  <1>3. a + n \in Nat
    OBVIOUS
  <1>4. SameBuffer(g, t)
    BY <1>1, <1>2, <1>3, WithinFacts DEF Allocates
  <1>5. \/ /\ n = 0 \/ a + n > a + n
           /\ t = [g EXCEPT !.bug = "invalid allocation"]
        \/ n > 0 /\ a + n <= a + n /\ t = [g EXCEPT !.ret = ENOMEM] /\ None(g.ranges)
        \/ /\ n > 0 /\ a + n <= a + n
           /\ \E idx \in 1 .. Len(g.ranges), base \in Nat :
                 /\ a <= base /\ base + n <= a + n
                 /\ CarvesFree(g, t, n, idx, base)
    BY <1>1, <1>2, <1>3, WithinCases
  <1> HIDE DEF None
  <1>6. \/ n = 0 /\ t = [g EXCEPT !.bug = "invalid allocation"]
        \/ n > 0 /\ t = [g EXCEPT !.ret = ENOMEM] /\ None(g.ranges)
        \/ n > 0 /\ \E idx \in 1 .. Len(g.ranges), base \in Nat :
                       /\ a <= base /\ base + n <= a + n
                       /\ CarvesFree(g, t, n, idx, base)
    <2>1. ~(a + n > a + n)
      BY <1>3
    <2> QED
      BY <1>5, <2>1, Zenon
  <1>7. CASE n = 0 /\ t = [g EXCEPT !.bug = "invalid allocation"]
    <2>2. "invalid allocation" \in Bugs /\ "invalid allocation" # "none"
      BY DEF Bugs
    <2>3. t.ranges = g.ranges /\ t.bug # "none"
      BY <1>1, <1>7, <2>2, BugFacts
    <2>4. Gives(s, t, {})
      BY <1>1, <1>4, <2>3, TakesNothing, GivesAfterGrowth
    <2> QED
      BY <1>7, <2>3, <2>4
  <1>8. CASE n > 0 /\ t = [g EXCEPT !.ret = ENOMEM] /\ None(g.ranges)
    <2>1. ENOMEM \in Addresses
      BY DEF Addresses
    <2>2. t.ranges = g.ranges /\ t.bug = "none" /\ t.ret = ENOMEM
      BY <1>1, <1>8, <2>1, RetFacts DEF HasRoom
    <2>3. Gives(s, t, {})
      BY <1>1, <1>4, <2>2, TakesNothing, GivesAfterGrowth
    <2>4. None(t.ranges)
      BY <1>8, <2>2
    <2> QED
      BY <1>8, <2>2, <2>3, <2>4 DEF None
  <1>9. ASSUME n > 0, NEW idx \in 1 .. Len(g.ranges), NEW base \in Nat,
               a <= base, base + n <= a + n, CarvesFree(g, t, n, idx, base)
        PROVE  t.bug = "none" /\ t.ret = a /\ a >= 1 /\ Gives(s, t, Run(a, n))
    <2>1. base = a
      BY <1>9
    <2>2. t.bug = "none" /\ t.ret = base /\ Takes(g, t, Run(base, n))
      BY <1>1, <1>9, CarveTakes
    <2>3. Takes(g, t, Run(a, n)) /\ t.ret = a
      BY <2>1, <2>2
    <2>4. Gives(s, t, Run(a, n))
      BY <1>1, <1>4, <2>3, GivesAfterGrowth
    <2>5. a >= 1
      <3>1. idx \in DOMAIN g.ranges /\ g.ranges[idx].physical_address \in Nat
        BY <1>1, SoundFacts, MapFacts
      <3>2. g.ranges[idx].physical_address <= base
        BY <1>9 DEF CarvesFree
      <3>3. 1 <= g.ranges[idx].physical_address
        BY <1>1, <3>1 DEF Above
      <3> QED
        BY <2>1, <3>1, <3>2, <3>3
    <2> QED
      BY <2>2, <2>3, <2>4, <2>5
  <1> QED
    BY <1>6, <1>7, <1>8, <1>9 DEF None

(***************************************************************************)
(* A free takes its pages back if one allocated range holds them all, and  *)
(* panics otherwise; where the map is cut, it may also panic although one  *)
(* holds them, when the search returns the empty range.  A free of no      *)
(* pages is looked up, and so needs a range that holds the page named.     *)
(***************************************************************************)
AtLeastOne(n) == IF n = 0 THEN 1 ELSE n

NoneHolds(m, a, n) ==
    \A i \in 1 .. Len(m) : ~HoldsRun(m, i, MEMORY_ALLOCATED, a, AtLeastOne(n))

LEMMA AtLeastOneFacts ==
    ASSUME NEW n \in Nat
    PROVE  AtLeastOne(n) \in Nat /\ AtLeastOne(n) > 0 /\ n <= AtLeastOne(n)
  BY DEF AtLeastOne

LEMMA FreeTakes ==
    ASSUME NEW s, Sound(s), Fit(s), NEW a \in Nat, NEW n \in Nat,
           NEW t \in boot_free(s, a, n)
    PROVE  /\ ~GrowthDue(s.buffer, s.capacity, s.ranges) => Grown(s, t) = {}
           /\ \/ t.bug = "none" /\ TakesBack(s, t, Run(a, n))
              \/ /\ t.bug # "none" /\ Gives(s, t, {})
                 /\ a \notin CutsOf(t.ranges) => NoneHolds(t.ranges, a, n)
  <1> DEFINE g  == maybe_grow_buffer(s)
             mr == MR(a, n, MEMORY_FREE)
             Holds(i) == HoldsRun(g.ranges, i, MEMORY_ALLOCATED, a, n)
  <1>1. /\ Sound(g) /\ HasRoom(g) /\ Above(g.ranges, 1) /\ g.ok = TRUE
        /\ OwnIn(s) \subseteq OwnIn(g) /\ Takes(s, g, Grown(s, g))
        /\ ~GrowthDue(s.buffer, s.capacity, s.ranges) => g = s
    BY GrowTakes DEF Grown
  <1>2. /\ mr \in Ranges /\ mr.physical_address = a /\ mr_end(mr) = a + n
        /\ mr.type = MEMORY_FREE /\ PagesOf(mr) = Run(a, n)
    BY MRFacts, RunOfMR
  <1>3. MEMORY_FREE # MEMORY_ALLOCATED
    BY DEF MEMORY_FREE, MEMORY_ALLOCATED
  <1>4. t \in IF g.bug # "none" \/ ~g.ok THEN {g} ELSE free_range(g, a, n)
    BY DEF boot_free
  <1>5. /\ IsMemoryMap(g.ranges) /\ Len(g.ranges) \in Nat
        /\ DOMAIN g.ranges = 1 .. Len(g.ranges)
    BY <1>1, SoundFacts
  <1> HIDE DEF g
  <1>6. PICK idx \in find_range(g.ranges, a, FALSE) :
               t = IF idx = 0 THEN [g EXCEPT !.bug = "invalid free"]
                   ELSE carve(g, idx, mr)
    BY <1>1, <1>4 DEF HasRoom, free_range
  <1> HIDE DEF mr
  <1>7. idx \in 0 .. Len(g.ranges) /\ (idx # 0 => idx \in 1 .. Len(g.ranges))
    <2>1. idx \in 0 .. Len(g.ranges)
      BY <1>5, FindRangeIndex
    <2> QED
      BY <1>5, <2>1
  \* A range that holds the pages is the one the search finds.
  <1>8. ASSUME NEW i \in 1 .. Len(g.ranges), a \notin CutsOf(g.ranges),
               HoldsRun(g.ranges, i, MEMORY_ALLOCATED, a, AtLeastOne(n))
        PROVE  idx # 0 /\ Holds(idx)
    <2>1. /\ mr_end(g.ranges[i]) \in Nat /\ g.ranges[i].physical_address \in Nat
          /\ AtLeastOne(n) \in Nat /\ AtLeastOne(n) > 0 /\ n <= AtLeastOne(n)
      BY <1>5, MapFacts, AtLeastOneFacts
    <2>2. /\ g.ranges[i].type = MEMORY_ALLOCATED
          /\ g.ranges[i].physical_address <= a
          /\ a + AtLeastOne(n) <= mr_end(g.ranges[i])
      BY <1>8 DEF HoldsRun
    <2>3. a < mr_end(g.ranges[i]) /\ a + n <= mr_end(g.ranges[i])
      BY <2>1, <2>2
    <2>4. Covers(g.ranges[i], a)
      BY <2>2, <2>3 DEF Covers
    <2>5. idx = i
      BY <1>5, <1>8, <2>4, FindRangeCovers
    <2> QED
      BY <2>2, <2>3, <2>5 DEF HoldsRun
  <1>9. CASE idx = 0 \/ ~Holds(idx)
    <2>1. a \notin CutsOf(g.ranges) => NoneHolds(g.ranges, a, n)
      BY <1>8, <1>9, Zenon DEF NoneHolds
    <2>2. t.ranges = g.ranges /\ t.bug # "none" /\ SameBuffer(g, t)
      <3>1. CASE idx = 0
        <4>1. "invalid free" \in Bugs /\ "invalid free" # "none"
          BY DEF Bugs
        <4> QED
          BY <1>1, <1>6, <3>1, <4>1, BugFacts
      <3>2. CASE idx # 0
        <4>1. "allocate_out_of" \in Bugs /\ "allocate_out_of" # "none"
          BY DEF Bugs
        <4>2. ~may_allocate_out_of(g.ranges[idx], mr)
          <5>1. g.ranges[idx] \in Ranges
            BY <1>5, <1>7, <3>2 DEF IsMemoryMap
          <5>2. g.ranges[idx].type \in {MEMORY_FREE, MEMORY_ALLOCATED}
            BY <5>1, RangeFacts
          <5> QED
            BY <1>2, <1>3, <1>9, <3>2, <5>2 DEF may_allocate_out_of, HoldsRun
        <4>3. carve(g, idx, mr) = [g EXCEPT !.bug = "allocate_out_of"]
          BY <4>2 DEF carve
        <4> QED
          BY <1>1, <1>6, <3>2, <4>1, <4>3, BugFacts
      <3> QED
        BY <3>1, <3>2
    <2>3. Gives(s, t, {})
      BY <1>1, <2>2, TakesNothing, GivesAfterGrowth
    <2>4. a \notin CutsOf(t.ranges) => NoneHolds(t.ranges, a, n)
      BY <2>1, <2>2
    <2>5. ~GrowthDue(s.buffer, s.capacity, s.ranges) => Grown(s, t) = {}
      BY <1>1, <2>2 DEF SameBuffer, Grown, OwnIn
    <2> QED
      BY <2>2, <2>3, <2>4, <2>5
  <1>10. CASE idx # 0 /\ Holds(idx)
    <2> DEFINE map == allocate_out_of(g.ranges, idx, mr)
    <2>1. idx \in 1 .. Len(g.ranges)
      BY <1>7, <1>10
    <2>2. may_allocate_out_of(g.ranges[idx], mr)
      BY <1>2, <1>3, <1>10 DEF may_allocate_out_of, HoldsRun
    <2> HIDE DEF Holds
    <2>3. t = carve(g, idx, mr)
      BY <1>6, <1>10
    <2>4. t.ranges = map /\ t.bug = "none"
      BY <1>1, <1>2, <2>1, <2>2, <2>3, CarveDoes
    <2>5. SameBuffer(g, t)
      BY <1>1, <1>2, <2>1, <2>3, CarveFacts
    <2>6. /\ PagesOf(mr) \subseteq PagesOfType(g.ranges, MEMORY_ALLOCATED)
          /\ PagesOfType(map, MEMORY_FREE) =
               PagesOfType(g.ranges, MEMORY_FREE) \cup PagesOf(mr)
          /\ PagesOfType(map, MEMORY_ALLOCATED) =
               PagesOfType(g.ranges, MEMORY_ALLOCATED) \ PagesOf(mr)
      BY <1>2, <1>3, <1>5, <2>1, <2>2, CarvedPages, SMTT(30)
    <2>7. /\ Run(a, n) \subseteq TakenIn(g)
          /\ FreeIn(t) = FreeIn(g) \cup Run(a, n)
          /\ TakenIn(t) = TakenIn(g) \ Run(a, n)
      BY <1>2, <2>4, <2>6 DEF FreeIn, TakenIn
    <2>8. OwnIn(t) = OwnIn(g) /\ Grown(s, t) = Grown(s, g)
      BY <2>5 DEF SameBuffer, OwnIn, Grown
    <2>9. /\ Grown(s, t) \subseteq FreeIn(s)
          /\ FreeIn(g) = FreeIn(s) \ Grown(s, t)
          /\ TakenIn(g) = TakenIn(s) \cup Grown(s, t)
      BY <1>1, <2>8 DEF Takes
    <2>10. OwnIn(s) \subseteq OwnIn(t)
      BY <1>1, <2>8
    <2>11. TakesBack(s, t, Run(a, n))
      BY <2>7, <2>9, <2>10 DEF TakesBack
    <2>12. ~GrowthDue(s.buffer, s.capacity, s.ranges) => Grown(s, t) = {}
      BY <1>1, <2>8 DEF Grown
    <2> QED
      BY <2>4, <2>11, <2>12
  <1> QED
    BY <1>9, <1>10

\* An append that follows the last range adds the pages of its entry.
LEMMA AppendTakes ==
    ASSUME NEW s, Sound(s), Fit(s), NEW mr \in Ranges, Below(s.ranges, mr.physical_address)
    PROVE  LET t == range_append(s, mr)
               F == IF mr.type = MEMORY_FREE THEN PagesOf(mr) ELSE {}
               A == IF mr.type = MEMORY_ALLOCATED THEN PagesOf(mr) ELSE {}
           IN  /\ t.bug = "none" /\ t.ret = 0
               /\ OwnIn(s) \subseteq OwnIn(t) /\ Grown(s, t) \subseteq FreeIn(s)
               /\ PagesOf(mr) \cap (FreeIn(s) \cup TakenIn(s)) = {}
               /\ FreeIn(t) = (FreeIn(s) \ Grown(s, t)) \cup F
               /\ TakenIn(t) = (TakenIn(s) \cup Grown(s, t)) \cup A
  <1> DEFINE g == maybe_grow_buffer(s)
             t == range_append(s, mr)
             F == IF mr.type = MEMORY_FREE THEN PagesOf(mr) ELSE {}
             A == IF mr.type = MEMORY_ALLOCATED THEN PagesOf(mr) ELSE {}
  <1>1. /\ Sound(g) /\ HasRoom(g) /\ g.ok = TRUE
        /\ OwnIn(s) \subseteq OwnIn(g) /\ Takes(s, g, Grown(s, g))
    BY GrowTakes DEF Grown
  <1>2. ~(Len(g.ranges) >= g.capacity)
    BY <1>1, SoundFacts DEF HasRoom, WorstCaseGrowth
  <1>3. t = [g EXCEPT !.ranges = Append(g.ranges, mr), !.ret = 0]
    BY <1>1, <1>2 DEF range_append, HasRoom
  <1>4. Sound(t)
    BY AppendFacts DEF Completes
  <1> HIDE DEF g
  <1>5. /\ t.ranges = Append(g.ranges, mr) /\ t.bug = "none" /\ t.ret = 0
        /\ t.buffer = g.buffer /\ t.capacity = g.capacity
    BY <1>1, <1>3 DEF Sound, States, HasRoom
  <1> HIDE DEF t
  <1>6. IsMemoryMap(g.ranges) /\ IsMemoryMap(Append(g.ranges, mr))
    BY <1>1, <1>4, <1>5, SoundFacts
  <1>7. /\ PagesOfType(t.ranges, MEMORY_FREE) = PagesOfType(g.ranges, MEMORY_FREE) \cup F
        /\ PagesOfType(t.ranges, MEMORY_ALLOCATED) =
             PagesOfType(g.ranges, MEMORY_ALLOCATED) \cup A
    BY <1>5, <1>6, AppendPages
  <1>8. OwnIn(t) = OwnIn(g) /\ Grown(s, t) = Grown(s, g)
    BY <1>5 DEF OwnIn, Grown
  <1>9. PagesOf(mr) \cap (FreeIn(s) \cup TakenIn(s)) = {}
    <2> SUFFICES ASSUME NEW p \in PagesOf(mr), p \in FreeIn(s) \cup TakenIn(s) PROVE FALSE
      OBVIOUS
    <2>1. IsMemoryMap(s.ranges)
      BY SoundFacts
    <2>2. p \in Nat /\ Covers(mr, p)
      BY PagesOfRange
    <2>3. TypeAt(s.ranges, p, MEMORY_FREE) \/ TypeAt(s.ranges, p, MEMORY_ALLOCATED)
      BY <2>1, PagesOfTypeAt DEF FreeIn, TakenIn
    <2>4. PICK i \in DOMAIN s.ranges : Covers(s.ranges[i], p)
      BY <2>3 DEF TypeAt
    <2>5. mr_end(s.ranges[i]) <= mr.physical_address
      BY <2>4 DEF Below
    <2>6. mr_end(s.ranges[i]) \in Nat /\ mr.physical_address \in Nat
      BY <2>1, <2>4, MapFacts, RangeFacts
    <2> QED
      BY <2>2, <2>4, <2>5, <2>6 DEF Covers
  <1> HIDE DEF F, A
  <1>10. /\ Grown(s, t) \subseteq FreeIn(s)
         /\ FreeIn(t) = (FreeIn(s) \ Grown(s, t)) \cup F
         /\ TakenIn(t) = (TakenIn(s) \cup Grown(s, t)) \cup A
    BY <1>1, <1>7, <1>8 DEF Takes, FreeIn, TakenIn
  <1>11. OwnIn(s) \subseteq OwnIn(t)
    BY <1>1, <1>8
  <1> QED
    BY <1>5, <1>9, <1>10, <1>11 DEF t, F, A

-----------------------------------------------------------------------------
(***************************************************************************)
(* Pages in a row.                                                         *)
(***************************************************************************)

SeamInside(a, n) == \E b \in Run(a + 1, n - 1) : LoaderSeam(b)

\* A cut between the n pages from a on; free memory is never cut.
CutInside(t, a, n) == t # MEMORY_FREE /\ Run(a + 1, n - 1) \cap Cuts # {}

\* Pages of one type in a row are in one range, but for the loader's seams and
\* the cuts.
Unbroken ==
    \A a, n \in Nat, t \in {MEMORY_FREE, MEMORY_ALLOCATED} :
        n > 0 /\ Run(a, n) \subseteq PagesOfType(ranges, t) =>
            \/ SeamInside(a, n)
            \/ CutInside(t, a, n)
            \/ \E i \in 1 .. Len(ranges) : HoldsRun(ranges, i, t, a, n)

LEMMA MapIsUnbroken == MapInv /\ SeamInv => Unbroken
  <1> SUFFICES ASSUME MapInv, SeamInv,
                      NEW a \in Nat, NEW n \in Nat,
                      NEW t \in {MEMORY_FREE, MEMORY_ALLOCATED},
                      n > 0, Run(a, n) \subseteq PagesOfType(ranges, t),
                      ~SeamInside(a, n), ~CutInside(t, a, n)
               PROVE  \E i \in 1 .. Len(ranges) : HoldsRun(ranges, i, t, a, n)
    BY DEF Unbroken
  <1>1. SeamsAreLoaders
    BY SeamsOfRanges DEF SeamInv
  <1>2. \A b \in Run(a + 1, n - 1) : ~BreakAt(ranges, t, b)
    BY <1>1 DEF SeamsAreLoaders, LoaderSeams, SeamInside, CutInside, Cuts, BreakAt
  <1>3. IsMemoryMap(ranges)
    BY GlobalsSound, GlobalsFields, SoundFacts
  <1> QED
    BY <1>2, <1>3, RunInOneRange

\* Inside a region there is no seam.
LEMMA RegionHasNoSeam ==
    ASSUME MapInv, NEW a \in Nat, NEW n \in Nat, n > 0,
           NEW r \in Regions, Run(a, n) \subseteq r
    PROVE  ~SeamInside(a, n)
  <1> SUFFICES ASSUME NEW b \in Run(a + 1, n - 1), LoaderSeam(b) PROVE FALSE
    BY DEF SeamInside
  <1>1. memory_map \in MemoryMaps /\ Len(memory_map) \in Nat
    BY LoaderFacts DEF MapInv, TypeOK
  <1>2. DOMAIN memory_map = 1 .. Len(memory_map)
    BY <1>1, MemoryMapsAssumption
  <1>3. PICK k \in 1 .. Len(memory_map) : r = PagesOf(memory_map[k])
    BY <1>2 DEF Regions
  <1>4. PICK i \in 1 .. (Len(memory_map) - 1) :
                mr_end(memory_map[i]) = b /\ memory_map[i + 1].physical_address = b
    BY DEF LoaderSeam
  <1> DEFINE j == i + 1
             first == memory_map[k].physical_address
             size  == memory_map[k].size
             last  == first + size
  <1>5. /\ i \in 1 .. Len(memory_map) /\ j \in 1 .. Len(memory_map)
        /\ k <= i \/ j <= k
    BY <1>1, <1>4
  <1>6. first \in Nat /\ size \in Nat /\ size > 0 /\ last \in Nat
    BY <1>1, LoaderFacts
  <1>7. b \in Nat /\ a < b /\ b < a + n /\ b - 1 \in Run(a, n) /\ b \in Run(a, n)
    BY DEF Run
  <1>8. first <= b - 1 /\ b < last
    <2>1. b - 1 \in first .. (first + size - 1)
      BY <1>3, <1>7 DEF PagesOf, Run
    <2>2. b \in first .. (first + size - 1)
      BY <1>3, <1>7 DEF PagesOf, Run
    <2> HIDE DEF first, size
    <2> QED
      BY <1>6, <1>7, <2>1, <2>2
  <1>9. memory_map[j].physical_address = b /\ memory_map[i].physical_address
          + memory_map[i].size = b
    BY <1>4 DEF mr_end
  <1> HIDE DEF j
  <1>10. CASE k <= i
    <2>1. k < i => last <= memory_map[i].physical_address
      BY <1>1, <1>5, LoaderFacts
    <2>2. k = i => last = b
      BY <1>9
    <2>3. /\ memory_map[i].physical_address \in Nat /\ memory_map[i].size \in Nat
          /\ memory_map[i].size > 0
      BY <1>1, <1>5, LoaderFacts
    <2> HIDE DEF last, first
    <2> QED
      BY <1>5, <1>6, <1>7, <1>8, <1>9, <1>10, <2>1, <2>2, <2>3, SMTT(30)
  <1>11. CASE j <= k
    <2>1. j < k => memory_map[j].physical_address + memory_map[j].size <= first
      BY <1>1, <1>5, LoaderFacts
    <2>2. j = k => first = b
      BY <1>9
    <2>3. memory_map[j].size \in Nat
      BY <1>1, <1>5, LoaderFacts
    <2> HIDE DEF last, first
    <2> QED
      BY <1>5, <1>6, <1>7, <1>8, <1>9, <1>11, <2>1, <2>2, <2>3, SMTT(30)
  <1> QED
    BY <1>5, <1>10, <1>11

-----------------------------------------------------------------------------
(***************************************************************************)
(* One owner.                                                              *)
(***************************************************************************)

LEMMA GlobalsSets ==
    /\ FreeIn(Globals) = FreePages /\ TakenIn(Globals) = AllocatedPages
    /\ OwnIn(Globals) = BufferPages
  BY GlobalsFields DEF FreeIn, TakenIn, OwnIn, FreePages, AllocatedPages, BufferPages

LEMMA ReturnsSets ==
    ASSUME NEW s, NEW op, NEW a, NEW n, NEW r, Returns(s, op, a, n, r)
    PROVE  /\ FreePages' = FreeIn(s) /\ AllocatedPages' = TakenIn(s)
           /\ BufferPages' = OwnIn(s)
           /\ ranges' = s.ranges /\ bug' = s.bug
           /\ call'.op = op /\ call'.address = a /\ call'.pages = n
           /\ s.bug = "none" => call'.ret = r
  BY DEF Returns, FreeIn, TakenIn, OwnIn, FreePages, AllocatedPages, BufferPages

\* What a step takes for the buffer.
Growth == BufferPages' \ BufferPages

LEMMA FreeIsNotAllocated == MapInv => FreePages \cap AllocatedPages = {}
  BY GlobalsSound, GlobalsFields, SoundFacts, TypesDisjoint DEF FreePages, AllocatedPages

LEMMA GivesStep ==
    ASSUME MapInv, OneOwner, NEW s, NEW P, Gives(Globals, s, P),
           FreePages' = FreeIn(s), AllocatedPages' = TakenIn(s), BufferPages' = OwnIn(s),
           held' = held \cup P
    PROVE  /\ OneOwner' /\ Abstract!Takes
           /\ P \subseteq FreePages \ Growth
           /\ FreePages' = (FreePages \ Growth) \ P
  <1> DEFINE F == FreePages
             A == AllocatedPages
             B == BufferPages
             G == Growth
  <1>1. /\ B \subseteq BufferPages' /\ P \cap G = {} /\ P \cup G \subseteq F
        /\ FreePages' = F \ (P \cup G) /\ AllocatedPages' = A \cup (P \cup G)
    BY GlobalsSets DEF Gives, Takes, Grown, Growth
  <1>2. F \cap A = {} /\ held \cap B = {} /\ A = held \cup B
    BY FreeIsNotAllocated DEF OneOwner
  <1>3. BufferPages' = B \cup G
    BY <1>1 DEF Growth
  <1>4. Abstract!Takes
    BY <1>1 DEF Abstract!Takes, Growth
  <1> HIDE DEF F, A, B, G
  <1>5. held' \cap BufferPages' = {} /\ AllocatedPages' = held' \cup BufferPages'
    BY <1>1, <1>2, <1>3
  <1>6. P \subseteq F \ G /\ FreePages' = (F \ G) \ P
    BY <1>1
  <1> QED
    BY <1>4, <1>5, <1>6 DEF OneOwner, F, G

\* Pages that are taken back were the callers' own.
LEMMA TakesBackStep ==
    ASSUME MapInv, OneOwner, NEW s, NEW P, TakesBack(Globals, s, P),
           FreePages' = FreeIn(s), AllocatedPages' = TakenIn(s), BufferPages' = OwnIn(s),
           P \cap BufferPages = {}, P \subseteq held \/ Growth = {}, held' = held \ P
    PROVE  /\ OneOwner' /\ Abstract!Takes /\ P \subseteq held
           /\ FreePages' = (FreePages \ Growth) \cup P
  <1> DEFINE F == FreePages
             A == AllocatedPages
             B == BufferPages
             G == Growth
  <1>1. /\ B \subseteq BufferPages' /\ P \subseteq A \cup G /\ G \subseteq F
        /\ FreePages' = (F \ G) \cup P /\ AllocatedPages' = (A \cup G) \ P
    BY GlobalsSets DEF TakesBack, Grown, Growth
  <1>2. F \cap A = {} /\ held \cap B = {} /\ A = held \cup B
    BY FreeIsNotAllocated DEF OneOwner
  <1>3. BufferPages' = B \cup G
    BY <1>1 DEF Growth
  <1>4. Abstract!Takes
    BY <1>1 DEF Abstract!Takes, Growth
  <1>5. P \cap B = {} /\ (P \subseteq held \/ G = {})
    OBVIOUS
  <1> HIDE DEF F, A, B, G
  <1>6. P \subseteq held
    BY <1>1, <1>2, <1>5
  <1>7. held' \cap BufferPages' = {} /\ AllocatedPages' = held' \cup BufferPages'
    BY <1>1, <1>2, <1>3, <1>5, <1>6
  <1> QED
    BY <1>1, <1>4, <1>6, <1>7 DEF OneOwner, F, G

\* Pages of one type in a row that are of one region are in one range.
LEMMA RegionRunInRange ==
    ASSUME MapInv, Unbroken', memory_map' = memory_map,
           NEW a \in Nat, NEW n \in Nat, n > 0,
           NEW t \in {MEMORY_FREE, MEMORY_ALLOCATED},
           Run(a, n) \subseteq PagesOfType(ranges', t),
           NEW r \in Regions, Run(a, n) \subseteq r, ~CutInside(t, a, n)'
    PROVE  \E i \in 1 .. Len(ranges') : HoldsRun(ranges', i, t, a, n)
  <1>1. ~SeamInside(a, n)
    BY RegionHasNoSeam
  <1>2. SeamInside(a, n)' <=> SeamInside(a, n)
    BY DEF SeamInside, LoaderSeam
  <1>3. \/ SeamInside(a, n)'
        \/ CutInside(t, a, n)'
        \/ \E i \in 1 .. Len(ranges') : HoldsRun(ranges', i, t, a, n)
    BY DEF Unbroken
  <1> QED
    BY <1>1, <1>2, <1>3

-----------------------------------------------------------------------------
(***************************************************************************)
(* Every step keeps one owner for each page, panics on misuse only, and is *)
(* one of PageAllocator.                                                   *)
(***************************************************************************)
AbstractStep == [Abstract!Next]_(Abstract!vars)

Promise == OneOwner' /\ PanicOnlyOnMisuse' /\ AbstractStep

\* A call is made on sound globals, and what the loader passed stays.
LEMMA CallFacts ==
    ASSUME MapInv, RoomInv, Running, memory_map' = memory_map
    PROVE  /\ Sound(Globals) /\ Fit(Globals) /\ bug = "none" /\ Regions' = Regions
  BY GlobalsSound, RunningIsFit DEF Running, Regions

\* A call that keeps the cuts of the map, in terms of the variables.
LEMMA CutsUnchanged ==
    ASSUME NEW s, SameCuts(Globals, s), ranges' = s.ranges
    PROVE  Cuts' = Cuts
  BY GlobalsFields DEF SameCuts, Cuts

\* Free memory is never cut.
LEMMA FreeIsNotCut ==
    ASSUME NEW a, NEW n
    PROVE  ~CutInside(MEMORY_FREE, a, n)'
  BY DEF CutInside

LEMMA AllocStep ==
    ASSUME MapInv, RoomInv, OneOwner, Unbroken', NEW n \in 0 .. MaxPages, Alloc(n)
    PROVE  Promise
  <1> DEFINE s == boot_alloc(Globals, n)
  <1>1. /\ Running /\ Returns(s, "alloc", 0, n, s.ret)
        /\ held' = held \cup Granted(s, n) /\ memory_map' = memory_map
    BY DEF Alloc
  <1>2. Sound(Globals) /\ Fit(Globals) /\ bug = "none" /\ Regions' = Regions
    BY <1>1, CallFacts
  <1>3. MaxPages \in Nat /\ n \in Nat
    BY PagesAssumption
  <1>4. \/ n = 0 /\ s.bug # "none" /\ Gives(Globals, s, {})
        \/ /\ n > 0 /\ s.bug = "none" /\ s.ret = ENOMEM /\ Gives(Globals, s, {})
           /\ \A i \in 1 .. Len(s.ranges) :
                ~(s.ranges[i].type = MEMORY_FREE /\ s.ranges[i].size >= n)
        \/ /\ n > 0 /\ s.bug = "none" /\ s.ret \in Nat /\ s.ret >= 1
           /\ Gives(Globals, s, Run(s.ret, n))
    BY <1>2, <1>3, AllocTakes
  <1>9. SameCuts(Globals, s)
    BY <1>2, <1>3, AllocCuts, GlobalsFields
  <1> HIDE DEF s
  <1>5. /\ FreePages' = FreeIn(s) /\ AllocatedPages' = TakenIn(s)
        /\ BufferPages' = OwnIn(s) /\ ranges' = s.ranges /\ bug' = s.bug
        /\ call'.op = "alloc" /\ call'.address = 0 /\ call'.pages = n
        /\ s.bug = "none" => call'.ret = s.ret
    BY <1>1, ReturnsSets
  <1>10. Cuts' = Cuts
    BY <1>5, <1>9, CutsUnchanged
  <1>6. CASE n = 0 /\ s.bug # "none" /\ Gives(Globals, s, {})
    <2>1. held' = held /\ held' = held \cup {}
      BY <1>1, <1>6 DEF Granted
    <2>2. OneOwner' /\ Abstract!Takes /\ FreePages' = FreePages \ Growth
      BY <1>5, <1>6, <2>1, GivesStep
    <2>3. Abstract!Mistake
      BY <1>2, <1>5, <1>6, <1>10, <2>1, <2>2 DEF Abstract!Mistake, Abstract!Called, Growth
    <2>4. PanicOnlyOnMisuse'
      BY <1>5, <1>6 DEF PanicOnlyOnMisuse
    <2> QED
      BY <2>2, <2>3, <2>4 DEF Promise, AbstractStep, Abstract!Next
  <1>7. CASE /\ n > 0 /\ s.bug = "none" /\ s.ret = ENOMEM /\ Gives(Globals, s, {})
             /\ \A i \in 1 .. Len(s.ranges) :
                  ~(s.ranges[i].type = MEMORY_FREE /\ s.ranges[i].size >= n)
    <2>1. held' = held /\ held' = held \cup {}
      BY <1>1, <1>7 DEF Granted, error_phys_addr, ENOMEM
    <2>2. OneOwner' /\ Abstract!Takes /\ FreePages' = FreePages \ Growth
      BY <1>5, <1>7, <2>1, GivesStep
    <2>3. ASSUME NEW a \in FreePages', Run(a, n) \subseteq FreePages',
                 NEW r \in Regions, Run(a, n) \subseteq r
          PROVE  FALSE
      <3>1. IsMemoryMap(ranges')
        <4>1. Sound(s)
          BY <1>2, <1>3, AllocFacts DEF s, Completes
        <4> QED
          BY <1>5, <4>1, SoundFacts
      <3>2. FreePages' = PagesOfType(ranges', MEMORY_FREE) /\ a \in Nat
        BY <2>3, <3>1, PagesOfTypeAt DEF FreePages
      <3>3. PICK i \in 1 .. Len(ranges') : HoldsRun(ranges', i, MEMORY_FREE, a, n)
        BY <1>1, <1>3, <1>7, <2>3, <3>2, RegionRunInRange, FreeIsNotCut
      <3>4. /\ ranges'[i].physical_address \in Nat /\ ranges'[i].size \in Nat
            /\ mr_end(ranges'[i]) = ranges'[i].physical_address + ranges'[i].size
        BY <3>1, MapFacts
      <3>5. ranges'[i].type = MEMORY_FREE /\ ranges'[i].size >= n
        BY <1>3, <3>2, <3>3, <3>4 DEF HoldsRun
      <3> QED
        BY <1>5, <1>7, <3>5
    <2>4. Abstract!Alloc(n)
      <3>1. Abstract!Works
        BY <1>2, <1>5, <1>7 DEF Abstract!Works
      <3>2. Abstract!Refuse
        BY <2>1, <2>2 DEF Abstract!Refuse, Growth
      <3>3. call'.ret = ENOMEM
        BY <1>5, <1>7
      <3>4. \A a \in FreePages' : ~(/\ Abstract!PagesFrom(a, n) \subseteq FreePages'
                                    /\ Abstract!InOneRegion(Abstract!PagesFrom(a, n)))
        BY <2>3 DEF Abstract!PagesFrom, Abstract!InOneRegion, Run
      <3> QED
        BY <1>5, <1>10, <2>2, <3>1, <3>2, <3>3, <3>4 DEF Abstract!Alloc, Abstract!Called
    <2>5. n \in 1 .. MaxPages
      BY <1>3, <1>7
    <2>6. PanicOnlyOnMisuse'
      BY <1>5, <1>7 DEF PanicOnlyOnMisuse
    <2> QED
      BY <2>2, <2>4, <2>5, <2>6 DEF Promise, AbstractStep, Abstract!Next
  <1>8. CASE /\ n > 0 /\ s.bug = "none" /\ s.ret \in Nat /\ s.ret >= 1
             /\ Gives(Globals, s, Run(s.ret, n))
    <2>1. held' = held \cup Run(s.ret, n)
      <3>1. ~(s.ret <= 0)
        BY <1>8
      <3> QED
        BY <1>1, <1>8, <3>1 DEF Granted, error_phys_addr
    <2>2. /\ OneOwner' /\ Abstract!Takes
          /\ Run(s.ret, n) \subseteq FreePages \ Growth
          /\ FreePages' = (FreePages \ Growth) \ Run(s.ret, n)
      BY <1>5, <1>8, <2>1, GivesStep
    <2>3. Abstract!Alloc(n)
      <3>1. Abstract!Works
        BY <1>2, <1>5, <1>8 DEF Abstract!Works
      <3>2. call'.ret = s.ret /\ s.ret # ENOMEM
        BY <1>5, <1>8 DEF ENOMEM
      <3>3. Abstract!PagesFrom(s.ret, n) = Run(s.ret, n)
        BY DEF Abstract!PagesFrom, Run
      <3>4. Abstract!Grant(s.ret, n)
        BY <2>1, <2>2, <3>3 DEF Abstract!Grant, Growth
      <3> QED
        BY <1>5, <1>10, <2>2, <3>1, <3>2, <3>4 DEF Abstract!Alloc, Abstract!Called
    <2>4. n \in 1 .. MaxPages
      BY <1>3, <1>8
    <2>5. PanicOnlyOnMisuse'
      BY <1>5, <1>8 DEF PanicOnlyOnMisuse
    <2> QED
      BY <2>2, <2>3, <2>4, <2>5 DEF Promise, AbstractStep, Abstract!Next
  <1> QED
    BY <1>4, <1>6, <1>7, <1>8

LEMMA AllocAtStep ==
    ASSUME MapInv, RoomInv, OneOwner, Unbroken',
           NEW a \in Pages, NEW n \in 0 .. MaxPages, AllocAt(a, n)
    PROVE  Promise
  <1> DEFINE None(m) == \A i \in 1 .. Len(m) : ~HoldsRun(m, i, MEMORY_FREE, a, n)
  <1>1. PICK s \in boot_alloc_at(Globals, a, n) :
               /\ Running /\ Returns(s, "alloc_at", a, n, s.ret)
               /\ held' = held \cup Granted(s, n) /\ memory_map' = memory_map
    BY DEF AllocAt
  <1>2. Sound(Globals) /\ Fit(Globals) /\ bug = "none" /\ Regions' = Regions
    BY <1>1, CallFacts
  <1>3. MaxPages \in Nat /\ n \in Nat /\ a \in Nat
    BY PagesAssumption
  <1>4. \/ n = 0 /\ s.bug # "none" /\ Gives(Globals, s, {})
        \/ /\ n > 0 /\ s.bug = "none" /\ s.ret = ENOMEM /\ Gives(Globals, s, {})
           /\ None(s.ranges)
        \/ /\ n > 0 /\ s.bug = "none" /\ s.ret = a /\ a >= 1
           /\ Gives(Globals, s, Run(a, n))
    BY <1>2, <1>3, AllocAtTakes DEF HoldsRun
  <1>9. SameCuts(Globals, s)
    BY <1>2, <1>3, AllocAtCuts, GlobalsFields
  <1> HIDE DEF None
  <1>5. /\ FreePages' = FreeIn(s) /\ AllocatedPages' = TakenIn(s)
        /\ BufferPages' = OwnIn(s) /\ ranges' = s.ranges /\ bug' = s.bug
        /\ call'.op = "alloc_at" /\ call'.address = a /\ call'.pages = n
        /\ s.bug = "none" => call'.ret = s.ret
    BY <1>1, ReturnsSets
  <1>10. Cuts' = Cuts
    BY <1>5, <1>9, CutsUnchanged
  <1>6. CASE n = 0 /\ s.bug # "none" /\ Gives(Globals, s, {})
    <2>1. held' = held /\ held' = held \cup {}
      BY <1>1, <1>6 DEF Granted
    <2>2. OneOwner' /\ Abstract!Takes /\ FreePages' = FreePages \ Growth
      BY <1>5, <1>6, <2>1, GivesStep
    <2>3. Abstract!Mistake
      BY <1>2, <1>5, <1>6, <1>10, <2>1, <2>2 DEF Abstract!Mistake, Abstract!Called, Growth
    <2>4. PanicOnlyOnMisuse'
      BY <1>5, <1>6 DEF PanicOnlyOnMisuse
    <2> QED
      BY <2>2, <2>3, <2>4 DEF Promise, AbstractStep, Abstract!Next
  <1>7. CASE /\ n > 0 /\ s.bug = "none" /\ s.ret = ENOMEM /\ Gives(Globals, s, {})
             /\ None(s.ranges)
    <2>1. held' = held /\ held' = held \cup {}
      BY <1>1, <1>7 DEF Granted, error_phys_addr, ENOMEM
    <2>2. OneOwner' /\ Abstract!Takes /\ FreePages' = FreePages \ Growth
      BY <1>5, <1>7, <2>1, GivesStep
    <2>3. ASSUME Run(a, n) \subseteq FreePages', NEW r \in Regions, Run(a, n) \subseteq r
          PROVE  FALSE
      <3>1. Run(a, n) \subseteq PagesOfType(ranges', MEMORY_FREE)
        BY <2>3 DEF FreePages
      <3>2. \E i \in 1 .. Len(ranges') : HoldsRun(ranges', i, MEMORY_FREE, a, n)
        BY <1>1, <1>3, <1>7, <2>3, <3>1, RegionRunInRange, FreeIsNotCut
      <3> QED
        BY <1>5, <1>7, <3>2 DEF None
    <2>4. Abstract!AllocAt(a, n)
      <3>1. Abstract!Works
        BY <1>2, <1>5, <1>7 DEF Abstract!Works
      <3>2. Abstract!Refuse
        BY <2>1, <2>2 DEF Abstract!Refuse, Growth
      <3>3. call'.ret = ENOMEM
        BY <1>5, <1>7
      <3>4. ~(/\ Abstract!PagesFrom(a, n) \subseteq FreePages'
              /\ Abstract!InOneRegion(Abstract!PagesFrom(a, n)))
        BY <2>3 DEF Abstract!PagesFrom, Abstract!InOneRegion, Run
      <3> QED
        BY <1>5, <1>10, <2>2, <3>1, <3>2, <3>3, <3>4 DEF Abstract!AllocAt, Abstract!Called
    <2>5. n \in 1 .. MaxPages
      BY <1>3, <1>7
    <2>6. PanicOnlyOnMisuse'
      BY <1>5, <1>7 DEF PanicOnlyOnMisuse
    <2> QED
      BY <2>2, <2>4, <2>5, <2>6 DEF Promise, AbstractStep, Abstract!Next
  <1>8. CASE /\ n > 0 /\ s.bug = "none" /\ s.ret = a /\ a >= 1
             /\ Gives(Globals, s, Run(a, n))
    <2>1. held' = held \cup Run(a, n)
      <3>1. ~(s.ret <= 0)
        BY <1>3, <1>8
      <3> QED
        BY <1>1, <1>8, <3>1 DEF Granted, error_phys_addr
    <2>2. /\ OneOwner' /\ Abstract!Takes
          /\ Run(a, n) \subseteq FreePages \ Growth
          /\ FreePages' = (FreePages \ Growth) \ Run(a, n)
      BY <1>5, <1>8, <2>1, GivesStep
    <2>3. Abstract!AllocAt(a, n)
      <3>1. Abstract!Works
        BY <1>2, <1>5, <1>8 DEF Abstract!Works
      <3>2. call'.ret = a
        BY <1>5, <1>8
      <3>3. Abstract!PagesFrom(a, n) = Run(a, n)
        BY DEF Abstract!PagesFrom, Run
      <3>4. Abstract!Grant(a, n)
        BY <2>1, <2>2, <3>3 DEF Abstract!Grant, Growth
      <3> QED
        BY <1>5, <1>10, <2>2, <3>1, <3>2, <3>4 DEF Abstract!AllocAt, Abstract!Called
    <2>4. n \in 1 .. MaxPages
      BY <1>3, <1>8
    <2>5. PanicOnlyOnMisuse'
      BY <1>5, <1>8 DEF PanicOnlyOnMisuse
    <2> QED
      BY <2>2, <2>3, <2>4, <2>5 DEF Promise, AbstractStep, Abstract!Next
  <1> QED
    BY <1>4, <1>6, <1>7, <1>8

\* A free of no pages is about one page, and one page is of one range.
LEMMA NamedFacts ==
    ASSUME NEW a \in Nat, NEW n \in Nat
    PROVE  /\ Named(a, n) = Run(a, AtLeastOne(n))
           /\ Abstract!Named(a, n) = Named(a, n)
           /\ a \in Named(a, n) /\ Run(a + 1, AtLeastOne(n) - 1) \subseteq Named(a, n)
           /\ Run(a + 1, AtLeastOne(n) - 1) = Run(a + 1, n - 1)
  <1>1. CASE n = 0
    <2>1. Run(a, 1) = {a} /\ Run(a + 1, 1 - 1) = {} /\ Run(a + 1, 0 - 1) = {}
      BY DEF Run
    <2>2. AtLeastOne(n) = 1 /\ Named(a, n) = {a}
      BY <1>1 DEF AtLeastOne, Named
    <2>3. Abstract!Named(a, n) = Run(a, 1)
      BY <1>1 DEF Abstract!Named, Abstract!PagesFrom, Run
    <2> QED
      BY <1>1, <2>1, <2>2, <2>3
  <1>2. CASE n # 0
    <2>1. AtLeastOne(n) = n /\ Named(a, n) = Run(a, n)
      BY <1>2 DEF AtLeastOne, Named
    <2>2. Abstract!Named(a, n) = Run(a, n)
      BY <1>2 DEF Abstract!Named, Abstract!PagesFrom, Run
    <2>3. a \in Run(a, n) /\ Run(a + 1, n - 1) \subseteq Run(a, n)
      BY <1>2 DEF Run
    <2> QED
      BY <2>1, <2>2, <2>3
  <1> QED
    BY <1>1, <1>2

LEMMA FreeStep ==
    ASSUME MapInv, RoomInv, OneOwner, Unbroken',
           NEW a \in Pages, NEW n \in 0 .. MaxPages, Free(a, n)
    PROVE  Promise
  <1> DEFINE P == Run(a, n)
             N == Named(a, n)
             k == AtLeastOne(n)
  <1>1. PICK s \in boot_free(Globals, a, n) :
               /\ Running /\ Returns(s, "free", a, n, 0) /\ memory_map' = memory_map
               /\ held' = IF s.bug = "none" THEN held \ P ELSE held
               /\ P \cap BufferPages = {}
               /\ P \subseteq held \/ ~GrowthDue(g_buffer, g_capacity, ranges)
    BY DEF Free
  <1>2. Sound(Globals) /\ Fit(Globals) /\ bug = "none" /\ Regions' = Regions
    BY <1>1, CallFacts
  <1>3. MaxPages \in Nat /\ n \in Nat /\ a \in Nat /\ k \in Nat /\ k > 0
    BY PagesAssumption, AtLeastOneFacts
  <1>4. /\ ~GrowthDue(g_buffer, g_capacity, ranges) => Grown(Globals, s) = {}
        /\ \/ s.bug = "none" /\ TakesBack(Globals, s, P)
           \/ /\ s.bug # "none" /\ Gives(Globals, s, {})
              /\ a \notin CutsOf(s.ranges) => NoneHolds(s.ranges, a, n)
    BY <1>2, <1>3, FreeTakes, GlobalsFields
  <1>5. /\ FreePages' = FreeIn(s) /\ AllocatedPages' = TakenIn(s)
        /\ BufferPages' = OwnIn(s) /\ ranges' = s.ranges /\ bug' = s.bug
        /\ call'.op = "free" /\ call'.address = a /\ call'.pages = n
    BY <1>1, ReturnsSets
  <1>6. P \subseteq held \/ Growth = {}
    BY <1>1, <1>4, <1>5, GlobalsSets DEF Grown, Growth
  <1>7. Abstract!PagesFrom(a, n) = P
    BY DEF Abstract!PagesFrom, Run
  <1>8. /\ s.bug # "none" => SameCuts(Globals, s)
        /\ CutsAfterFree(Cuts, Cuts', a, n)
    BY <1>2, <1>3, <1>5, FreeCuts, GlobalsFields DEF Cuts
  <1> HIDE DEF P
  <1>9. CASE s.bug = "none" /\ TakesBack(Globals, s, P)
    <2>1. held' = held \ P
      BY <1>1, <1>9
    <2>2. /\ OneOwner' /\ Abstract!Takes /\ P \subseteq held
          /\ FreePages' = (FreePages \ Growth) \cup P
      BY <1>1, <1>5, <1>6, <1>9, <2>1, TakesBackStep
    <2>3. Abstract!Free(a, n)
      <3>1. Abstract!Works
        BY <1>2, <1>5, <1>9 DEF Abstract!Works
      <3>2. /\ Cuts \ {a, a + n} \subseteq Cuts'
            /\ Cuts' \subseteq (IF n = 0 THEN Cuts \cup {a} ELSE Cuts)
        BY <1>8 DEF CutsAfterFree
      <3> QED
        BY <1>5, <1>7, <2>1, <2>2, <3>1, <3>2
           DEF Abstract!Free, Abstract!Called, Growth
    <2>4. PanicOnlyOnMisuse'
      BY <1>5, <1>9 DEF PanicOnlyOnMisuse
    <2> QED
      BY <2>2, <2>3, <2>4 DEF Promise, AbstractStep, Abstract!Next
  <1>10. CASE /\ s.bug # "none" /\ Gives(Globals, s, {})
              /\ a \notin CutsOf(s.ranges) => NoneHolds(s.ranges, a, n)
    <2>1. held' = held /\ held' = held \cup {} /\ Cuts' = Cuts
      BY <1>1, <1>5, <1>8, <1>10, CutsUnchanged
    <2>2. OneOwner' /\ Abstract!Takes /\ FreePages' = FreePages \ Growth
      BY <1>5, <1>10, <2>1, GivesStep
    <2>3. /\ N = Run(a, k) /\ Abstract!Named(a, n) = N
          /\ a \in N /\ Run(a + 1, k - 1) \subseteq N
          /\ Run(a + 1, k - 1) = Run(a + 1, n - 1)
      BY <1>3, NamedFacts
    <2> HIDE DEF N, k
    \* Held pages that are not cut are those of two entries of the loader.
    <2>4. ASSUME N \subseteq held, N \cap Cuts = {}
          PROVE  SeamInside(a, n)'
      <3>1. NoneHolds(s.ranges, a, n)
        BY <1>5, <1>10, <2>1, <2>3, <2>4 DEF Cuts
      <3>2. Run(a, k) \subseteq PagesOfType(ranges', MEMORY_ALLOCATED)
        BY <2>1, <2>2, <2>3, <2>4 DEF OneOwner, AllocatedPages
      <3>3. \/ SeamInside(a, k)'
            \/ CutInside(MEMORY_ALLOCATED, a, k)'
            \/ \E i \in 1 .. Len(ranges') : HoldsRun(ranges', i, MEMORY_ALLOCATED, a, k)
        BY <1>3, <3>2 DEF Unbroken
      <3>4. ~CutInside(MEMORY_ALLOCATED, a, k)'
        BY <2>1, <2>3, <2>4 DEF CutInside
      <3>5. ~\E i \in 1 .. Len(ranges') : HoldsRun(ranges', i, MEMORY_ALLOCATED, a, k)
        BY <1>5, <3>1 DEF NoneHolds, k
      <3>6. SeamInside(a, k)'
        BY <3>3, <3>4, <3>5
      <3> QED
        BY <2>3, <3>6 DEF SeamInside
    <2>5. ASSUME N \subseteq held, N \cap Cuts = {}, NEW r \in Regions, P \subseteq r
          PROVE  FALSE
      <3>1. SeamInside(a, n)
        BY <1>1, <2>4, <2>5 DEF SeamInside, LoaderSeam
      <3>2. n > 0
        BY <1>3, <3>1 DEF SeamInside, Run
      <3> QED
        BY <1>3, <2>5, <3>1, <3>2, RegionHasNoSeam DEF P
    <2>6. Abstract!Mistake
      <3>1. ~(/\ Abstract!Named(a, n) \subseteq held
              /\ Abstract!InOneRegion(Abstract!PagesFrom(a, n))
              /\ Abstract!Named(a, n) \cap Cuts = {})
        BY <1>7, <2>3, <2>5 DEF Abstract!InOneRegion
      <3> QED
        BY <1>2, <1>5, <1>10, <2>1, <2>2, <3>1
           DEF Abstract!Mistake, Abstract!Called, Growth
    <2>7. PanicOnlyOnMisuse'
      <3>1. N \subseteq held' /\ N \cap Cuts' = {} => SeamInside(a, n)'
        BY <2>1, <2>4
      <3> QED
        BY <1>5, <3>1 DEF PanicOnlyOnMisuse, SeamInside, N
    <2> QED
      BY <2>2, <2>6, <2>7 DEF Promise, AbstractStep, Abstract!Next
  <1> QED
    BY <1>4, <1>9, <1>10

LEMMA AppendStep ==
    ASSUME MapInv, RoomInv, OneOwner, AppendEntry
    PROVE  Promise
  <1> DEFINE entry == memory_map[next_entry]
             type  == IF entry.type = "FREE" THEN MEMORY_FREE ELSE MEMORY_ALLOCATED
             mr    == MR(entry.physical_address, entry.size, type)
             s     == range_append(Globals, mr)
             F     == IF mr.type = MEMORY_FREE THEN PagesOf(mr) ELSE {}
             A     == IF mr.type = MEMORY_ALLOCATED THEN PagesOf(mr) ELSE {}
  <1>1. /\ Running /\ Returns(s, "append", entry.physical_address, entry.size, s.ret)
        /\ held' = IF s.bug = "none" /\ s.ret = 0 /\ type = MEMORY_ALLOCATED
                     THEN held \cup PagesOf(entry) ELSE held
        /\ memory_map' = memory_map
    BY DEF AppendEntry
  <1>2. Sound(Globals) /\ Fit(Globals) /\ bug = "none" /\ Regions' = Regions
    BY <1>1, CallFacts
  <1>3. /\ memory_map \in MemoryMaps /\ next_entry \in Nat \ {0}
        /\ Len(memory_map) \in Nat /\ DOMAIN memory_map = 1 .. Len(memory_map)
    BY LoaderFacts, MemoryMapsAssumption DEF MapInv, TypeOK
  <1>4. next_entry \in 1 .. Len(memory_map)
    BY <1>3 DEF AppendEntry, Initialised
  <1>5. entry.physical_address \in Nat /\ entry.size \in Nat /\ entry.size > 0
    BY <1>3, <1>4, LoaderFacts
  <1>6. /\ mr \in Ranges /\ mr.physical_address = entry.physical_address
        /\ mr.size = entry.size /\ mr.type = type
    <2>1. type \in {MEMORY_FREE, MEMORY_ALLOCATED}
      BY Zenon
    <2> DEFINE a == entry.physical_address
               n == entry.size
    <2>2. a \in Nat /\ n \in Nat /\ n > 0
      BY <1>5, Zenon
    <2> HIDE DEF entry, type, a, n
    <2>3. /\ MR(a, n, type) \in Ranges /\ MR(a, n, type).physical_address = a
          /\ MR(a, n, type).size = n /\ MR(a, n, type).type = type
      BY <2>1, <2>2, EntryFacts, ZenonT(40)
    <2> QED
      BY <2>3, Zenon DEF a, n
  <1>7. PagesOf(mr) = PagesOf(entry) /\ PagesOf(entry) \in Regions
    BY <1>3, <1>4, <1>6 DEF PagesOf, Regions
  <1>8. Below(Globals.ranges, mr.physical_address)
    BY <1>3, <1>4, <1>6, GlobalsFields DEF MapInv, EntriesAbove
  <1>9. type = MEMORY_FREE \/ type = MEMORY_ALLOCATED
    OBVIOUS
  <1>23. mr.size > 0
    BY <1>5, <1>6
  <1> HIDE DEF entry, type, mr
  <1>24. SameCuts(Globals, s)
    BY <1>2, <1>6, <1>23, AppendCuts, GlobalsFields
  <1>10. /\ s.bug = "none" /\ s.ret = 0
         /\ OwnIn(Globals) \subseteq OwnIn(s) /\ Grown(Globals, s) \subseteq FreeIn(Globals)
         /\ PagesOf(mr) \cap (FreeIn(Globals) \cup TakenIn(Globals)) = {}
         /\ FreeIn(s) = (FreeIn(Globals) \ Grown(Globals, s)) \cup F
         /\ TakenIn(s) = (TakenIn(Globals) \cup Grown(Globals, s)) \cup A
    BY <1>2, <1>6, <1>8, AppendTakes
  <1> HIDE DEF s
  <1>11. /\ FreePages' = FreeIn(s) /\ AllocatedPages' = TakenIn(s)
         /\ BufferPages' = OwnIn(s) /\ bug' = s.bug /\ call'.op = "append"
         /\ ranges' = s.ranges
    BY <1>1, ReturnsSets
  <1>25. Cuts' = Cuts
    BY <1>11, <1>24, CutsUnchanged
  <1>12. MEMORY_FREE # MEMORY_ALLOCATED
    BY DEF MEMORY_FREE, MEMORY_ALLOCATED
  <1> DEFINE r == PagesOf(entry)
             G == Growth
  <1>13. /\ type = MEMORY_FREE => F = r /\ A = {} /\ held' = held
         /\ type = MEMORY_ALLOCATED => F = {} /\ A = r /\ held' = held \cup r
    BY <1>1, <1>6, <1>7, <1>10, <1>12
  <1> HIDE DEF F, A
  <1>14. /\ BufferPages \subseteq BufferPages' /\ G \subseteq FreePages
         /\ r \cap (FreePages \cup AllocatedPages) = {}
         /\ FreePages' = (FreePages \ G) \cup F
         /\ AllocatedPages' = (AllocatedPages \cup G) \cup A
    BY <1>7, <1>10, <1>11, GlobalsSets DEF Grown, Growth
  <1>15. BufferPages' = BufferPages \cup G
    BY <1>14 DEF Growth
  <1>16. Abstract!Takes
    BY <1>14 DEF Abstract!Takes, Growth
  <1>17. /\ held \cap BufferPages = {} /\ AllocatedPages = held \cup BufferPages
         /\ FreePages \cap AllocatedPages = {}
    BY FreeIsNotAllocated DEF OneOwner
  <1>18. Abstract!Works
    BY <1>2, <1>10, <1>11 DEF Abstract!Works
  <1>19. PanicOnlyOnMisuse'
    BY <1>10, <1>11 DEF PanicOnlyOnMisuse
  <1>20. r \cap (FreePages \cup held \cup BufferPages) = {}
    BY <1>14, <1>17
  <1> HIDE DEF G, r
  <1>21. OneOwner'
    <2>1. held' = held \cup A
      BY <1>9, <1>13
    <2>2. A \cap (FreePages \cup AllocatedPages) = {}
      BY <1>9, <1>13, <1>14
    <2>3. held' \cap BufferPages' = {} /\ AllocatedPages' = held' \cup BufferPages'
      BY <1>14, <1>15, <1>17, <2>1, <2>2
    <2> QED
      BY <2>3 DEF OneOwner
  <1>22. Abstract!AddRegion
    <2>1. r \in Regions
      BY <1>7 DEF r
    <2>2. \/ FreePages' = (FreePages \ G) \cup r /\ held' = held
          \/ FreePages' = FreePages \ G /\ held' = held \cup r
      BY <1>9, <1>13, <1>14
    <2> QED
      BY <1>11, <1>16, <1>18, <1>20, <1>25, <2>1, <2>2 DEF Abstract!AddRegion, G, Growth
  <1> QED
    BY <1>19, <1>21, <1>22 DEF Promise, AbstractStep, Abstract!Next

\* A step that leaves the allocator as it is, and what was called.
LEMMA IdleStep ==
    ASSUME OneOwner, PanicOnlyOnMisuse,
           UNCHANGED <<memory_map, g_buffer, g_capacity, ranges, bug, call, held>>
    PROVE  Promise
  <1>1. UNCHANGED <<FreePages, AllocatedPages, BufferPages, Cuts, Regions>>
    BY DEF FreePages, AllocatedPages, BufferPages, Cuts, Regions
  <1>2. OneOwner'
    BY <1>1 DEF OneOwner
  <1>3. PanicOnlyOnMisuse'
    BY <1>1 DEF PanicOnlyOnMisuse, LoaderSeam
  <1>4. UNCHANGED Abstract!vars
    BY <1>1 DEF Abstract!vars
  <1> QED
    BY <1>2, <1>3, <1>4 DEF Promise, AbstractStep

(***************************************************************************)
(* The inductive invariant.  OneOwner needs the map in order (MapInv), so  *)
(* that a page has one type, and room in the buffer (RoomInv), so that no  *)
(* call stops half way; that a free of held pages does not panic, and that *)
(* a refusal is justified, needs SeamInv: pages in a row that are in two   *)
(* ranges are so because of the loader, or because they are allocated and  *)
(* a free of no pages has cut them.                                        *)
(***************************************************************************)
OwnerInv == MapInv /\ RoomInv /\ SeamInv /\ OneOwner /\ PanicOnlyOnMisuse

LEMMA InitOwnerInv == Init => OwnerInv
  <1> SUFFICES ASSUME Init PROVE OneOwner /\ PanicOnlyOnMisuse
    BY InitMapInv, InitRoomInv, InitSeamInv DEF OwnerInv
  <1>1. /\ ranges = <<>> /\ DOMAIN ranges = {} /\ held = {} /\ bug = "none"
        /\ g_buffer = g_initial_buffer
    BY DEF Init
  <1>2. BufferPages = {}
    BY <1>1 DEF BufferPages, g_initial_buffer
  <1>3. AllocatedPages = {}
    BY <1>1 DEF AllocatedPages, PagesOfType
  <1> QED
    BY <1>1, <1>2, <1>3 DEF OneOwner, PanicOnlyOnMisuse

LEMMA NextOwnerInv ==
    ASSUME PageZeroUnused
    PROVE  OwnerInv /\ [Next]_vars => OwnerInv' /\ AbstractStep
  <1> SUFFICES ASSUME OwnerInv, [Next]_vars PROVE OwnerInv' /\ AbstractStep
    OBVIOUS
  <1>1. MapInv /\ RoomInv /\ SeamInv /\ OneOwner /\ PanicOnlyOnMisuse
    BY DEF OwnerInv
  <1>2. MapInv'
    BY <1>1, NextMapInv
  <1>3. RoomInv'
    BY <1>1, NextRoomInv
  <1>4. SeamInv'
    BY <1>1, <1>2, NextSeamInv
  <1>5. Unbroken'
    BY <1>2, <1>4, MapIsUnbroken, PTL
  <1>6. Promise
    <2>1. CASE AppendEntry
      BY <1>1, <2>1, AppendStep
    <2>2. CASE SkipEntry
      BY <1>1, <2>2, IdleStep DEF SkipEntry
    <2>3. CASE \E n \in 0 .. MaxPages : Alloc(n)
      BY <1>1, <1>5, <2>3, AllocStep
    <2>4. CASE \E a \in Pages, n \in 0 .. MaxPages : AllocAt(a, n)
      BY <1>1, <1>5, <2>4, AllocAtStep
    <2>5. CASE \E a \in Pages, n \in 0 .. MaxPages : Free(a, n)
      BY <1>1, <1>5, <2>5, FreeStep
    <2>6. CASE UNCHANGED vars
      BY <1>1, <2>6, IdleStep DEF vars
    <2> QED
      BY <2>1, <2>2, <2>3, <2>4, <2>5, <2>6 DEF Next
  <1> QED
    BY <1>2, <1>3, <1>4, <1>6 DEF OwnerInv, Promise

(***************************************************************************)
(* No page is handed out twice and none is lost, whatever the loader's     *)
(* map, the requests and the growth of the buffer: what boot_alloc.c       *)
(* records as allocated is what callers hold and the buffer, which they    *)
(* never share.  As in BufferNeverOverflows the loader keeps page 0.       *)
(***************************************************************************)
THEOREM PagesHaveOneOwner == PageZeroUnused => (Spec => []OneOwner)
  <1> SUFFICES ASSUME PageZeroUnused PROVE Spec => []OneOwner
    OBVIOUS
  <1>1. Init => OwnerInv
    BY InitOwnerInv
  <1>2. OwnerInv /\ [Next]_vars => OwnerInv'
    BY NextOwnerInv
  <1>3. OwnerInv => OneOwner
    BY DEF OwnerInv
  <1> QED
    BY <1>1, <1>2, <1>3, PTL DEF Spec

(***************************************************************************)
(* The BUG_ONs of allocate_out_of, range_emplace_at and boot_free catch    *)
(* mistakes of callers and nothing else: a caller that asks for pages, and *)
(* frees what it holds, never stops the kernel unless it frees across the  *)
(* border of two entries of the loader, or memory in which a free of no    *)
(* pages has left an empty range: that call the code accepts, and a later, *)
(* correct one panics for it.                                              *)
(***************************************************************************)
THEOREM PanicsAreMisuse == PageZeroUnused => (Spec => []PanicOnlyOnMisuse)
  <1> SUFFICES ASSUME PageZeroUnused PROVE Spec => []PanicOnlyOnMisuse
    OBVIOUS
  <1>1. Init => OwnerInv
    BY InitOwnerInv
  <1>2. OwnerInv /\ [Next]_vars => OwnerInv'
    BY NextOwnerInv
  <1>3. OwnerInv => PanicOnlyOnMisuse
    BY DEF OwnerInv
  <1> QED
    BY <1>1, <1>2, <1>3, PTL DEF Spec

(***************************************************************************)
(* The boot allocator implements PageAllocator: seen as sets of pages, its *)
(* splits, merges and growth are grants, refusals, returns and mistakes,   *)
(* and a refusal means that the memory is not there.  The one thing of the *)
(* ranges that callers see is where a free of no pages has cut them.       *)
(***************************************************************************)
THEOREM Refinement == PageZeroUnused => (Spec => ImplementsPageAllocator)
  <1> SUFFICES ASSUME PageZeroUnused PROVE Spec => ImplementsPageAllocator
    OBVIOUS
  <1>1. Init => OwnerInv
    BY InitOwnerInv
  <1>2. OwnerInv /\ [Next]_vars => OwnerInv' /\ [Abstract!Next]_(Abstract!vars)
    BY NextOwnerInv DEF AbstractStep
  <1>3. Init => Abstract!Init
    <2> SUFFICES ASSUME Init PROVE Abstract!Init
      OBVIOUS
    <2>1. /\ ranges = <<>> /\ DOMAIN ranges = {} /\ held = {} /\ bug = "none"
          /\ g_buffer = g_initial_buffer /\ call.op = "none"
      BY DEF Init, NoCall
    <2>2. BufferPages = {}
      BY <2>1 DEF BufferPages, g_initial_buffer
    <2>3. FreePages = {} /\ Cuts = {}
      BY <2>1 DEF FreePages, PagesOfType, Cuts, CutsOf
    <2>4. Regions \subseteq SUBSET Nat
      <3> SUFFICES ASSUME NEW k \in DOMAIN memory_map PROVE PagesOf(memory_map[k]) \subseteq Nat
        BY DEF Regions
      <3>1. memory_map \in MemoryMaps
        BY DEF Init
      <3>2. /\ memory_map[k].physical_address \in Nat /\ memory_map[k].size \in Nat
            /\ memory_map[k].size > 0
        BY <3>1, LoaderFacts, MemoryMapsAssumption
      <3> QED
        BY <3>2 DEF PagesOf, Run
    <2> QED
      BY <2>1, <2>2, <2>3, <2>4 DEF Abstract!Init
  <1> QED
    BY <1>1, <1>2, <1>3, PTL DEF Spec, ImplementsPageAllocator, Abstract!Spec
=============================================================================
