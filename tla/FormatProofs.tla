----------------------------- MODULE FormatProofs -----------------------------
(***************************************************************************)
(* vsnprintf stays inside its buffer, and its callers get the start of the *)
(* output, for every format, every argument and every size of the buffer;  *)
(* and every step of it advances.                                          *)
(***************************************************************************)
EXTENDS Format, FiniteSetTheorems, WellFoundedInduction, TLAPS

\* The characters of formats, arguments and outputs.  The literals of the code
\* are named because the provers do not know that they are strings.
Char == STRING \cup {NUL, "old", " ", "%", "-", "x", "X", "<", ">"}
               \cup {LowerHex[i] : i \in 1 .. 16} \cup {UpperHex[i] : i \in 1 .. 16}

-----------------------------------------------------------------------------
(***************************************************************************)
(* Numbers.                                                                *)
(***************************************************************************)
LEMMA LeastNumber ==
    ASSUME NEW T \in SUBSET Nat, T # {}
    PROVE  \E x \in T : \A y \in T : x <= y
  <1> DEFINE lt == OpToRel(<, Nat)
  <1>1. PICK x \in T : \A y \in T : ~(<<y, x>> \in lt)
    BY WFMin, NatLessThanWellFounded, Zenon
  <1>2. \A y \in T : ~(y < x)
    BY <1>1 DEF OpToRel
  <1> QED
    BY <1>2

LEMMA MinOfTwo ==
    ASSUME NEW m \in Int, NEW n \in Int
    PROVE  Min({m, n}) = IF m <= n THEN m ELSE n
  <1> DEFINE P(x) == x \in {m, n} /\ \A y \in {m, n} : x <= y
  <1>1. \E x : P(x)
    BY P(IF m <= n THEN m ELSE n)
  <1>2. P(Min({m, n}))
    BY <1>1, Zenon DEF Min
  <1> QED
    BY <1>2

LEMMA MaxOfTwo ==
    ASSUME NEW m \in Int, NEW n \in Int
    PROVE  Max({m, n}) = IF m >= n THEN m ELSE n
  <1> DEFINE P(x) == x \in {m, n} /\ \A y \in {m, n} : x >= y
  <1>1. \E x : P(x)
    BY P(IF m >= n THEN m ELSE n)
  <1>2. P(Max({m, n}))
    BY <1>1, Zenon DEF Max
  <1> QED
    BY <1>2

\* Where the characters of a sequence that are not in T end.
LEMMA StopExists ==
    ASSUME NEW s \in Seq(Char), NEW T
    PROVE  \E k \in 0 .. Len(s) : /\ \A i \in 1 .. k : s[i] \notin T
                                  /\ k = Len(s) \/ s[k + 1] \in T
  <1> DEFINE N == {k \in Nat : k = Len(s) \/ (k < Len(s) /\ s[k + 1] \in T)}
  <1>1. Len(s) \in N
    OBVIOUS
  <1>2. PICK k \in N : \A y \in N : k <= y
    BY <1>1, LeastNumber
  <1>3. k \in 0 .. Len(s) /\ (k = Len(s) \/ s[k + 1] \in T)
    BY <1>1, <1>2
  <1>4. ASSUME NEW i \in 1 .. k PROVE s[i] \notin T
    <2>1. i - 1 \in Nat /\ ~(k <= i - 1) /\ i - 1 < Len(s) /\ (i - 1) + 1 = i
      BY <1>3, <1>4
    <2>2. i - 1 \notin N
      BY <1>2, <2>1
    <2> QED
      BY <2>1, <2>2
  <1> QED
    BY <1>3, <1>4

-----------------------------------------------------------------------------
(***************************************************************************)
(* The buffer.                                                             *)
(***************************************************************************)
IsBuffer(b) ==
    \E capacity, written \in Nat : \E buffer \in [0 .. capacity - 1 -> Char] :
    \E all \in Seq(Char) :
        b = [buffer |-> buffer, capacity |-> capacity,
             bytes_written |-> written, all |-> all]

\* Every character is counted, and those that fit are in the buffer.
Counted(b) == Len(b.all) = b.bytes_written
Kept(b) == \A i \in 1 .. Len(b.all) : i <= b.capacity => b.buffer[i - 1] = b.all[i]

\* A call that writes keeps the buffer in order.
Extends(c, b) ==
    /\ IsBuffer(c) /\ c.capacity = b.capacity
    /\ Counted(b) => Counted(c)
    /\ Counted(b) /\ Kept(b) => Kept(c)

LEMMA BufferFields ==
    ASSUME NEW b, IsBuffer(b)
    PROVE  /\ b.capacity \in Nat /\ b.bytes_written \in Nat
           /\ b.buffer \in [0 .. b.capacity - 1 -> Char]
           /\ b.all \in Seq(Char)
           /\ b = [buffer |-> b.buffer, capacity |-> b.capacity,
                   bytes_written |-> b.bytes_written, all |-> b.all]
  BY DEF IsBuffer

LEMMA StoredFacts ==
    ASSUME NEW capacity \in Nat, NEW buffer \in [0 .. capacity - 1 -> Char],
           NEW at \in Nat, NEW s \in Seq(Char),
           at + Len(s) <= capacity \/ Len(s) = 0
    PROVE  /\ Stored(buffer, at, s) \in [0 .. capacity - 1 -> Char]
           /\ \A i \in 0 .. capacity - 1 :
                 Stored(buffer, at, s)[i] =
                    IF i >= at /\ i < at + Len(s) THEN s[i - at + 1] ELSE buffer[i]
  <1> DEFINE D == 0 .. capacity - 1
             R == at .. (at + Len(s) - 1)
             E(i) == IF i \in R THEN s[i - at + 1] ELSE buffer[i]
  <1>1. D \cup R = D
    OBVIOUS
  <1>2. DOMAIN buffer = D
    OBVIOUS
  <1>3. Stored(buffer, at, s) = [i \in D |-> E(i)]
    BY <1>1, <1>2 DEF Stored
  <1>4. \A i \in D : E(i) \in Char
    <2>1. \A i \in R : i - at + 1 \in 1 .. Len(s)
      OBVIOUS
    <2> QED
      BY <2>1
  <1>5. \A i \in D : i \in R <=> (i >= at /\ i < at + Len(s))
    OBVIOUS
  <1> HIDE DEF D, R
  <1> QED
    BY <1>3, <1>4, <1>5 DEF D

\* A place behind the first l ones.
LEMMA Behind ==
    \A l, m, n, i \in Nat :
        i >= 1 /\ i <= n /\ i <= l + m /\ ~(i <= l) =>
            i - l \in 1 .. m /\ l + (i - l) <= n /\ (i - 1) - l + 1 = i - l
  OBVIOUS

\* What write_each and write_many have in common: the first n characters are
\* stored, which are those that fit.
LEMMA WriteFacts ==
    ASSUME NEW b, IsBuffer(b), NEW s \in Seq(Char), NEW n \in 0 .. Len(s), NEW c,
           c = [buffer |-> Stored(b.buffer, b.bytes_written, SubSeq(s, 1, n)),
                capacity |-> b.capacity, bytes_written |-> b.bytes_written + Len(s),
                all |-> b.all \o s],
           n = 0 \/ b.bytes_written + n <= b.capacity,
           \A i \in 1 .. Len(s) : b.bytes_written + i <= b.capacity => i <= n
    PROVE  Extends(c, b)
  <1> DEFINE t == SubSeq(s, 1, n)
  <1>1. /\ b.capacity \in Nat /\ b.bytes_written \in Nat /\ b.all \in Seq(Char)
        /\ b.buffer \in [0 .. b.capacity - 1 -> Char]
    BY BufferFields
  <1>2. t \in Seq(Char) /\ Len(t) = n /\ \A i \in 1 .. n : t[i] = s[i]
    OBVIOUS
  <1> HIDE DEF t
  <1>3. /\ c.buffer \in [0 .. b.capacity - 1 -> Char]
        /\ \A i \in 0 .. b.capacity - 1 :
              c.buffer[i] = IF i >= b.bytes_written /\ i < b.bytes_written + n
                            THEN t[i - b.bytes_written + 1] ELSE b.buffer[i]
    <2>1. b.bytes_written + Len(t) <= b.capacity \/ Len(t) = 0
      BY <1>1, <1>2
    <2>2. c.buffer = Stored(b.buffer, b.bytes_written, t)
      BY DEF t
    <2> DEFINE u == Stored(b.buffer, b.bytes_written, t)
    <2>3. /\ u \in [0 .. b.capacity - 1 -> Char]
          /\ \A i \in 0 .. b.capacity - 1 :
                u[i] = IF i >= b.bytes_written /\ i < b.bytes_written + Len(t)
                       THEN t[i - b.bytes_written + 1] ELSE b.buffer[i]
      BY <1>1, <1>2, <2>1, StoredFacts, ZenonT(40)
    <2> HIDE DEF u
    <2> QED
      BY <1>2, <2>2, <2>3 DEF u
  <1>4. /\ c.all \in Seq(Char) /\ Len(c.all) = Len(b.all) + Len(s)
        /\ c.bytes_written = b.bytes_written + Len(s) /\ c.capacity = b.capacity
        /\ \A i \in 1 .. Len(c.all) :
              c.all[i] = IF i <= Len(b.all) THEN b.all[i] ELSE s[i - Len(b.all)]
    BY <1>1
  <1>5. IsBuffer(c)
    <2>1. c = [buffer |-> c.buffer, capacity |-> c.capacity,
               bytes_written |-> c.bytes_written, all |-> c.all]
      OBVIOUS
    <2>2. c.bytes_written \in Nat
      BY <1>1, <1>4
    <2> QED
      BY <1>1, <1>3, <1>4, <2>1, <2>2 DEF IsBuffer
  <1>6. Counted(b) => Counted(c)
    BY <1>1, <1>4 DEF Counted
  <1>7. ASSUME Counted(b), Kept(b), NEW i \in 1 .. Len(c.all), i <= c.capacity
        PROVE  c.buffer[i - 1] = c.all[i]
    <2>1. /\ i - 1 \in 0 .. b.capacity - 1 /\ Len(b.all) = b.bytes_written
          /\ i \in Nat /\ i >= 1 /\ i <= b.capacity /\ b.capacity \in Nat
          /\ Len(b.all) \in Nat /\ Len(s) \in Nat /\ i <= Len(b.all) + Len(s)
      BY <1>1, <1>4, <1>7 DEF Counted
    <2>2. CASE i <= Len(b.all)
      <3>1. ~(i - 1 >= b.bytes_written) /\ i \in 1 .. Len(b.all)
        BY <1>1, <2>1, <2>2
      <3> QED
        BY <1>3, <1>4, <1>7, <2>1, <2>2, <3>1 DEF Kept
    <2>3. CASE ~(i <= Len(b.all))
      <3> DEFINE j == i - Len(b.all)
      <3>1. /\ j \in 1 .. Len(s) /\ b.bytes_written + j <= b.capacity
            /\ (i - 1) - b.bytes_written + 1 = j
        <4> DEFINE l == Len(b.all)
                   m == Len(s)
                   k == b.capacity
        <4>1. /\ l \in Nat /\ m \in Nat /\ k \in Nat /\ i \in Nat
              /\ i >= 1 /\ i <= k /\ i <= l + m /\ ~(i <= l)
          BY <2>1, <2>3, Zenon
        <4>2. b.bytes_written = l
          BY <2>1, Zenon
        <4> HIDE DEF l, m, k
        <4>3. i - l \in 1 .. m /\ l + (i - l) <= k /\ (i - 1) - l + 1 = i - l
          BY <4>1, Behind, Zenon
        <4>4. j \in 1 .. Len(s)
          BY <4>3, Zenon DEF l, m
        <4>5. l + j <= k /\ (i - 1) - l + 1 = j
          BY <4>3, Zenon DEF l
        <4> QED
          BY <4>2, <4>4, <4>5, Zenon DEF k
      <3>2. j \in 1 .. n
        <4> HIDE DEF j
        <4>1. j <= n
          BY <3>1, Zenon
        <4> QED
          BY <3>1, <4>1
      <3>3. i - 1 >= b.bytes_written /\ i - 1 < b.bytes_written + n
        BY <1>1, <2>1, <2>3, <3>2, SMTT(30)
      <3>4. c.buffer[i - 1] = t[j]
        BY <1>3, <2>1, <3>1, <3>3
      <3>5. c.all[i] = s[j]
        BY <1>4, <2>3
      <3> HIDE DEF j
      <3> QED
        BY <1>2, <3>2, <3>4, <3>5
    <2> QED
      BY <2>2, <2>3
  <1> QED
    BY <1>4, <1>5, <1>6, <1>7 DEF Extends, Kept

\* Stored characters that do not change what is counted.
LEMMA NothingStored ==
    ASSUME NEW b, IsBuffer(b)
    PROVE  Stored(b.buffer, b.bytes_written, <<>>) = b.buffer
  <1>1. b.capacity \in Nat /\ b.bytes_written \in Nat /\ b.buffer \in [0 .. b.capacity - 1 -> Char]
    BY BufferFields
  <1>2. b.bytes_written .. (b.bytes_written + Len(<<>>) - 1) = {}
    BY <1>1
  <1> QED
    BY <1>1, <1>2 DEF Stored

\* The fields that a call assigns.
LEMMA Assigned ==
    ASSUME NEW b, IsBuffer(b), NEW stored, NEW s \in Seq(Char)
    PROVE  [b EXCEPT !.buffer = stored, !.bytes_written = @ + Len(s), !.all = @ \o s]
           = [buffer |-> stored, capacity |-> b.capacity,
              bytes_written |-> b.bytes_written + Len(s), all |-> b.all \o s]
  <1> DEFINE B == {b.buffer, stored}
             R == [buffer : B, capacity : Nat, bytes_written : Nat, all : Seq(Char)]
  <1>1. /\ b.capacity \in Nat /\ b.bytes_written \in Nat /\ b.all \in Seq(Char)
        /\ b = [buffer |-> b.buffer, capacity |-> b.capacity,
                bytes_written |-> b.bytes_written, all |-> b.all]
    BY BufferFields
  <1>2. b.buffer \in B /\ stored \in B
    OBVIOUS
  <1> HIDE DEF B
  <1>3. b \in R
    BY <1>1, <1>2
  <1>4. b.bytes_written + Len(s) \in Nat /\ b.all \o s \in Seq(Char)
    BY <1>1
  <1>5. \A y \in Nat, z \in Seq(Char) :
           [b EXCEPT !.buffer = stored, !.bytes_written = y, !.all = z]
           = [buffer |-> stored, capacity |-> b.capacity, bytes_written |-> y, all |-> z]
    <2> TAKE y \in Nat, z \in Seq(Char)
    <2> DEFINE u == [b EXCEPT !.buffer = stored, !.bytes_written = y, !.all = z]
               v == [buffer |-> stored, capacity |-> b.capacity, bytes_written |-> y, all |-> z]
    <2>1. /\ u \in R /\ u.buffer = stored /\ u.capacity = b.capacity
          /\ u.bytes_written = y /\ u.all = z
      BY <1>2, <1>3
    <2>2. /\ v \in R /\ v.buffer = stored /\ v.capacity = b.capacity
          /\ v.bytes_written = y /\ v.all = z
      BY <1>1, <1>2
    <2> HIDE DEF u, v
    <2>3. u = v
      BY <2>1, <2>2
    <2> QED
      BY <2>3, Zenon DEF u, v
  <1> QED
    BY <1>4, <1>5, Zenon

\* One of the fields alone.
LEMMA OneAssigned ==
    ASSUME NEW b, IsBuffer(b), NEW x \in [0 .. b.capacity - 1 -> Char], NEW w \in Nat
    PROVE  /\ IsBuffer([b EXCEPT !.buffer = x])
           /\ [b EXCEPT !.buffer = x].capacity = b.capacity
           /\ [b EXCEPT !.buffer = x].bytes_written = b.bytes_written
           /\ [b EXCEPT !.buffer = x].all = b.all
           /\ [b EXCEPT !.buffer = x].buffer = x
           /\ IsBuffer([b EXCEPT !.bytes_written = w])
           /\ [b EXCEPT !.bytes_written = w].capacity = b.capacity
  <1> DEFINE B == [0 .. b.capacity - 1 -> Char]
             R == [buffer : B, capacity : {b.capacity}, bytes_written : Nat, all : Seq(Char)]
  <1>1. /\ b.capacity \in Nat /\ b.bytes_written \in Nat /\ b.all \in Seq(Char)
        /\ b.buffer \in B
        /\ b = [buffer |-> b.buffer, capacity |-> b.capacity,
                bytes_written |-> b.bytes_written, all |-> b.all]
    BY BufferFields
  <1>2. x \in B
    OBVIOUS
  <1>3. \A u \in R : IsBuffer(u)
    <2> TAKE u \in R
    <2>1. u = [buffer |-> u.buffer, capacity |-> u.capacity,
               bytes_written |-> u.bytes_written, all |-> u.all]
      OBVIOUS
    <2> QED
      BY <1>1, <2>1 DEF IsBuffer
  <1> HIDE DEF B
  <1>4. b \in R
    BY <1>1
  <1>5. /\ [b EXCEPT !.buffer = x] \in R
        /\ [b EXCEPT !.buffer = x].capacity = b.capacity
        /\ [b EXCEPT !.buffer = x].bytes_written = b.bytes_written
        /\ [b EXCEPT !.buffer = x].all = b.all
        /\ [b EXCEPT !.buffer = x].buffer = x
    BY <1>2, <1>4
  <1>6. /\ [b EXCEPT !.bytes_written = w] \in R
        /\ [b EXCEPT !.bytes_written = w].capacity = b.capacity
    BY <1>4
  <1> HIDE DEF R
  <1> QED
    BY <1>3, <1>5, <1>6, Zenon

LEMMA WriteEachExtends ==
    ASSUME NEW b, IsBuffer(b), NEW s \in Seq(Char)
    PROVE  Extends(write_each(b, s), b)
  <1> DEFINE room == b.capacity - b.bytes_written
             n == IF room <= 0 THEN 0 ELSE IF Len(s) <= room THEN Len(s) ELSE room
             inside == {i \in DOMAIN s : b.bytes_written + i - 1 < b.capacity}
  <1>1. /\ b.capacity \in Nat /\ b.bytes_written \in Nat
        /\ b = [buffer |-> b.buffer, capacity |-> b.capacity,
                bytes_written |-> b.bytes_written, all |-> b.all]
    BY BufferFields
  <1>2. /\ n \in 0 .. Len(s)
        /\ n = 0 \/ b.bytes_written + n <= b.capacity
        /\ \A i \in 1 .. Len(s) : b.bytes_written + i <= b.capacity => i <= n
    BY <1>1
  <1>3. inside = 1 .. n
    BY <1>1
  <1>4. Cardinality(inside) = n
    <2>1. Cardinality(1 .. n) = n
      BY <1>2, FS_Interval, SMTT(30)
    <2> HIDE DEF n, inside
    <2> QED
      BY <1>3, <2>1
  <1> DEFINE c == [buffer |-> Stored(b.buffer, b.bytes_written, SubSeq(s, 1, n)),
                   capacity |-> b.capacity, bytes_written |-> b.bytes_written + Len(s),
                   all |-> b.all \o s]
  <1>5. write_each(b, s) = c
    <2> DEFINE stored == Stored(b.buffer, b.bytes_written, SubSeq(s, 1, n))
    <2>1. write_each(b, s) =
            [b EXCEPT !.buffer = stored, !.bytes_written = @ + Len(s), !.all = @ \o s]
      <3> HIDE DEF n, inside
      <3> QED
        BY <1>4, Zenon DEF write_each, inside
    <2> HIDE DEF stored
    <2> QED
      BY <2>1, Assigned, Zenon DEF stored
  <1>6. Extends(c, b)
    <2> HIDE DEF n
    <2> QED
      BY <1>2, WriteFacts
  <1> QED
    BY <1>5, <1>6, Zenon

LEMMA WriteManyExtends ==
    ASSUME NEW b, IsBuffer(b), NEW s \in Seq(Char)
    PROVE  Extends(write_many(b, s), b)
  <1> DEFINE room == b.capacity - b.bytes_written
             count == Min({Len(s), room})
             n == IF room <= 0 THEN 0 ELSE IF Len(s) <= room THEN Len(s) ELSE room
  <1>1. /\ b.capacity \in Nat /\ b.bytes_written \in Nat
        /\ b = [buffer |-> b.buffer, capacity |-> b.capacity,
                bytes_written |-> b.bytes_written, all |-> b.all]
    BY BufferFields
  <1>2. /\ n \in 0 .. Len(s)
        /\ n = 0 \/ b.bytes_written + n <= b.capacity
        /\ \A i \in 1 .. Len(s) : b.bytes_written + i <= b.capacity => i <= n
    BY <1>1
  <1>3. count = IF Len(s) <= room THEN Len(s) ELSE room
    <2>1. Len(s) \in Int /\ room \in Int
      BY <1>1
    <2> QED
      BY <2>1, MinOfTwo, Zenon
  <1> DEFINE c == [buffer |-> Stored(b.buffer, b.bytes_written, SubSeq(s, 1, n)),
                   capacity |-> b.capacity, bytes_written |-> b.bytes_written + Len(s),
                   all |-> b.all \o s]
             stored == IF b.bytes_written < b.capacity
                       THEN Stored(b.buffer, b.bytes_written, SubSeq(s, 1, count))
                       ELSE b.buffer
  <1>4. stored = Stored(b.buffer, b.bytes_written, SubSeq(s, 1, n))
    <2> HIDE DEF count
    <2>1. CASE b.bytes_written < b.capacity
      <3>1. count = n
        BY <1>1, <1>3, <2>1
      <3> HIDE DEF n
      <3> QED
        BY <2>1, <3>1
    <2>2. CASE ~(b.bytes_written < b.capacity)
      <3>1. n = 0
        BY <1>1, <2>2
      <3>2. SubSeq(s, 1, 0) = <<>>
        OBVIOUS
      <3> HIDE DEF n
      <3> QED
        BY <2>2, <3>1, <3>2, NothingStored
    <2> QED
      BY <2>1, <2>2
  <1>5. write_many(b, s) = c
    <2>1. write_many(b, s) = [buffer |-> stored, capacity |-> b.capacity,
                              bytes_written |-> b.bytes_written + Len(s), all |-> b.all \o s]
      <3>1. write_many(b, s) =
              [b EXCEPT !.buffer = stored, !.bytes_written = @ + Len(s), !.all = @ \o s]
        BY Zenon DEF write_many
      <3> HIDE DEF stored
      <3> QED
        BY <3>1, Assigned, Zenon
    <2> HIDE DEF stored, n
    <2> QED
      BY <1>4, <2>1
  <1>6. Extends(c, b)
    <2> HIDE DEF n
    <2> QED
      BY <1>2, WriteFacts
  <1> QED
    BY <1>5, <1>6, Zenon

LEMMA ExtendsTwice ==
    ASSUME NEW b, NEW c, NEW d, Extends(c, b), Extends(d, c)
    PROVE  Extends(d, b)
  BY Zenon DEF Extends

LEMMA WriteOneExtends ==
    ASSUME NEW b, IsBuffer(b), NEW c \in Char
    PROVE  Extends(write_one(b, c), b)
  <1>1. <<c>> \in Seq(Char)
    OBVIOUS
  <1> QED
    BY <1>1, WriteEachExtends, Zenon DEF write_one

LEMMA RepeatIsText ==
    ASSUME NEW c \in Char, NEW n \in Int
    PROVE  Repeat(c, n) \in Seq(Char)
  <1>1. Max({n, 0}) \in Nat
    BY MaxOfTwo
  <1>2. \A m \in Nat : [i \in 1 .. m |-> c] \in Seq(Char)
    OBVIOUS
  <1> QED
    BY <1>1, <1>2, Zenon DEF Repeat

\* The terminator goes into the buffer, behind what the caller uses.
LEMMA TerminatedFacts ==
    ASSUME NEW b, IsBuffer(b)
    PROVE  /\ IsBuffer(Terminated(b)) /\ Terminated(b).capacity = b.capacity
           /\ Terminated(b).all = b.all /\ Terminated(b).bytes_written = b.bytes_written
           /\ \A i \in 0 .. b.capacity - 1 :
                 Terminated(b).buffer[i] =
                    IF i = (IF b.bytes_written < b.capacity THEN b.bytes_written
                            ELSE b.capacity - 1)
                    THEN NUL ELSE b.buffer[i]
  <1> DEFINE last == IF b.bytes_written < b.capacity THEN b.bytes_written ELSE b.capacity - 1
             x == Stored(b.buffer, last, <<NUL>>)
  <1>1. /\ b.capacity \in Nat /\ b.bytes_written \in Nat
        /\ b.buffer \in [0 .. b.capacity - 1 -> Char]
    BY BufferFields
  <1>2. CASE b.capacity = 0
    <2>1. Terminated(b) = b
      BY <1>2 DEF Terminated
    <2>2. 0 .. b.capacity - 1 = {}
      BY <1>2
    <2> QED
      BY <2>1, <2>2, Zenon
  <1>3. CASE b.capacity # 0
    <2>1. Min({b.bytes_written, b.capacity - 1}) = last
      <3>1. b.bytes_written \in Int /\ b.capacity - 1 \in Int
        BY <1>1
      <3>2. b.bytes_written <= b.capacity - 1 <=> b.bytes_written < b.capacity
        BY <1>1
      <3>3. Min({b.bytes_written, b.capacity - 1}) =
              IF b.bytes_written <= b.capacity - 1 THEN b.bytes_written ELSE b.capacity - 1
        BY <3>1, MinOfTwo, Zenon
      <3> QED
        BY <3>2, <3>3
    <2>2. Terminated(b) = [b EXCEPT !.buffer = x]
      <3> HIDE DEF last
      <3> QED
        BY <1>3, <2>1, Zenon DEF Terminated
    <2>3. last \in Nat /\ last + 1 <= b.capacity
      BY <1>1, <1>3
    <2> HIDE DEF last
    <2> DEFINE nul == <<NUL>>
    <2>4. nul \in Seq(Char) /\ Len(nul) = 1 /\ nul[1] = NUL
      <3>1. NUL \in Char
        BY DEF Char
      <3> QED
        BY <3>1
    <2> HIDE DEF nul
    <2>5. /\ x \in [0 .. b.capacity - 1 -> Char]
          /\ \A i \in 0 .. b.capacity - 1 :
                x[i] = IF i >= last /\ i < last + Len(nul)
                       THEN nul[i - last + 1] ELSE b.buffer[i]
      <3>1. last + Len(nul) <= b.capacity
        BY <2>3, <2>4
      <3>2. x = Stored(b.buffer, last, nul)
        BY Zenon DEF nul
      <3>3. /\ Stored(b.buffer, last, nul) \in [0 .. b.capacity - 1 -> Char]
            /\ \A i \in 0 .. b.capacity - 1 :
                  Stored(b.buffer, last, nul)[i] =
                      IF i >= last /\ i < last + Len(nul)
                      THEN nul[i - last + 1] ELSE b.buffer[i]
        BY <1>1, <2>3, <2>4, <3>1, StoredFacts, ZenonT(40)
      <3> HIDE DEF x
      <3> QED
        BY <3>2, <3>3, Zenon
    <2>6. \A i \in 0 .. b.capacity - 1 : x[i] = IF i = last THEN NUL ELSE b.buffer[i]
      <3> TAKE i \in 0 .. b.capacity - 1
      <3> HIDE DEF x
      <3>1. (i >= last /\ i < last + Len(nul)) <=> i = last
        BY <1>1, <2>3, <2>4
      <3>2. i = last => i - last + 1 = 1
        BY <2>3
      <3> QED
        BY <2>4, <2>5, <3>1, <3>2
    <2> HIDE DEF x
    <2>7. x \in [0 .. b.capacity - 1 -> Char]
      BY <2>5
    <2>8. /\ IsBuffer([b EXCEPT !.buffer = x])
          /\ [b EXCEPT !.buffer = x].capacity = b.capacity
          /\ [b EXCEPT !.buffer = x].bytes_written = b.bytes_written
          /\ [b EXCEPT !.buffer = x].all = b.all
          /\ [b EXCEPT !.buffer = x].buffer = x
      BY <2>7, <1>1, OneAssigned, Zenon
    <2> QED
      BY <2>2, <2>6, <2>8, Zenon DEF last
  <1> QED
    BY <1>2, <1>3

-----------------------------------------------------------------------------
(***************************************************************************)
(* The texts that are written, and the numbers that are read.              *)
(***************************************************************************)
LEMMA HexChars ==
    \A i \in 1 .. 16 : LowerHex[i] \in Char /\ UpperHex[i] \in Char
  BY Zenon DEF Char

LEMMA Quotient ==
    ASSUME NEW base \in {8, 10, 16}, NEW n \in Nat
    PROVE  /\ n # 0 => n \div base \in 0 .. n - 1
           /\ (n % base) + 1 \in 1 .. 16
  <1>1. CASE base = 8
    BY <1>1
  <1>2. CASE base = 10
    BY <1>2
  <1>3. CASE base = 16
    BY <1>3
  <1> QED
    BY <1>1, <1>2, <1>3

\* The digits are defined for every value, and are characters.
LEMMA ReprIsText ==
    ASSUME NEW value \in Nat, NEW base \in {8, 10, 16}, NEW uppercase \in BOOLEAN
    PROVE  Repr(value, base, uppercase) \in Seq(Char)
  <1> DEFINE H(n) == (IF uppercase THEN UpperHex ELSE LowerHex)[(n % base) + 1]
             G(f, v) == [n \in 0 .. v |-> IF n = 0 THEN <<>> ELSE Append(f[n \div base], H(n))]
             d == CHOOSE f : f = G(f, value)
  <1>1. Repr(value, base, uppercase) = IF value = 0 THEN <<"0">> ELSE d[value]
    BY Zenon DEF Repr
  <1>2. \A n \in Nat : H(n) \in Char
    <2> TAKE n \in Nat
    <2>1. (n % base) + 1 \in 1 .. 16
      BY Quotient
    <2> QED
      BY <2>1, HexChars, Zenon
  <1>3. \A n \in Nat : n # 0 => n \div base \in 0 .. n - 1
    BY Quotient
  <1> HIDE DEF H
  <1>4. \A v \in Nat : \E f : f = G(f, v)
    <2> DEFINE T == {v \in Nat : ~ \E f : f = G(f, v)}
    <2> SUFFICES ASSUME T # {} PROVE FALSE
      OBVIOUS
    <2>1. PICK k \in T : \A y \in T : k <= y
      BY LeastNumber
    <2>2. CASE k = 0
      <3> DEFINE f == [n \in 0 .. 0 |-> <<>>]
      <3>1. f = G(f, 0)
        OBVIOUS
      <3> QED
        BY <2>1, <2>2, <3>1
    <2>3. CASE k # 0
      <3>1. k \in Nat /\ k - 1 \in Nat /\ ~(k <= k - 1)
        BY <2>1, <2>3
      <3>2. PICK g : g = G(g, k - 1)
        BY <2>1, <3>1
      <3> DEFINE f == [n \in 0 .. k |-> IF n = k THEN Append(g[k \div base], H(k)) ELSE g[n]]
      <3>3. ASSUME NEW n \in 0 .. k
            PROVE  f[n] = IF n = 0 THEN <<>> ELSE Append(f[n \div base], H(n))
        <4>1. CASE n = 0
          <5>1. 0 \in 0 .. k - 1 /\ 0 # k
            BY <2>3, <3>1
          <5> QED
            BY <3>2, <4>1, <5>1
        <4>2. CASE n # 0
          <5>1. n \in Nat /\ n \div base \in 0 .. n - 1
            BY <1>3, <3>1, <4>2
          <5>2. n \div base \in 0 .. k /\ n \div base # k
            BY <3>1, <5>1
          <5>3. f[n \div base] = g[n \div base]
            BY <5>2
          <5>4. n # k => n \in 0 .. k - 1
            BY <3>1, <5>1
          <5>5. n # k => g[n] = Append(g[n \div base], H(n))
            BY <3>2, <4>2, <5>4
          <5>6. f[n] = IF n = k THEN Append(g[k \div base], H(k)) ELSE g[n]
            OBVIOUS
          <5> HIDE DEF f
          <5> QED
            BY <4>2, <5>3, <5>5, <5>6
        <4> QED
          BY <4>1, <4>2
      <3>4. f = G(f, k)
        <4>1. \A n \in 0 .. k : f[n] = G(f, k)[n]
          BY <3>3
        <4> QED
          BY <4>1
      <3> HIDE DEF f, G
      <3> QED
        BY <2>1, <3>4
    <2> QED
      BY <2>2, <2>3
  <1>5. d = G(d, value)
    BY <1>4, Zenon
  <1> HIDE DEF d
  <1>6. d[0] = <<>> /\ \A n \in 1 .. value : d[n] = Append(d[n \div base], H(n))
    BY <1>5, SMTT(30)
  <1>7. \A n \in 0 .. value : d[n] \in Seq(Char)
    <2> DEFINE T == {n \in 0 .. value : d[n] \notin Seq(Char)}
    <2> SUFFICES ASSUME T # {} PROVE FALSE
      OBVIOUS
    <2>0. T \in SUBSET Nat
      OBVIOUS
    <2>1. PICK k \in T : \A y \in T : k <= y
      BY <2>0, LeastNumber, Zenon
    <2>2. k \in 0 .. value /\ d[k] \notin Seq(Char)
      BY <2>1
    <2>3. k # 0
      <3>1. <<>> \in Seq(Char)
        OBVIOUS
      <3> QED
        BY <1>6, <2>2, <3>1, Zenon
    <2>4. k \div base \in 0 .. k - 1
      BY <1>3, <2>2, <2>3
    <2>5. k \div base \in 0 .. value /\ ~(k <= k \div base)
      BY <2>2, <2>4
    <2>6. d[k \div base] \in Seq(Char)
      BY <2>1, <2>5
    <2>7. k \in 1 .. value
      BY <2>2, <2>3
    <2>8. d[k] = Append(d[k \div base], H(k)) /\ H(k) \in Char
      BY <1>2, <1>6, <2>7
    <2>9. \A q \in Seq(Char), c \in Char : Append(q, c) \in Seq(Char)
      OBVIOUS
    <2> QED
      BY <2>2, <2>6, <2>8, <2>9, Zenon
  <1>8. <<"0">> \in Seq(Char)
    <2>1. LowerHex[1] = "0"
      BY DEF LowerHex
    <2>2. "0" \in Char
      BY <2>1, HexChars
    <2> QED
      BY <2>2
  <1> HIDE DEF G
  <1> QED
    BY <1>1, <1>7, <1>8

LEMMA DigitValues ==
    \A c \in DecimalDigits : DigitValue(c) \in 0 .. 15
  <1> TAKE c \in DecimalDigits
  <1>1. DOMAIN LowerHex = 1 .. 16
    BY DEF LowerHex
  <1>2. PICK i \in 1 .. 10 : LowerHex[i] = c
    BY DEF DecimalDigits
  <1>3. i \in 1 .. 16
    OBVIOUS
  <1> DEFINE v == CHOOSE j \in DOMAIN LowerHex : LowerHex[j] = c
  <1>4. v \in 1 .. 16
    BY <1>1, <1>2, <1>3, Zenon
  <1>5. DigitValue(c) = v - 1
    BY Zenon DEF DigitValue
  <1> HIDE DEF v
  <1> QED
    BY <1>4, <1>5

LEMMA NumberIsNat ==
    ASSUME NEW s \in Seq(DecimalDigits)
    PROVE  NumberOf(s) \in Nat
  <1> DEFINE G(f) == [i \in 0 .. Len(s) |->
                        IF i = 0 THEN 0 ELSE 10 * f[i - 1] + DigitValue(s[i])]
             d == CHOOSE f : f = G(f)
  <1>1. NumberOf(s) = d[Len(s)]
    BY Zenon DEF NumberOf
  <1> DEFINE P(v) == \E f \in [0 .. v -> Nat] :
                        /\ f[0] = 0
                        /\ \A i \in 1 .. v : f[i] = 10 * f[i - 1] + DigitValue(s[i])
  <1>2. \A i \in 1 .. Len(s) : DigitValue(s[i]) \in Nat
    <2> TAKE i \in 1 .. Len(s)
    <2>1. s[i] \in DecimalDigits
      OBVIOUS
    <2>2. DigitValue(s[i]) \in 0 .. 15
      BY <2>1, DigitValues, Zenon
    <2> QED
      BY <2>2, SMTT(30)
  <1>3. ASSUME NEW v \in Nat, v <= Len(s) PROVE P(v)
    <2> DEFINE T == {k \in Nat : k <= Len(s) /\ ~P(k)}
    <2> SUFFICES ASSUME T # {} PROVE FALSE
      BY <1>3
    <2>0. T \in SUBSET Nat
      OBVIOUS
    <2>1. PICK k \in T : \A y \in T : k <= y
      BY <2>0, LeastNumber, Zenon
    <2>2. CASE k = 0
      <3> DEFINE f == [n \in 0 .. 0 |-> 0]
      <3>1. f \in [0 .. 0 -> Nat] /\ f[0] = 0 /\ 1 .. 0 = {}
        OBVIOUS
      <3>2. P(0)
        BY <3>1
      <3> HIDE DEF P
      <3> QED
        BY <2>1, <2>2, <3>2
    <2>3. CASE k # 0
      <3> HIDE DEF P
      <3>1. k \in Nat /\ k <= Len(s) /\ k - 1 \in Nat /\ ~(k <= k - 1) /\ ~P(k)
        BY <2>1, <2>3
      <3>2. P(k - 1)
        <4>1. k - 1 <= Len(s)
          BY <3>1
        <4> QED
          BY <2>1, <3>1, <4>1
      <3>3. PICK g \in [0 .. k - 1 -> Nat] :
               /\ g[0] = 0
               /\ \A i \in 1 .. k - 1 : g[i] = 10 * g[i - 1] + DigitValue(s[i])
        BY <3>2 DEF P
      <3> DEFINE e == 10 * g[k - 1] + DigitValue(s[k])
                 f == [n \in 0 .. k |-> IF n = k THEN e ELSE g[n]]
      <3>4. e \in Nat
        <4>1. g[k - 1] \in Nat
          BY <3>1, <3>3
        <4>2. DigitValue(s[k]) \in Nat
          BY <1>2, <2>3, <3>1
        <4> QED
          BY <4>1, <4>2
      <3> HIDE DEF e
      <3>5. f \in [0 .. k -> Nat] /\ f[0] = 0
        BY <2>3, <3>1, <3>3, <3>4
      <3>6. ASSUME NEW i \in 1 .. k
            PROVE  f[i] = 10 * f[i - 1] + DigitValue(s[i])
        <4>1. i - 1 \in 0 .. k /\ i - 1 # k /\ f[i - 1] = g[i - 1]
          BY <3>1
        <4>2. CASE i = k
          <5>1. f[k] = e
            BY <3>1
          <5> HIDE DEF f
          <5> QED
            BY <4>1, <4>2, <5>1 DEF e
        <4>3. CASE i # k
          <5>1. i \in 1 .. k - 1 /\ f[i] = g[i]
            BY <3>1, <4>3
          <5> HIDE DEF f
          <5> QED
            BY <3>3, <4>1, <5>1
        <4> QED
          BY <4>2, <4>3
      <3> HIDE DEF f
      <3>7. P(k)
        BY <3>5, <3>6 DEF P
      <3> QED
        BY <3>1, <3>7
    <2> QED
      BY <2>2, <2>3
  <1>4. Len(s) \in Nat /\ P(Len(s))
    <2>1. Len(s) \in Nat /\ Len(s) <= Len(s)
      OBVIOUS
    <2> HIDE DEF P
    <2> QED
      BY <1>3, <2>1, Zenon
  <1>5. PICK g \in [0 .. Len(s) -> Nat] :
           /\ g[0] = 0
           /\ \A i \in 1 .. Len(s) : g[i] = 10 * g[i - 1] + DigitValue(s[i])
    BY <1>4
  <1>6. g = G(g)
    <2>1. \A i \in 0 .. Len(s) : g[i] = IF i = 0 THEN 0 ELSE 10 * g[i - 1] + DigitValue(s[i])
      <3> TAKE i \in 0 .. Len(s)
      <3>1. i # 0 => i \in 1 .. Len(s)
        BY <1>4
      <3> QED
        BY <1>5, <3>1
    <2> QED
      BY <2>1
  <1>7. d = G(d)
    BY <1>6, Zenon
  <1> HIDE DEF d
  <1>8. d[0] = 0 /\ \A i \in 1 .. Len(s) : d[i] = 10 * d[i - 1] + DigitValue(s[i])
    BY <1>4, <1>7
  <1>9. ASSUME NEW n \in 0 .. Len(s) PROVE d[n] \in Nat
    <2> DEFINE T == {k \in 0 .. Len(s) : d[k] \notin Nat}
    <2> SUFFICES ASSUME T # {} PROVE FALSE
      BY <1>9
    <2>0. T \in SUBSET Nat
      BY <1>4
    <2>1. PICK k \in T : \A y \in T : k <= y
      BY <2>0, LeastNumber, Zenon
    <2>2. k \in 0 .. Len(s) /\ d[k] \notin Nat
      BY <2>1
    <2>3. k # 0
      BY <1>8, <2>2
    <2>4. k \in 1 .. Len(s) /\ k - 1 \in 0 .. Len(s) /\ ~(k <= k - 1)
      BY <1>4, <2>2, <2>3
    <2>5. d[k - 1] \in Nat
      BY <2>1, <2>4
    <2>6. d[k] = 10 * d[k - 1] + DigitValue(s[k]) /\ DigitValue(s[k]) \in Nat
      BY <1>2, <1>8, <2>4
    <2> QED
      BY <2>2, <2>5, <2>6, SMTT(30)
  <1> QED
    BY <1>1, <1>4, <1>9

\* parse_number reads a number, from digits that are at the start.
LEMMA DigitsFacts ==
    ASSUME NEW s \in Seq(Char)
    PROVE  /\ NumberOf(Digits(s)) \in Nat
           /\ Len(Digits(s)) \in 0 .. Len(s)
  <1> DEFINE T == Char \ DecimalDigits
             Q(n) == /\ \A i \in 1 .. n : s[i] \in DecimalDigits
                     /\ n = Len(s) \/ s[n + 1] \notin DecimalDigits
             k == CHOOSE n \in 0 .. Len(s) : Q(n)
  <1>1. PICK n \in 0 .. Len(s) : /\ \A i \in 1 .. n : s[i] \notin T
                                 /\ n = Len(s) \/ s[n + 1] \in T
    BY StopExists
  <1>2. Q(n)
    <2>1. \A i \in 1 .. n : s[i] \in Char
      OBVIOUS
    <2> QED
      BY <1>1, <2>1
  <1>3. k \in 0 .. Len(s) /\ Q(k)
    BY <1>2, Zenon
  <1>4. Digits(s) = SubSeq(s, 1, k)
    BY Zenon DEF Digits, Span
  <1> HIDE DEF k
  <1>5. \A i \in 1 .. k : s[i] \in DecimalDigits
    BY <1>3
  <1> HIDE DEF Q, T
  <1>6. SubSeq(s, 1, k) \in Seq(DecimalDigits) /\ Len(SubSeq(s, 1, k)) = k
    BY <1>3, <1>5
  <1> QED
    BY <1>3, <1>4, <1>6, NumberIsNat

\* The literals that are written.
LEMMA Literals ==
    /\ " " \in Char /\ "0" \in Char /\ "-" \in Char /\ "%" \in Char
    /\ "x" \in Char /\ "X" \in Char /\ "<" \in Char /\ ">" \in Char /\ NUL \in Char
    /\ "old" \in Char
  <1>1. LowerHex[1] = "0"
    BY DEF LowerHex
  <1>2. "0" \in Char
    BY <1>1, HexChars
  <1> QED
    BY <1>2, Zenon DEF Char

Specs == [prepend_char : Char \cup {""}, left_justify : BOOLEAN, pad_char : Char,
          alternate_form : BOOLEAN, has_precision : BOOLEAN, min_width : Nat,
          precision : Nat]

LEMMA SpecFields ==
    ASSUME NEW spec \in Specs
    PROVE  /\ spec.prepend_char # "" => spec.prepend_char \in Char
           /\ spec.pad_char \in Char /\ spec.min_width \in Nat /\ spec.precision \in Nat
  BY DEF Specs

LEMMA PaddingExtends ==
    ASSUME NEW b, IsBuffer(b), NEW spec \in Specs, NEW size \in Nat
    PROVE  Extends(write_padding(b, spec, size), b)
  <1> DEFINE c == IF spec.left_justify THEN " " ELSE spec.pad_char
             n == spec.min_width - size
  <1>1. c \in Char /\ n \in Int
    <2>1. spec.pad_char \in Char /\ spec.min_width \in Nat /\ " " \in Char
      BY SpecFields, Literals, Zenon
    <2>2. c \in Char
      BY <2>1, Zenon
    <2>3. \A m, k \in Nat : m - k \in Int
      OBVIOUS
    <2>4. n \in Int
      BY <2>1, <2>3, Zenon
    <2> QED
      BY <2>2, <2>4
  <1>2. write_padding(b, spec, size) = write_each(b, Repeat(c, n))
    BY Zenon DEF write_padding
  <1> HIDE DEF c, n
  <1>3. Repeat(c, n) \in Seq(Char)
    BY <1>1, RepeatIsText, Zenon
  <1> QED
    BY <1>2, <1>3, WriteEachExtends, Zenon

LEMMA Signed ==
    ASSUME NEW n \in Int, NEW w \in Nat \ {0}
    PROVE  AsSigned(n, w) \in Int /\ n % w \in Nat
  <1>1. n % w \in 0 .. w - 1
    OBVIOUS
  <1> QED
    BY <1>1 DEF AsSigned

LEMMA IntegerExtends ==
    ASSUME NEW b, IsBuffer(b), NEW spec \in Specs, NEW value \in Nat,
           NEW is_signed \in BOOLEAN, NEW base \in {8, 10, 16}, NEW uppercase \in BOOLEAN
    PROVE  Extends(write_integer(b, spec, value, is_signed, base, uppercase), b)
  <1> DEFINE negative == is_signed /\ AsSigned(value, Modulus) < 0
             magnitude == IF negative THEN -AsSigned(value, Modulus) ELSE value
             prefix == IF spec.alternate_form THEN AlternatePrefix(base, uppercase) ELSE <<>>
             repr == prefix \o Repr(magnitude, base, uppercase)
             signed == IF negative THEN write_one(b, "-")
                       ELSE IF spec.prepend_char # "" THEN write_one(b, spec.prepend_char)
                       ELSE b
  <1>1. write_integer(b, spec, value, is_signed, base, uppercase)
        = IF spec.left_justify
          THEN write_padding(write_many(signed, repr), spec, Len(repr))
          ELSE write_many(write_padding(signed, spec, Len(repr)), repr)
    BY Zenon DEF write_integer
  <1>2. magnitude \in Nat
    <2>1. AsSigned(value, Modulus) \in Int
      BY Signed, FormatAssumption
    <2> QED
      BY <2>1
  <1>3. prefix \in Seq(Char)
    <2>1. AlternatePrefix(base, uppercase) \in Seq(Char)
      <3>1. CASE base = 16
        <4> DEFINE x == IF uppercase THEN "X" ELSE "x"
        <4>1. x \in Char /\ "0" \in Char
          BY Literals
        <4>2. AlternatePrefix(base, uppercase) = <<"0", x>>
          BY <3>1 DEF AlternatePrefix
        <4> HIDE DEF x
        <4> QED
          BY <4>1, <4>2
      <3>2. CASE base = 8
        <4>1. AlternatePrefix(base, uppercase) = <<"0">>
          BY <3>2 DEF AlternatePrefix
        <4>2. "0" \in Char
          BY Literals
        <4> QED
          BY <4>1, <4>2
      <3>3. CASE base = 10
        <4>1. AlternatePrefix(base, uppercase) = <<>>
          BY <3>3 DEF AlternatePrefix
        <4> QED
          BY <4>1
      <3> QED
        BY <3>1, <3>2, <3>3
    <2>2. <<>> \in Seq(Char)
      OBVIOUS
    <2> QED
      BY <2>1, <2>2
  <1>4. Repr(magnitude, base, uppercase) \in Seq(Char)
    <2> HIDE DEF magnitude
    <2> QED
      BY <1>2, ReprIsText, Zenon
  <1>5. repr \in Seq(Char) /\ Len(repr) \in Nat
    <2> HIDE DEF prefix, magnitude
    <2> QED
      BY <1>3, <1>4
  <1>6. Extends(signed, b) /\ IsBuffer(signed)
    <2>1. Extends(b, b)
      BY Zenon DEF Extends
    <2>2. "-" \in Char
      BY Literals
    <2>3. spec.prepend_char # "" => spec.prepend_char \in Char
      BY SpecFields, Zenon
    <2>4. Extends(signed, b)
      <3> HIDE DEF negative
      <3>1. CASE negative
        BY <3>1, <2>2, WriteOneExtends, Zenon
      <3>2. CASE ~negative /\ spec.prepend_char # ""
        BY <3>2, <2>3, WriteOneExtends, Zenon
      <3>3. CASE ~negative /\ ~(spec.prepend_char # "")
        BY <3>3, <2>1, Zenon
      <3> QED
        BY <3>1, <3>2, <3>3, Zenon
    <2> HIDE DEF signed
    <2> QED
      BY <2>4, Zenon DEF Extends
  <1> HIDE DEF signed, repr
  <1>7. CASE spec.left_justify
    <2> DEFINE c == write_many(signed, repr)
               d == write_padding(c, spec, Len(repr))
    <2>1. Extends(c, signed)
      BY <1>5, <1>6, WriteManyExtends, Zenon
    <2> HIDE DEF c
    <2>2. IsBuffer(c)
      BY <2>1, Zenon DEF Extends
    <2>3. Extends(d, c)
      BY <1>5, <2>2, PaddingExtends, Zenon
    <2>4. write_integer(b, spec, value, is_signed, base, uppercase) = d
      BY <1>1, <1>7, Zenon DEF c
    <2> HIDE DEF d
    <2> QED
      BY <1>6, <2>1, <2>3, <2>4, ExtendsTwice, Zenon
  <1>8. CASE ~spec.left_justify
    <2> DEFINE c == write_padding(signed, spec, Len(repr))
               d == write_many(c, repr)
    <2>1. Extends(c, signed)
      BY <1>5, <1>6, PaddingExtends, Zenon
    <2> HIDE DEF c
    <2>2. IsBuffer(c)
      BY <2>1, Zenon DEF Extends
    <2>3. Extends(d, c)
      BY <1>5, <2>2, WriteManyExtends, Zenon
    <2>4. write_integer(b, spec, value, is_signed, base, uppercase) = d
      BY <1>1, <1>8, Zenon DEF c
    <2> HIDE DEF d
    <2> QED
      BY <1>6, <2>1, <2>3, <2>4, ExtendsTwice, Zenon
  <1> QED
    BY <1>7, <1>8

\* The length of a conversion is one of those that are known.
LEMMA LengthFacts ==
    ASSUME NEW s \in Seq(Char)
    PROVE  /\ LengthOf(s) \in DOMAIN Size
           /\ Len(LengthOf(s)) \in 0 .. Len(s)
  <1> DEFINE L == {l \in DOMAIN Size : IsPrefix(l, s)}
             T == {n \in Nat : \E l \in L : n = Len(s) - Len(l)}
             Q(l) == /\ IsPrefix(l, s)
                     /\ \A m \in DOMAIN Size : IsPrefix(m, s) => Len(m) <= Len(l)
  <1>1. \A l \in DOMAIN Size : Len(l) \in Nat
    <2>1. \A l \in DOMAIN Size : l \in Seq(STRING)
      BY ArgumentsAssumption
    <2> QED
      BY <2>1
  <1>2. \A l \in L : Len(l) \in 0 .. Len(s)
    <2>1. \A l \in L : Len(l) <= Len(s)
      BY DEF IsPrefix
    <2> QED
      BY <1>1, <2>1
  <1>3. <<>> \in L
    <2>1. SubSeq(<<>>, 1, 0) = SubSeq(s, 1, 0) /\ Len(<<>>) = 0
      OBVIOUS
    <2>2. Len(<<>>) <= Len(s)
      BY <2>1
    <2> QED
      BY <2>1, <2>2, FormatAssumption DEF IsPrefix
  <1> HIDE DEF L
  <1>4. PICK n \in T : \A y \in T : n <= y
    <2>1. Len(s) - Len(<<>>) \in T
      BY <1>2, <1>3
    <2>2. T \in SUBSET Nat /\ T # {}
      BY <2>1
    <2> QED
      BY <2>2, LeastNumber, Zenon
  <1>5. PICK l \in L : n = Len(s) - Len(l)
    BY <1>4
  <1>6. \A m \in L : Len(m) <= Len(l)
    <2> TAKE m \in L
    <2>1. Len(m) \in 0 .. Len(s) /\ Len(l) \in 0 .. Len(s)
      BY <1>2
    <2>2. Len(s) - Len(m) \in T
      BY <2>1
    <2>3. n <= Len(s) - Len(m)
      BY <1>4, <2>2
    <2> QED
      BY <1>5, <2>1, <2>3
  <1>7. l \in DOMAIN Size /\ Q(l)
    BY <1>6 DEF L
  <1>8. LengthOf(s) = CHOOSE x \in DOMAIN Size : Q(x)
    BY Zenon DEF LengthOf
  <1>9. LengthOf(s) \in DOMAIN Size /\ Q(LengthOf(s))
    BY <1>7, <1>8, Zenon
  <1>10. LengthOf(s) \in L
    BY <1>9 DEF L
  <1> QED
    BY <1>2, <1>9, <1>10

LEMMA OffsetFacts ==
    ASSUME NEW s \in Seq(Char), NEW n \in Nat
    PROVE  /\ OffsetBy(s, n) \in Seq(Char)
           /\ Len(OffsetBy(s, n)) = IF n <= Len(s) THEN Len(s) - n ELSE 0
           /\ Len(OffsetBy(s, n)) <= Len(s)
  BY DEF OffsetBy

LEMMA NonEmpty ==
    ASSUME NEW s \in Seq(Char), s # <<>>
    PROVE  Len(s) \in Nat /\ Len(s) >= 1 /\ s[1] \in Char
  <1>1. Len(s) \in Nat /\ Len(s) # 0
    OBVIOUS
  <1> QED
    BY <1>1

LEMMA FirstFacts ==
    ASSUME NEW s \in Seq(Char), First(s) # ""
    PROVE  Len(s) \in Nat /\ Len(s) >= 1 /\ First(s) = s[1] /\ First(s) \in Char
  <1>1. s # <<>> /\ First(s) = s[1]
    BY Zenon DEF First
  <1> QED
    BY <1>1, NonEmpty, Zenon

-----------------------------------------------------------------------------
(***************************************************************************)
(* The invariant.  Until vsnprintf is done the buffer holds the start of   *)
(* the output, unless a warning was written over it; the terminator then   *)
(* takes the place of a character that the caller does not use, but for    *)
(* the one that param_get_<type> takes for part of its string.             *)
(***************************************************************************)
Got ==
    IF Len(fb.all) < fb.capacity THEN got = fb.all
    ELSE LET start == SubSeq(fb.all, 1, Max({fb.capacity - 1, 0}))
         IN  \/ got = start
             \/ caller = "param_get" /\ got = Append(start, NUL)

FormatInv ==
    /\ caller \in {"vprint", "param_get"} /\ warned \in BOOLEAN
    /\ fmt \in Seq(Char) /\ fm \in Specs
    /\ IsBuffer(fb) /\ Counted(fb)
    /\ pc # "done" /\ ~warned => Kept(fb)
    /\ pc = "done" /\ ret = "EOK" /\ ~warned => Got

LEMMA InvImpliesOutput ==
    FormatInv => CallerGetsOutput
  <1> SUFFICES ASSUME FormatInv PROVE CallerGetsOutput
    OBVIOUS
  <1>1. fb.buffer \in [0 .. fb.capacity - 1 -> Char]
    BY BufferFields DEF FormatInv
  <1>2. DOMAIN fb.buffer = 0 .. fb.capacity - 1
    BY <1>1
  <1> QED
    BY <1>2, Zenon DEF FormatInv, CallerGetsOutput, Got

LEMMA ConstantsAreTexts ==
    /\ \A s \in Messages \cup ParamFormats \cup DOMAIN Size \cup (Texts \ {NULL})
               \cup {Warning} : s \in Seq(Char)
    /\ NoSpec \in Specs /\ NullText \in Seq(Char)
  <1>1. \A s \in Seq(STRING) : s \in Seq(Char)
    <2>1. \A S, T : (S \subseteq T) => \A s \in Seq(S) : s \in Seq(T)
      OBVIOUS
    <2>2. STRING \subseteq Char
      BY Zenon DEF Char
    <2> QED
      BY <2>1, <2>2, Zenon
  <1>2. \A s \in Messages \cup ParamFormats \cup DOMAIN Size \cup (Texts \ {NULL})
                \cup {Warning} : s \in Seq(Char)
    BY <1>1, ArgumentsAssumption, Zenon
  <1>3. NoSpec \in Specs
    <2>1. " " \in Char
      BY Literals
    <2> QED
      BY <2>1 DEF NoSpec, Specs
  <1>4. NullText \in Seq(Char)
    <2>1. "<" \in Char /\ ">" \in Char
      BY Literals
    <2> QED
      BY <2>1 DEF NullText
  <1> QED
    BY <1>2, <1>3, <1>4

LEMMA EmptyBuffer ==
    ASSUME NEW n \in Nat, NEW b,
           b = [buffer |-> [i \in 0 .. n - 1 |-> "old"], capacity |-> n,
                bytes_written |-> 0, all |-> <<>>]
    PROVE  IsBuffer(b) /\ Counted(b) /\ Kept(b)
  <1>1. "old" \in Char
    BY Literals
  <1>2. [i \in 0 .. n - 1 |-> "old"] \in [0 .. n - 1 -> Char]
    BY <1>1
  <1>3. <<>> \in Seq(Char) /\ 0 \in Nat
    OBVIOUS
  <1>4. IsBuffer(b)
    BY <1>2, <1>3, Zenon DEF IsBuffer
  <1>5. b.all = <<>> /\ b.bytes_written = 0 /\ Len(b.all) = 0
    OBVIOUS
  <1>6. Counted(b)
    BY <1>5 DEF Counted
  <1>7. Kept(b)
    BY <1>5 DEF Kept
  <1> QED
    BY <1>4, <1>6, <1>7

LEMMA InitFormat ==
    Init => FormatInv
  <1> SUFFICES ASSUME Init PROVE FormatInv
    OBVIOUS
  <1>1. fmt \in Seq(Char) /\ fm \in Specs
    BY ConstantsAreTexts DEF Init
  <1>2. IsBuffer(fb) /\ Counted(fb) /\ Kept(fb)
    <2>1. CASE fb = [buffer |-> [i \in 0 .. LogSize - 1 |-> "old"],
                     capacity |-> LogSize, bytes_written |-> 0, all |-> <<>>]
      <3>1. LogSize \in Nat
        BY FormatAssumption
      <3> QED
        BY <2>1, <3>1, EmptyBuffer, Zenon
    <2>2. CASE \E size \in ParamSizes :
                  fb = [buffer |-> [i \in 0 .. size - 1 |-> "old"],
                        capacity |-> size, bytes_written |-> 0, all |-> <<>>]
      <3>1. ParamSizes \subseteq Nat
        BY FormatAssumption
      <3> QED
        BY <2>2, <3>1, EmptyBuffer, Zenon
    <2> QED
      BY <2>1, <2>2, Zenon DEF Init
  <1>3. pc # "done" /\ caller \in {"vprint", "param_get"} /\ warned \in BOOLEAN
    BY DEF Init
  <1> QED
    BY <1>1, <1>2, <1>3, Zenon DEF FormatInv

-----------------------------------------------------------------------------
(***************************************************************************)
(* The steps: each keeps the invariant and advances.                       *)
(***************************************************************************)
KeptAndAdvanced == FormatInv' /\ (pc # "pad_name" => Measure' < Measure)

LEMMA Written ==
    ASSUME FormatInv, pc # "done", pc' # "done", Extends(fb', fb), warned' = warned, caller' = caller,
           fmt' \in Seq(Char), fm' \in Specs
    PROVE  FormatInv'
  <1>1. IsBuffer(fb') /\ Counted(fb') /\ (~warned' => Kept(fb'))
    BY Zenon DEF FormatInv, Extends
  <1>2. IsBuffer(fb)' /\ Counted(fb)' /\ (~warned' => Kept(fb)')
    BY <1>1, Zenon DEF IsBuffer, Counted, Kept
  <1> QED
    BY <1>2, Zenon DEF FormatInv

LEMMA ExtendsItself ==
    ASSUME NEW b, IsBuffer(b)
    PROVE  Extends(b, b)
  BY Zenon DEF Extends

LEMMA Ranks ==
    /\ Rank["done"] = 0 /\ Rank["pad_name"] = 0 /\ Rank["text"] = 1 /\ Rank["convert"] = 1
    /\ Rank["precision"] = 2 /\ Rank["flags"] = 3 /\ Rank["level"] = 4
  BY DEF Rank

\* What the measure compares.
GoesOn ==
    /\ Rank[pc] \in 0 .. 4 /\ Rank[pc'] \in 0 .. 4
    /\ \/ Len(fmt') < Len(fmt) /\ Rank[pc'] - Rank[pc] <= 3
       \/ Len(fmt') <= Len(fmt) /\ Rank[pc'] < Rank[pc]

LEMMA Drops ==
    ASSUME fmt \in Seq(Char), fmt' \in Seq(Char), GoesOn
    PROVE  Measure' < Measure
  <1>1. \A m, n \in Nat, i, j \in 0 .. 4 :
           (n < m /\ j - i <= 3) \/ (n <= m /\ j < i) => 4 * n + j < 4 * m + i
    OBVIOUS
  <1>2. Len(fmt) \in Nat /\ Len(fmt') \in Nat
    OBVIOUS
  <1>3. 4 * Len(fmt') + Rank[pc'] < 4 * Len(fmt) + Rank[pc]
    BY <1>1, <1>2, Zenon DEF GoesOn
  <1> QED
    BY <1>3 DEF Measure

LEMMA FailedStep ==
    ASSUME FormatInv, pc \in {"flags", "precision", "convert"},
           \E error \in {"EINVAL", "ERANGE"} : Fail(error),
           UNCHANGED <<caller, fb, fm, got, input, shown, warned>>
    PROVE  KeptAndAdvanced
  <1>1. pc' = "done" /\ ret' # "EOK" /\ fmt' = fmt
    BY DEF Fail
  <1>2. FormatInv'
    <2>1. IsBuffer(fb)' /\ Counted(fb)'
      BY Zenon DEF FormatInv, IsBuffer, Counted
    <2> QED
      BY <1>1, <2>1, Zenon DEF FormatInv
  <1>3. Measure' < Measure
    <2>1. Len(fmt) \in Nat /\ Len(fmt') = Len(fmt)
      BY <1>1 DEF FormatInv
    <2>2. Rank[pc] \in 1 .. 3 /\ Rank[pc'] = 0
      BY <1>1, Ranks
    <2>3. GoesOn
      BY <2>1, <2>2 DEF GoesOn
    <2> QED
      BY <1>1, <2>3, Drops, Zenon DEF FormatInv
  <1> QED
    BY <1>2, <1>3 DEF KeptAndAdvanced

\* A step that writes and consumes, or goes on.
LEMMA GoodStep ==
    ASSUME FormatInv, pc # "done", pc' # "done", Extends(fb', fb), warned' = warned, caller' = caller,
           fm' \in Specs, fmt' \in Seq(Char), GoesOn
    PROVE  KeptAndAdvanced
  <1>1. FormatInv'
    BY Written, Zenon
  <1>3. Measure' < Measure
    BY Drops, Zenon DEF FormatInv
  <1> QED
    BY <1>1, <1>3 DEF KeptAndAdvanced

LEMMA ExtractLevelStep ==
    ASSUME FormatInv, ExtractLevel
    PROVE  KeptAndAdvanced
  <1>1. pc = "level" /\ pc' = "text" /\ fb' = fb /\ fm' = fm /\ warned' = warned /\ caller' = caller
    BY DEF ExtractLevel
  <1>2. fmt \in Seq(Char) /\ fm' \in Specs /\ Extends(fb', fb)
    BY <1>1, ExtendsItself, Zenon DEF FormatInv
  <1>3. fmt' \in Seq(Char) /\ Len(fmt') <= Len(fmt)
    <2>1. CASE fmt' = fmt
      <3>1. \A s \in Seq(Char) : Len(s) <= Len(s)
        OBVIOUS
      <3> QED
        BY <1>2, <2>1, <3>1, Zenon
    <2>2. CASE fmt' = OffsetBy(fmt, 2)
      <3>1. \A s \in Seq(Char) : OffsetBy(s, 2) \in Seq(Char) /\ Len(OffsetBy(s, 2)) <= Len(s)
        <4>1. 2 \in Nat
          OBVIOUS
        <4> QED
          BY <4>1, OffsetFacts, Zenon
      <3> QED
        BY <1>2, <2>2, <3>1, Zenon
    <2> QED
      BY <2>1, <2>2, Zenon DEF ExtractLevel
  <1>4. GoesOn
    <2>1. Rank[pc] = 4 /\ Rank[pc'] = 1
      BY <1>1, Ranks, Zenon
    <2> QED
      BY <1>3, <2>1 DEF GoesOn
  <1>5. pc # "done" /\ pc' # "done"
    BY <1>1
  <1> QED
    BY <1>1, <1>2, <1>3, <1>4, <1>5, GoodStep, Zenon

TextEnd ==
    CHOOSE k \in 0 .. Len(fmt) : /\ \A i \in 1 .. k : fmt[i] # "%"
                                 /\ k = Len(fmt) \/ fmt[k + 1] = "%"

LEMMA TextEndFacts ==
    ASSUME fmt \in Seq(Char)
    PROVE  TextEnd \in 0 .. Len(fmt)
  <1>1. \E k \in 0 .. Len(fmt) : /\ \A i \in 1 .. k : fmt[i] \notin {"%"}
                                 /\ k = Len(fmt) \/ fmt[k + 1] \in {"%"}
    BY StopExists
  <1>2. \E k \in 0 .. Len(fmt) : /\ \A i \in 1 .. k : fmt[i] # "%"
                                 /\ k = Len(fmt) \/ fmt[k + 1] = "%"
    BY <1>1, Zenon
  <1> QED
    BY <1>2, Zenon DEF TextEnd

LEMMA WriteTextStep ==
    ASSUME FormatInv, WriteText
    PROVE  KeptAndAdvanced
  <1> DEFINE n == TextEnd
             text == write_many(fb, SubSeq(fmt, 1, n))
             rest == OffsetBy(fmt, n)
  <1>1. /\ pc = "text" /\ fmt # <<>> /\ warned' = warned /\ caller' = caller
        /\ \/ rest = <<>> /\ fb' = text /\ fmt' = rest /\ fm' = fm /\ pc' = pc
           \/ /\ IsPrefix(<<"%", "%">>, rest)
              /\ fb' = write_one(text, "%") /\ fmt' = OffsetBy(rest, 2)
              /\ fm' = fm /\ pc' = pc
           \/ /\ rest # <<>> /\ fb' = text /\ fmt' = OffsetBy(rest, 1)
              /\ fm' = NoSpec /\ pc' = "flags"
    BY Zenon DEF WriteText, TextEnd
  <1>2. fmt \in Seq(Char) /\ fm \in Specs /\ IsBuffer(fb)
    BY Zenon DEF FormatInv
  <1>3. n \in 0 .. Len(fmt)
    BY <1>2, TextEndFacts, Zenon
  <1> HIDE DEF n
  <1>4. Len(fmt) \in Nat /\ Len(fmt) >= 1 /\ n \in Nat
    <2>1. Len(fmt) \in Nat /\ Len(fmt) >= 1
      BY <1>1, <1>2, NonEmpty, Zenon
    <2> QED
      BY <1>3, <2>1
  <1>5. rest \in Seq(Char) /\ Len(rest) = Len(fmt) - n
    <2>1. n <= Len(fmt)
      BY <1>3
    <2>2. /\ OffsetBy(fmt, n) \in Seq(Char)
          /\ Len(OffsetBy(fmt, n)) = IF n <= Len(fmt) THEN Len(fmt) - n ELSE 0
      BY <1>2, <1>4, OffsetFacts, Zenon
    <2> QED
      BY <2>1, <2>2, Zenon
  <1>6. Extends(text, fb) /\ IsBuffer(text)
    <2>1. SubSeq(fmt, 1, n) \in Seq(Char)
      BY <1>2, <1>3
    <2>2. Extends(text, fb)
      BY <1>2, <2>1, WriteManyExtends, Zenon
    <2> HIDE DEF text
    <2> QED
      BY <2>2, Zenon DEF Extends
  <1> HIDE DEF text, rest
  <1>7. CASE rest = <<>> /\ fb' = text /\ fmt' = rest /\ fm' = fm /\ pc' = pc
    <2>1. Len(fmt') = 0 /\ fmt' \in Seq(Char)
      BY <1>5, <1>7
    <2>2. Len(fmt') < Len(fmt)
      BY <1>4, <2>1
    <2>3. Rank[pc] = 1 /\ Rank[pc'] = 1 /\ pc # "done" /\ pc' # "done"
      BY <1>1, <1>7, Ranks
    <2>4. Extends(fb', fb) /\ fm' \in Specs
      BY <1>2, <1>6, <1>7, Zenon
    <2>5. GoesOn
      BY <2>2, <2>3 DEF GoesOn
    <2> QED
      BY <1>1, <2>1, <2>3, <2>4, <2>5, GoodStep, Zenon
  <1>8. CASE /\ IsPrefix(<<"%", "%">>, rest)
             /\ fb' = write_one(text, "%") /\ fmt' = OffsetBy(rest, 2)
             /\ fm' = fm /\ pc' = pc
    <2>1. Len(rest) >= 2
      BY <1>5, <1>8 DEF IsPrefix
    <2>2. Len(fmt') = Len(rest) - 2 /\ fmt' \in Seq(Char)
      BY <1>5, <1>8, <2>1, OffsetFacts
    <2>3. Len(fmt') < Len(fmt)
      BY <1>4, <1>5, <2>2
    <2>4. Rank[pc] = 1 /\ Rank[pc'] = 1 /\ pc # "done" /\ pc' # "done"
      BY <1>1, <1>8, Ranks
    <2>5. Extends(fb', fb) /\ fm' \in Specs
      BY <1>2, <1>6, <1>8, WriteOneExtends, ExtendsTwice, Literals, Zenon
    <2>6. GoesOn
      BY <2>3, <2>4 DEF GoesOn
    <2> QED
      BY <1>1, <2>2, <2>4, <2>5, <2>6, GoodStep, Zenon
  <1>9. CASE /\ rest # <<>> /\ fb' = text /\ fmt' = OffsetBy(rest, 1)
             /\ fm' = NoSpec /\ pc' = "flags"
    <2>1. Len(rest) >= 1
      BY <1>5, <1>9, NonEmpty, Zenon
    <2>2. Len(fmt') = Len(rest) - 1 /\ fmt' \in Seq(Char)
      BY <1>5, <1>9, <2>1, OffsetFacts
    <2>3. Len(fmt') < Len(fmt)
      BY <1>4, <1>5, <2>2
    <2>4. Rank[pc] = 1 /\ Rank[pc'] = 3 /\ pc # "done" /\ pc' # "done"
      BY <1>1, <1>9, Ranks
    <2>5. Extends(fb', fb) /\ fm' \in Specs
      BY <1>6, <1>9, ConstantsAreTexts, Zenon
    <2>6. GoesOn
      BY <2>3, <2>4 DEF GoesOn
    <2> QED
      BY <1>1, <2>2, <2>4, <2>5, <2>6, GoodStep, Zenon
  <1> QED
    BY <1>1, <1>7, <1>8, <1>9, Zenon

LEMMA SpecUpdates ==
    ASSUME NEW spec \in Specs, NEW c \in Char, NEW n \in Nat
    PROVE  /\ [spec EXCEPT !.prepend_char = c] \in Specs
           /\ [spec EXCEPT !.left_justify = TRUE] \in Specs
           /\ [spec EXCEPT !.pad_char = c] \in Specs
           /\ [spec EXCEPT !.alternate_form = TRUE] \in Specs
           /\ [spec EXCEPT !.min_width = n] \in Specs
           /\ [spec EXCEPT !.min_width = n, !.pad_char = c] \in Specs
           /\ [spec EXCEPT !.has_precision = TRUE, !.precision = n] \in Specs
  BY DEF Specs

\* A step of the parser, which writes nothing.
LEMMA ParseStep ==
    ASSUME FormatInv, pc # "done", pc' # "done", fb' = fb, warned' = warned, caller' = caller,
           fm' \in Specs, fmt' \in Seq(Char), GoesOn
    PROVE  KeptAndAdvanced
  <1>1. Extends(fb', fb)
    BY ExtendsItself, Zenon DEF FormatInv
  <1> QED
    BY <1>1, GoodStep, Zenon

\* What is left behind n characters of a format.
LEMMA Consumed ==
    ASSUME NEW s \in Seq(Char), NEW n \in 0 .. Len(s)
    PROVE  /\ OffsetBy(s, n) \in Seq(Char) /\ Len(OffsetBy(s, n)) <= Len(s)
           /\ n # 0 => Len(OffsetBy(s, n)) < Len(s)
  <1>1. n \in Nat /\ n <= Len(s) /\ Len(s) \in Nat
    OBVIOUS
  <1>2. OffsetBy(s, n) \in Seq(Char) /\ Len(OffsetBy(s, n)) = Len(s) - n
    BY <1>1, OffsetFacts, Zenon
  <1> QED
    BY <1>1, <1>2

LEMMA OneInRange ==
    \A k \in Nat : k >= 1 => 1 \in 0 .. k /\ 1 \in 1 .. k /\ 1 # 0
  OBVIOUS

LEMMA FirstConsumed ==
    ASSUME NEW s \in Seq(Char), First(s) # ""
    PROVE  OffsetBy(s, 1) \in Seq(Char) /\ Len(OffsetBy(s, 1)) < Len(s)
  <1>1. Len(s) \in Nat /\ Len(s) >= 1
    BY FirstFacts, Zenon
  <1> QED
    BY <1>1, OneInRange, Consumed, Zenon

LEMMA ConsumeFlagStep ==
    ASSUME FormatInv, ConsumeFlag
    PROVE  KeptAndAdvanced
  <1>1. /\ pc = "flags" /\ pc' = pc /\ fb' = fb /\ warned' = warned /\ caller' = caller
        /\ First(fmt) \in Flags /\ fmt' = OffsetBy(fmt, 1)
    BY DEF ConsumeFlag
  <1>2. First(fmt) # ""
    BY <1>1 DEF Flags
  <1>3. fmt \in Seq(Char) /\ fm \in Specs
    BY DEF FormatInv
  <1>4. fmt' \in Seq(Char) /\ Len(fmt') < Len(fmt)
    BY <1>1, <1>2, <1>3, FirstConsumed, Zenon
  <1>5. fm' \in Specs
    <2>1. fmt[1] \in Char /\ fmt[1] \in Flags /\ "0" \in Char /\ 0 \in Nat
      BY <1>1, <1>2, <1>3, FirstFacts, Literals, Zenon
    <2>2. /\ fmt[1] \in {"+", " "} => fm' = [fm EXCEPT !.prepend_char = fmt[1]]
          /\ fmt[1] = "-" => fm' = [fm EXCEPT !.left_justify = TRUE]
          /\ fmt[1] = "0" => fm' = [fm EXCEPT !.pad_char = "0"]
          /\ fmt[1] = "#" => fm' = [fm EXCEPT !.alternate_form = TRUE]
      BY DEF ConsumeFlag
    <2>3. fmt[1] \in {"+", " "} \/ fmt[1] = "-" \/ fmt[1] = "0" \/ fmt[1] = "#"
      BY <2>1, Zenon DEF Flags
    <2> QED
      BY <1>3, <2>1, <2>2, <2>3, SpecUpdates, ZenonT(40)
  <1>6. Rank[pc] = 3 /\ Rank[pc'] = 3
    BY <1>1, Ranks, Zenon
  <1>7. GoesOn
    BY <1>4, <1>6 DEF GoesOn
  <1>8. pc # "done" /\ pc' # "done"
    BY <1>1
  <1> QED
    BY <1>1, <1>3, <1>4, <1>5, <1>7, <1>8, ParseStep, Zenon

LEMMA Arguments ==
    \A n \in Numbers : n \in Int /\ n % Modulus \in Nat
  <1>1. \A n \in Numbers : n \in Int
    BY ArgumentsAssumption
  <1>2. Modulus \in Nat \ {0}
    BY FormatAssumption
  <1> QED
    BY <1>1, <1>2, Signed, Zenon

LEMMA ParseWidthStep ==
    ASSUME FormatInv, ParseWidth
    PROVE  KeptAndAdvanced
  <1> DEFINE digits == Digits(fmt)
  <1>1. pc = "flags" /\ fb' = fb /\ warned' = warned /\ caller' = caller
    BY DEF ParseWidth
  <1>2. fmt \in Seq(Char) /\ fm \in Specs
    BY DEF FormatInv
  <1>3. NumberOf(digits) \in Nat /\ Len(digits) \in 0 .. Len(fmt)
    BY <1>2, DigitsFacts, Zenon
  <1>4. Rank["flags"] = 3 /\ Rank["precision"] = 2
    BY Ranks, Zenon
  <1>5. ASSUME pc' = "precision", fmt' \in Seq(Char), Len(fmt') <= Len(fmt), fm' \in Specs
        PROVE  KeptAndAdvanced
    <2>1. Rank[pc] = 3 /\ Rank[pc'] = 2
      BY <1>1, <1>4, <1>5, Zenon
    <2>2. GoesOn
      BY <1>5, <2>1 DEF GoesOn
    <2>3. pc # "done" /\ pc' # "done"
      BY <1>1, <1>5
    <2> QED
      BY <1>1, <1>5, <2>2, <2>3, ParseStep, Zenon
  <1>6. CASE /\ First(fmt) = "*"
             /\ \E n \in Numbers : fm' = [fm EXCEPT !.min_width = n % Modulus]
             /\ fmt' = OffsetBy(fmt, 1) /\ pc' = "precision"
    <2>1. First(fmt) # ""
      BY <1>6
    <2>2. fmt' \in Seq(Char) /\ Len(fmt') < Len(fmt)
      BY <1>2, <1>6, <2>1, FirstConsumed, Zenon
    <2>3. Len(fmt') <= Len(fmt)
      BY <1>2, <2>2
    <2>4. fm' \in Specs
      BY <1>2, <1>6, Arguments, SpecUpdates, Literals, Zenon
    <2> QED
      BY <1>5, <1>6, <2>2, <2>3, <2>4
  <1>7. CASE /\ fm' = [fm EXCEPT !.min_width = NumberOf(digits)]
             /\ fmt' = OffsetBy(fmt, Len(digits)) /\ pc' = "precision"
    <2>1. fmt' \in Seq(Char) /\ Len(fmt') <= Len(fmt)
      BY <1>2, <1>3, <1>7, Consumed, Zenon
    <2>2. fm' \in Specs
      BY <1>2, <1>3, <1>7, SpecUpdates, Literals, Zenon
    <2> QED
      BY <1>5, <1>7, <2>1, <2>2
  <1>8. CASE Fail("ERANGE") /\ UNCHANGED fm
    <2>1. UNCHANGED <<caller, fb, fm, got, input, shown, warned>>
      BY <1>8 DEF ParseWidth
    <2>2. pc \in {"flags", "precision", "convert"}
      BY <1>1
    <2> QED
      BY <1>8, <2>1, <2>2, FailedStep
  <1> QED
    BY <1>6, <1>7, <1>8, Zenon DEF ParseWidth

LEMMA ParsePrecisionStep ==
    ASSUME FormatInv, ParsePrecision
    PROVE  KeptAndAdvanced
  <1> DEFINE rest == OffsetBy(fmt, 1)
             digits == Digits(rest)
             With(n) == [fm EXCEPT !.has_precision = TRUE, !.precision = n]
  <1>1. pc = "precision" /\ fb' = fb /\ warned' = warned /\ caller' = caller
    BY DEF ParsePrecision
  <1>2. fmt \in Seq(Char) /\ fm \in Specs
    BY DEF FormatInv
  <1>3. rest \in Seq(Char) /\ Len(rest) <= Len(fmt)
    <2>1. 1 \in Nat
      OBVIOUS
    <2> QED
      BY <1>2, <2>1, OffsetFacts, Zenon
  <1> HIDE DEF rest
  <1>4. NumberOf(digits) \in Nat /\ Len(digits) \in 0 .. Len(rest)
    BY <1>3, DigitsFacts, Zenon
  <1>5. ASSUME pc' = "convert", fmt' \in Seq(Char), Len(fmt') <= Len(fmt), fm' \in Specs
        PROVE  KeptAndAdvanced
    <2>1. Rank[pc] = 2 /\ Rank[pc'] = 1
      BY <1>1, <1>5, Ranks, Zenon
    <2>2. GoesOn
      BY <1>5, <2>1 DEF GoesOn
    <2>3. pc # "done" /\ pc' # "done"
      BY <1>1, <1>5
    <2> QED
      BY <1>1, <1>5, <2>2, <2>3, ParseStep, Zenon
  <1>6. CASE pc' = "convert" /\ UNCHANGED <<fm, fmt, ret>>
    <2>1. Len(fmt') <= Len(fmt)
      BY <1>2, <1>6
    <2> QED
      BY <1>2, <1>5, <1>6, <2>1
  <1>7. CASE /\ First(rest) = "*"
             /\ \E n \in Numbers : fm' = With(n % Modulus)
             /\ fmt' = OffsetBy(rest, 1) /\ pc' = "convert"
    <2>1. First(rest) # ""
      BY <1>7
    <2>2. fmt' \in Seq(Char) /\ Len(fmt') < Len(rest)
      BY <1>3, <1>7, <2>1, FirstConsumed, Zenon
    <2>3. Len(fmt') <= Len(fmt)
      BY <1>2, <1>3, <2>2
    <2>4. fm' \in Specs
      BY <1>2, <1>7, Arguments, SpecUpdates, Literals, Zenon
    <2> QED
      BY <1>5, <1>7, <2>2, <2>3, <2>4
  <1>8. CASE /\ fm' = With(NumberOf(digits))
             /\ fmt' = OffsetBy(rest, Len(digits)) /\ pc' = "convert"
    <2>1. fmt' \in Seq(Char) /\ Len(fmt') <= Len(rest)
      BY <1>3, <1>4, <1>8, Consumed, Zenon
    <2>2. Len(fmt') <= Len(fmt)
      BY <1>2, <1>3, <2>1
    <2>3. fm' \in Specs
      BY <1>2, <1>4, <1>8, SpecUpdates, Literals, Zenon
    <2> QED
      BY <1>5, <1>8, <2>1, <2>2, <2>3
  <1>9. CASE (Fail("EINVAL") \/ Fail("ERANGE")) /\ UNCHANGED fm
    <2>1. UNCHANGED <<caller, fb, fm, got, input, shown, warned>>
      BY <1>9 DEF ParsePrecision
    <2>2. pc \in {"flags", "precision", "convert"}
      BY <1>1
    <2> QED
      BY <1>9, <2>1, <2>2, FailedStep
  <1> QED
    BY <1>6, <1>7, <1>8, <1>9, Zenon DEF ParsePrecision, rest

\* The end of an iteration, with a buffer that was written to.
LEMMA ConvertedStep ==
    ASSUME FormatInv, pc = "convert", pc' \in {"text", "pad_name"},
           NEW n \in 1 .. Len(fmt), NEW b, NEW kind, NEW meant, NEW base,
           Converted(n, b, kind, meant, base), Extends(b, fb), warned' = warned
    PROVE  KeptAndAdvanced
  <1>1. fb' = b /\ fmt' = OffsetBy(fmt, n) /\ fm' = fm /\ caller' = caller
    BY Zenon DEF Converted
  <1>2. fmt \in Seq(Char) /\ fm' \in Specs /\ Extends(fb', fb)
    BY <1>1, Zenon DEF FormatInv
  <1>3. n \in 0 .. Len(fmt) /\ n # 0
    OBVIOUS
  <1>4. fmt' \in Seq(Char) /\ Len(fmt') < Len(fmt)
    BY <1>1, <1>2, <1>3, Consumed, Zenon
  <1>5. Rank[pc] = 1 /\ Rank[pc'] \in 0 .. 1
    BY Ranks
  <1>6. GoesOn
    BY <1>4, <1>5 DEF GoesOn
  <1>7. pc # "done" /\ pc' # "done"
    OBVIOUS
  <1> QED
    BY <1>1, <1>2, <1>4, <1>6, <1>7, GoodStep, Zenon

LEMMA OneIsThere ==
    ASSUME NEW s \in Seq(Char), First(s) # ""
    PROVE  1 \in 1 .. Len(s)
  <1>1. Len(s) \in Nat /\ Len(s) >= 1
    BY FirstFacts, Zenon
  <1> QED
    BY <1>1, OneInRange, Zenon

LEMMA WriteCharStep ==
    ASSUME FormatInv, WriteChar
    PROVE  KeptAndAdvanced
  <1>1. PICK s \in Texts \ {NULL} :
           s # <<>> /\ Converted(1, write_one(fb, s[1]), "char", <<s[1]>>, 10)
    BY Zenon DEF WriteChar
  <1>2. pc = "convert" /\ First(fmt) # "" /\ pc' \in {"text", "pad_name"} /\ warned' = warned
    BY DEF WriteChar
  <1>3. fmt \in Seq(Char) /\ IsBuffer(fb)
    BY Zenon DEF FormatInv
  <1>4. s \in Seq(Char)
    BY ConstantsAreTexts, Zenon
  <1>5. s[1] \in Char
    BY <1>1, <1>4, NonEmpty, Zenon
  <1>6. Extends(write_one(fb, s[1]), fb)
    BY <1>3, <1>5, WriteOneExtends, Zenon
  <1>7. 1 \in 1 .. Len(fmt)
    BY <1>2, <1>3, OneIsThere, Zenon
  <1> QED
    BY <1>1, <1>2, <1>6, <1>7, ConvertedStep, Zenon

LEMMA CutFacts ==
    ASSUME fm \in Specs, NEW s \in Seq(Char)
    PROVE  Cut(s) \in Seq(Char)
  <1>1. fm.precision \in Nat
    BY SpecFields, Zenon
  <1>2. \A n \in Nat : SubSeq(s, 1, Min({Len(s), n})) \in Seq(Char)
    <2> TAKE n \in Nat
    <2> DEFINE m == Min({Len(s), n})
    <2>1. Len(s) \in Int /\ n \in Int /\ Len(s) \in Nat
      OBVIOUS
    <2>2. m = IF Len(s) <= n THEN Len(s) ELSE n
      BY <2>1, MinOfTwo, Zenon
    <2> HIDE DEF m
    <2>3. m \in 0 .. Len(s)
      BY <2>1, <2>2
    <2>4. SubSeq(s, 1, m) \in Seq(Char)
      BY <2>3
    <2> QED
      BY <2>4, Zenon DEF m
  <1> QED
    BY <1>1, <1>2, Zenon DEF Cut

LEMMA WriteStringStep ==
    ASSUME FormatInv, WriteString
    PROVE  KeptAndAdvanced
  <1>1. PICK t \in Texts :
           LET string == IF t = NULL THEN NullText ELSE t
               blanks == Repeat(" ", fm.min_width - Len(Cut(string)))
           IN  Converted(1, write_each(write_each(fb, Cut(string)), blanks),
                         "string", string, 10)
    BY Zenon DEF WriteString
  <1> DEFINE string == IF t = NULL THEN NullText ELSE t
             cut == Cut(string)
             blanks == Repeat(" ", fm.min_width - Len(cut))
             c == write_each(fb, cut)
             d == write_each(c, blanks)
  <1>2. pc = "convert" /\ First(fmt) # "" /\ pc' \in {"text", "pad_name"} /\ warned' = warned
    BY DEF WriteString
  <1>3. fmt \in Seq(Char) /\ IsBuffer(fb) /\ fm \in Specs
    BY Zenon DEF FormatInv
  <1>4. string \in Seq(Char)
    BY ConstantsAreTexts, Zenon
  <1>5. Converted(1, d, "string", string, 10)
    BY <1>1, Zenon
  <1> HIDE DEF string
  <1>6. cut \in Seq(Char)
    BY <1>3, <1>4, CutFacts, Zenon
  <1> HIDE DEF cut
  <1>7. blanks \in Seq(Char)
    <2>1. fm.min_width \in Nat /\ " " \in Char
      BY <1>3, SpecFields, Literals, Zenon
    <2>2. Len(cut) \in Nat
      BY <1>6
    <2>3. \A m, k \in Nat : m - k \in Int
      OBVIOUS
    <2> QED
      BY <2>1, <2>2, <2>3, RepeatIsText, Zenon
  <1> HIDE DEF blanks
  <1>8. Extends(c, fb)
    BY <1>3, <1>6, WriteEachExtends, Zenon
  <1> HIDE DEF c
  <1>9. IsBuffer(c)
    BY <1>8, Zenon DEF Extends
  <1>10. Extends(d, c)
    BY <1>7, <1>9, WriteEachExtends, Zenon
  <1> HIDE DEF d
  <1>11. Extends(d, fb)
    BY <1>8, <1>10, ExtendsTwice, Zenon
  <1>12. 1 \in 1 .. Len(fmt)
    BY <1>2, <1>3, OneIsThere, Zenon
  <1> QED
    BY <1>2, <1>5, <1>11, <1>12, ConvertedStep, Zenon

LEMMA WritePointerStep ==
    ASSUME FormatInv, WritePointer
    PROVE  KeptAndAdvanced
  <1> DEFINE spec == [fm EXCEPT !.min_width = PointerWidth, !.pad_char = "0"]
  <1>1. PICK n \in Numbers :
           Converted(1, write_integer(fb, spec, n % Modulus, FALSE, 16, FALSE),
                     "pointer", n % Modulus, 16)
    BY Zenon DEF WritePointer
  <1>2. pc = "convert" /\ First(fmt) # "" /\ pc' \in {"text", "pad_name"} /\ warned' = warned
    BY DEF WritePointer
  <1>3. fmt \in Seq(Char) /\ IsBuffer(fb) /\ fm \in Specs
    BY Zenon DEF FormatInv
  <1>4. spec \in Specs
    BY <1>3, ArgumentsAssumption, SpecUpdates, Literals, Zenon
  <1> HIDE DEF spec
  <1>5. n % Modulus \in Nat
    BY Arguments, Zenon
  <1>6. 16 \in {8, 10, 16} /\ FALSE \in BOOLEAN
    OBVIOUS
  <1>7. Extends(write_integer(fb, spec, n % Modulus, FALSE, 16, FALSE), fb)
    BY <1>3, <1>4, <1>5, <1>6, IntegerExtends, Zenon
  <1>8. 1 \in 1 .. Len(fmt)
    BY <1>2, <1>3, OneIsThere, Zenon
  <1> QED
    BY <1>1, <1>2, <1>7, <1>8, ConvertedStep, Zenon

LEMMA WriteIntegerStep ==
    ASSUME FormatInv, WriteInteger
    PROVE  KeptAndAdvanced
  <1> DEFINE length == LengthOf(fmt)
             c == First(OffsetBy(fmt, Len(length)))
             argument(n) == ArgumentOf(n, c, Size[length])
             base == base_from_specifier(c)
             d(n) == write_integer(fb, fm, argument(n) % Modulus, c \in {"d", "i"}, base, c = "X")
  <1>1. /\ c \in Specifiers
        /\ \E n \in Numbers : Converted(Len(length) + 1, d(n), "number", argument(n), base)
    BY Zenon DEF WriteInteger
  <1>2. pc = "convert" /\ pc' \in {"text", "pad_name"} /\ warned' = warned
    BY DEF WriteInteger, AtInteger
  <1>3. fmt \in Seq(Char) /\ IsBuffer(fb) /\ fm \in Specs
    BY Zenon DEF FormatInv
  <1>4. length \in DOMAIN Size /\ Len(length) \in 0 .. Len(fmt)
    BY <1>3, LengthFacts, Zenon
  <1> HIDE DEF length
  <1>5. Len(length) + 1 \in 1 .. Len(fmt)
    <2>1. Len(length) \in Nat /\ Len(fmt) \in Nat /\ Len(length) <= Len(fmt)
      BY <1>3, <1>4
    <2>2. /\ OffsetBy(fmt, Len(length)) \in Seq(Char)
          /\ Len(OffsetBy(fmt, Len(length))) =
               IF Len(length) <= Len(fmt) THEN Len(fmt) - Len(length) ELSE 0
      BY <1>3, <2>1, OffsetFacts, Zenon
    <2>3. c # ""
      BY <1>1 DEF Specifiers
    <2>4. Len(OffsetBy(fmt, Len(length))) >= 1
      BY <2>2, <2>3, FirstFacts, Zenon
    <2>5. \A i, j, k \in Nat : i <= j /\ k = j - i /\ k >= 1 => i + 1 \in 1 .. j
      OBVIOUS
    <2>6. \A i, j \in Nat : i <= j => j - i \in Nat
      OBVIOUS
    <2>7. Len(OffsetBy(fmt, Len(length))) = Len(fmt) - Len(length)
      BY <2>1, <2>2, Zenon
    <2> QED
      BY <2>1, <2>4, <2>5, <2>6, <2>7, Zenon
  <1>6. base \in {8, 10, 16} /\ (c = "X") \in BOOLEAN /\ (c \in {"d", "i"}) \in BOOLEAN
    <2>1. base \in {8, 10, 16}
      BY DEF base_from_specifier
    <2> HIDE DEF c, base
    <2> QED
      BY <2>1
  <1> HIDE DEF c, base
  <1>7. ASSUME NEW n \in Numbers PROVE Extends(d(n), fb)
    <2>1. n \in Int /\ Modulus \in Nat \ {0}
      BY Arguments, FormatAssumption, Zenon
    <2>2. Size[length] \in Nat \ {0}
      <3>1. Size[length] \in 1 .. Modulus
        BY <1>4, FormatAssumption, Zenon
      <3> QED
        BY <3>1, <2>1
    <2>3. argument(n) \in Int
      <3>1. AsSigned(n, Size[length]) \in Int /\ n % Size[length] \in Nat
        BY <2>1, <2>2, Signed, Zenon
      <3>2. n % Size[length] \in Int
        BY <3>1
      <3> QED
        BY <3>1, <3>2, Zenon DEF ArgumentOf
    <2> HIDE DEF argument
    <2>4. argument(n) % Modulus \in Nat
      BY <2>1, <2>3, Signed, Zenon
    <2> QED
      BY <1>3, <1>6, <2>4, IntegerExtends, Zenon
  <1> HIDE DEF argument
  <1>8. PICK n \in Numbers : Converted(Len(length) + 1, d(n), "number", argument(n), base)
    BY <1>1, Zenon
  <1>9. Extends(d(n), fb)
    BY <1>7, Zenon
  <1> HIDE DEF d
  <1> QED
    BY <1>2, <1>5, <1>8, <1>9, ConvertedStep, Zenon

LEMMA BadConversionStep ==
    ASSUME FormatInv, BadConversion
    PROVE  KeptAndAdvanced
  <1>1. pc \in {"flags", "precision", "convert"}
    BY DEF BadConversion, AtInteger
  <1>2. UNCHANGED <<caller, fb, fm, got, input, shown, warned>> /\ Fail("EINVAL")
    BY DEF BadConversion
  <1> QED
    BY <1>1, <1>2, FailedStep

\* The warning of a null string is written into the same buffer.
LEMMA WarningStays ==
    ASSUME NEW b, IsBuffer(b)
    PROVE  LET over == Terminated(write_many([b EXCEPT !.bytes_written = 0], Warning))
               c    == [b EXCEPT !.buffer = over.buffer]
           IN  IsBuffer(c) /\ (Counted(b) => Counted(c))
  <1> DEFINE e == [b EXCEPT !.bytes_written = 0]
             m == write_many(e, Warning)
             over == Terminated(m)
             c == [b EXCEPT !.buffer = over.buffer]
  <1>1. b.buffer \in [0 .. b.capacity - 1 -> Char] /\ 0 \in Nat
    BY BufferFields
  <1>2. IsBuffer(e) /\ e.capacity = b.capacity
    BY <1>1, OneAssigned, Zenon
  <1> HIDE DEF e
  <1>3. Warning \in Seq(Char)
    BY ConstantsAreTexts, Zenon
  <1>4. Extends(m, e)
    BY <1>2, <1>3, WriteManyExtends, Zenon
  <1> HIDE DEF m
  <1>5. IsBuffer(m) /\ m.capacity = b.capacity
    BY <1>2, <1>4, Zenon DEF Extends
  <1>6. IsBuffer(over) /\ over.capacity = b.capacity
    BY <1>5, TerminatedFacts, Zenon
  <1> HIDE DEF over
  <1>7. over.buffer \in [0 .. b.capacity - 1 -> Char]
    BY <1>6, BufferFields, Zenon
  <1>8. IsBuffer(c) /\ c.all = b.all /\ c.bytes_written = b.bytes_written
    BY <1>1, <1>7, OneAssigned, Zenon
  <1> HIDE DEF c
  <1>9. IsBuffer(c) /\ (Counted(b) => Counted(c))
    BY <1>8, Zenon DEF Counted
  <1> QED
    BY <1>9, Zenon DEF c, over, m, e

LEMMA WriteNameStep ==
    ASSUME FormatInv, WriteName
    PROVE  KeptAndAdvanced
  <1>1. PICK t \in Texts :
           LET name == IF t = NULL THEN NullText ELSE t
               over == Terminated(write_many([fb EXCEPT !.bytes_written = 0], Warning))
               b    == IF t = NULL THEN [fb EXCEPT !.buffer = over.buffer] ELSE fb
           IN  /\ Converted(2, write_many(b, Cut(name)), "name", name, 10)
               /\ warned' = (warned \/ t = NULL)
               /\ pc' = IF Len(Cut(name)) < fm.precision THEN "pad_name" ELSE "text"
    BY Zenon DEF WriteName
  <1> DEFINE name == IF t = NULL THEN NullText ELSE t
             over == Terminated(write_many([fb EXCEPT !.bytes_written = 0], Warning))
             w == [fb EXCEPT !.buffer = over.buffer]
             b == IF t = NULL THEN w ELSE fb
             c == write_many(b, Cut(name))
  <1>2. /\ Converted(2, c, "name", name, 10)
        /\ warned' = (warned \/ t = NULL)
        /\ pc' \in {"text", "pad_name"}
    <2>1. Converted(2, c, "name", name, 10) /\ warned' = (warned \/ t = NULL)
      BY <1>1, Zenon
    <2>2. pc' = IF Len(Cut(name)) < fm.precision THEN "pad_name" ELSE "text"
      BY <1>1, Zenon
    <2>3. pc' \in {"text", "pad_name"}
      BY <2>2, Zenon
    <2> QED
      BY <2>1, <2>3, Zenon
  <1>3. fmt \in Seq(Char) /\ IsBuffer(fb) /\ Counted(fb) /\ fm \in Specs /\ pc = "convert"
    BY Zenon DEF FormatInv, WriteName
  <1>4. 2 \in 1 .. Len(fmt)
    <2>1. \A s \in Seq(Char) : IsPrefix(<<"p", "S">>, s) => 2 \in 1 .. Len(s)
      <3> TAKE s \in Seq(Char)
      <3>1. Len(<<"p", "S">>) = 2 /\ Len(s) \in Nat
        OBVIOUS
      <3>2. IsPrefix(<<"p", "S">>, s) => 2 <= Len(s)
        BY <3>1, Zenon DEF IsPrefix
      <3> QED
        BY <3>1, <3>2
    <2> QED
      BY <1>3, <2>1, Zenon DEF WriteName
  <1>5. name \in Seq(Char)
    BY ConstantsAreTexts, Zenon
  <1> HIDE DEF name
  <1>6. Cut(name) \in Seq(Char)
    BY <1>3, <1>5, CutFacts, Zenon
  <1>7. IsBuffer(w) /\ Counted(w)
    BY <1>3, WarningStays, Zenon
  <1> HIDE DEF w
  <1>8. CASE t = NULL
    <2>1. b = w
      BY <1>8, Zenon
    <2> HIDE DEF b
    <2>2. Extends(c, b)
      BY <1>6, <1>7, <2>1, WriteManyExtends, Zenon
    <2> HIDE DEF c
    <2>3. fb' = c /\ fmt' = OffsetBy(fmt, 2) /\ fm' = fm /\ caller' = caller
      BY <1>2, Zenon DEF Converted
    <2>4. IsBuffer(fb') /\ Counted(fb')
      BY <1>7, <2>1, <2>2, <2>3, Zenon DEF Extends
    <2>5. IsBuffer(fb)' /\ Counted(fb)'
      BY <2>4, Zenon DEF IsBuffer, Counted
    <2>6. fmt' \in Seq(Char) /\ Len(fmt') < Len(fmt)
      <3>1. 2 \in 0 .. Len(fmt) /\ 2 # 0
        BY <1>4
      <3> QED
        BY <1>3, <2>3, <3>1, Consumed, Zenon
    <2>7. pc' # "done" /\ warned'
      BY <1>2, <1>8
    <2>8. FormatInv'
      BY <1>3, <2>3, <2>5, <2>6, <2>7, Zenon DEF FormatInv
    <2>9. Rank[pc] = 1 /\ Rank[pc'] \in 0 .. 1
      BY <1>2, <1>3, Ranks
    <2>10. GoesOn
      BY <2>6, <2>9 DEF GoesOn
    <2>11. Measure' < Measure
      BY <1>3, <2>6, <2>10, Drops, Zenon
    <2> QED
      BY <2>8, <2>11, Zenon DEF KeptAndAdvanced
  <1>9. CASE t # NULL
    <2>1. b = fb /\ warned' = warned
      <3>1. warned \in BOOLEAN
        BY Zenon DEF FormatInv
      <3>2. \A x \in BOOLEAN : (x \/ FALSE) = x
        OBVIOUS
      <3>3. warned' = (warned \/ FALSE)
        BY <1>2, <1>9, Zenon
      <3> QED
        BY <1>9, <3>1, <3>2, <3>3, Zenon
    <2> HIDE DEF b
    <2>2. Extends(c, fb)
      BY <1>3, <1>6, <2>1, WriteManyExtends, Zenon
    <2> HIDE DEF c
    <2> QED
      BY <1>2, <1>3, <1>4, <2>1, <2>2, ConvertedStep, Zenon
  <1> QED
    BY <1>8, <1>9, Zenon

LEMMA PadNameStep ==
    ASSUME FormatInv, PadName
    PROVE  KeptAndAdvanced
  <1>1. /\ pc = "pad_name" /\ pc' = pc /\ fb' = write_one(fb, " ") /\ warned' = warned
        /\ caller' = caller /\ fmt' = fmt /\ fm' = fm
    BY DEF PadName
  <1>2. fmt' \in Seq(Char) /\ fm' \in Specs /\ IsBuffer(fb)
    BY <1>1, Zenon DEF FormatInv
  <1>3. Extends(fb', fb)
    BY <1>1, <1>2, WriteOneExtends, Literals, Zenon
  <1>4. pc # "done" /\ pc' # "done"
    BY <1>1
  <1>5. FormatInv'
    BY <1>1, <1>2, <1>3, <1>4, Written, Zenon
  <1> QED
    BY <1>1, <1>5, Zenon DEF KeptAndAdvanced

\* The number of characters that the caller uses.
Chars(who, written, capacity) ==
    IF who = "vprint" THEN vscnprintf(written, capacity) ELSE param_get(written, capacity)

LEMMA CharsFacts ==
    ASSUME NEW who, NEW written \in Nat, NEW capacity \in Nat
    PROVE  Chars(who, written, capacity) =
             IF written < capacity THEN written
             ELSE IF who = "vprint" /\ capacity > 0 THEN capacity - 1 ELSE capacity
  <1>1. Max({capacity - 1, 0}) = IF capacity - 1 >= 0 THEN capacity - 1 ELSE 0
    <2>1. capacity - 1 \in Int /\ 0 \in Int
      OBVIOUS
    <2> QED
      BY <2>1, MaxOfTwo, Zenon
  <1>2. Min({written, capacity}) = IF written <= capacity THEN written ELSE capacity
    <2>1. written \in Int /\ capacity \in Int
      OBVIOUS
    <2> QED
      BY <2>1, MinOfTwo, Zenon
  <1>3. vscnprintf(written, capacity) =
          IF written < capacity THEN written ELSE IF capacity > 0 THEN capacity - 1 ELSE capacity
    BY <1>1 DEF vscnprintf
  <1>4. param_get(written, capacity) = IF written < capacity THEN written ELSE capacity
    BY <1>2 DEF param_get
  <1> QED
    BY <1>3, <1>4, Zenon DEF Chars

LEMMA AppendedSeq ==
    ASSUME NEW s \in Seq(Char), NEW c \in Char, NEW n \in Nat, n = Len(s) + 1
    PROVE  Append(s, c) = [i \in 1 .. n |-> IF i = n THEN c ELSE s[i]]
  <1> DEFINE u == Append(s, c)
  <1>1. u \in Seq(Char) /\ Len(u) = n /\ \A i \in 1 .. n : u[i] = IF i = n THEN c ELSE s[i]
    OBVIOUS
  <1> HIDE DEF u
  <1>2. u = [i \in 1 .. n |-> u[i]]
    BY <1>1
  <1>3. [i \in 1 .. n |-> u[i]] = [i \in 1 .. n |-> IF i = n THEN c ELSE s[i]]
    BY <1>1
  <1> QED
    BY <1>2, <1>3, Zenon DEF u

\* What the caller gets is the start of the output.
LEMMA GotFacts ==
    ASSUME NEW b, IsBuffer(b), Counted(b), Kept(b), NEW who, NEW text,
           text = [i \in 1 .. Chars(who, b.bytes_written, b.capacity) |->
                      Terminated(b).buffer[i - 1]]
    PROVE  IF Len(b.all) < b.capacity THEN text = b.all
           ELSE LET start == SubSeq(b.all, 1, Max({b.capacity - 1, 0}))
                IN  text = start \/ (who # "vprint" /\ text = Append(start, NUL))
  <1> DEFINE w == Len(b.all)
             n == b.capacity
             k == Chars(who, b.bytes_written, b.capacity)
             last == IF w < n THEN w ELSE n - 1
             buf == Terminated(b).buffer
             start == SubSeq(b.all, 1, Max({b.capacity - 1, 0}))
  <1>1. n \in Nat /\ w \in Nat /\ b.all \in Seq(Char) /\ w = b.bytes_written
    <2>1. b.capacity \in Nat /\ b.all \in Seq(Char)
      BY BufferFields, Zenon
    <2>2. Len(b.all) \in Nat
      BY <2>1
    <2> QED
      BY <2>1, <2>2, Zenon DEF Counted
  <1>2. k = IF w < n THEN w ELSE IF who = "vprint" /\ n > 0 THEN n - 1 ELSE n
    <2>1. Chars(who, w, n) = IF w < n THEN w
                             ELSE IF who = "vprint" /\ n > 0 THEN n - 1 ELSE n
      <3> HIDE DEF w, n
      <3> QED
        BY <1>1, CharsFacts, Zenon
    <2>2. k = Chars(who, w, n)
      BY <1>1, Zenon
    <2> QED
      BY <2>1, <2>2, Zenon
  <1>3. \A i \in 0 .. n - 1 : buf[i] = IF i = last THEN NUL ELSE b.buffer[i]
    BY <1>1, TerminatedFacts, Zenon
  <1>4. \A i \in 1 .. w : i <= n => b.buffer[i - 1] = b.all[i]
    BY Zenon DEF Kept
  <1>5. text = [i \in 1 .. k |-> buf[i - 1]]
    BY Zenon
  <1> HIDE DEF k, buf
  <1>6. CASE w < n
    <2>1. k = w /\ last = w
      BY <1>2, <1>6
    <2>2. \A i \in 1 .. w : buf[i - 1] = b.all[i]
      <3> TAKE i \in 1 .. w
      <3>1. i - 1 \in 0 .. n - 1 /\ i - 1 # last /\ i <= n
        BY <1>1, <1>6
      <3> HIDE DEF last
      <3> QED
        BY <1>3, <1>4, <3>1
    <2>3. b.all = [i \in 1 .. w |-> b.all[i]]
      BY <1>1
    <2>4. text = [i \in 1 .. w |-> b.all[i]]
      BY <1>5, <2>1, <2>2
    <2> QED
      BY <1>6, <2>3, <2>4, Zenon
  <1>7. CASE ~(w < n)
    <2>1. Max({b.capacity - 1, 0}) = IF n > 0 THEN n - 1 ELSE 0
      <3>1. b.capacity - 1 \in Int /\ 0 \in Int
        BY <1>1
      <3>2. Max({b.capacity - 1, 0}) = IF b.capacity - 1 >= 0 THEN b.capacity - 1 ELSE 0
        BY <3>1, MaxOfTwo, Zenon
      <3> QED
        BY <1>1, <3>2
    <2>2. last = n - 1
      BY <1>7
    <2>3. \A i \in 1 .. n - 1 : buf[i - 1] = b.all[i]
      <3> TAKE i \in 1 .. n - 1
      <3>1. i - 1 \in 0 .. n - 1 /\ i - 1 # n - 1 /\ i <= n /\ i \in 1 .. w
        BY <1>1, <1>7
      <3> HIDE DEF last
      <3> QED
        BY <1>3, <1>4, <2>2, <3>1
    <2>4. CASE n = 0
      <3>1. k = 0
        BY <1>2, <1>7, <2>4
      <3>2. start = SubSeq(b.all, 1, 0)
        <4>1. ~(n > 0)
          BY <2>4
        <4> QED
          BY <2>1, <4>1, Zenon
      <3>3. text = <<>>
        BY <1>5, <3>1
      <3>4. SubSeq(b.all, 1, 0) = <<>>
        BY <1>1
      <3>5. text = start
        BY <3>2, <3>3, <3>4, Zenon
      <3> QED
        BY <1>7, <3>5, Zenon
    <2>5. CASE n # 0 /\ who = "vprint"
      <3>1. k = n - 1 /\ start = SubSeq(b.all, 1, n - 1)
        <4>1. n > 0
          BY <1>1, <2>5
        <4> QED
          BY <1>2, <1>7, <2>1, <2>5, <4>1, Zenon
      <3>2. n - 1 \in 0 .. w
        BY <1>1, <1>7, <2>5
      <3>3. SubSeq(b.all, 1, n - 1) = [i \in 1 .. n - 1 |-> b.all[i]]
        BY <1>1, <3>2
      <3>4. text = [i \in 1 .. n - 1 |-> b.all[i]]
        BY <1>5, <2>3, <3>1
      <3>5. text = start
        BY <3>1, <3>3, <3>4, Zenon
      <3> QED
        BY <1>7, <3>5, Zenon
    <2>6. CASE n # 0 /\ who # "vprint"
      <3>1. k = n /\ start = SubSeq(b.all, 1, n - 1)
        <4>1. n > 0
          BY <1>1, <2>6
        <4> QED
          BY <1>2, <1>7, <2>1, <2>6, <4>1, Zenon
      <3>2. n - 1 \in 0 .. w
        BY <1>1, <1>7, <2>6
      <3>3. /\ SubSeq(b.all, 1, n - 1) \in Seq(Char) /\ Len(SubSeq(b.all, 1, n - 1)) = n - 1
            /\ \A i \in 1 .. n - 1 : SubSeq(b.all, 1, n - 1)[i] = b.all[i]
        BY <1>1, <3>2
      <3> DEFINE t == SubSeq(b.all, 1, n - 1)
      <3> HIDE DEF t
      <3>4. t \in Seq(Char) /\ Len(t) = n - 1 /\ \A i \in 1 .. n - 1 : t[i] = b.all[i]
        BY <3>3, Zenon DEF t
      <3>5. \A i \in 1 .. n : buf[i - 1] = IF i = n THEN NUL ELSE t[i]
        <4> TAKE i \in 1 .. n
        <4>1. CASE i = n
          <5>1. n - 1 \in 0 .. n - 1
            BY <1>1, <2>6
          <5> HIDE DEF last
          <5> QED
            BY <1>3, <2>2, <4>1, <5>1
        <4>2. CASE i # n
          <5>1. i \in 1 .. n - 1
            BY <1>1, <4>2
          <5> QED
            BY <2>3, <3>4, <4>2, <5>1
        <4> QED
          BY <4>1, <4>2
      <3>6. Append(t, NUL) = [i \in 1 .. n |-> IF i = n THEN NUL ELSE t[i]]
        <4>1. NUL \in Char
          BY Literals
        <4>2. n = Len(t) + 1 /\ n \in Nat
          BY <1>1, <3>4
        <4> QED
          BY <3>4, <4>1, <4>2, AppendedSeq, Zenon
      <3>7. text = [i \in 1 .. n |-> IF i = n THEN NUL ELSE t[i]]
        BY <1>5, <3>1, <3>5
      <3>8. text = Append(start, NUL)
        BY <3>1, <3>6, <3>7, Zenon DEF t
      <3> QED
        BY <1>7, <2>6, <3>8, Zenon
    <2> QED
      BY <2>4, <2>5, <2>6
  <1> QED
    BY <1>6, <1>7

LEMMA ReturnStep ==
    ASSUME FormatInv, Return
    PROVE  KeptAndAdvanced
  <1> DEFINE n == Chars(caller, fb.bytes_written, fb.capacity)
  <1>1. /\ pc = "text" /\ pc' = "done" /\ fb' = Terminated(fb)
        /\ got' = [i \in 1 .. n |-> fb'.buffer[i - 1]]
        /\ caller' = caller /\ fmt' = fmt /\ fm' = fm /\ warned' = warned
    BY Zenon DEF Return, Chars
  <1> HIDE DEF n
  <1>2. /\ fmt \in Seq(Char) /\ fm \in Specs /\ IsBuffer(fb) /\ Counted(fb)
        /\ caller \in {"vprint", "param_get"} /\ warned \in BOOLEAN
    BY Zenon DEF FormatInv
  <1>3. /\ IsBuffer(fb') /\ fb'.capacity = fb.capacity /\ fb'.all = fb.all
        /\ fb'.bytes_written = fb.bytes_written
    BY <1>1, <1>2, TerminatedFacts, Zenon
  <1>4. IsBuffer(fb)' /\ Counted(fb)'
    BY <1>2, <1>3, Zenon DEF IsBuffer, Counted
  <1>5. ~warned => Got'
    <2> SUFFICES ASSUME ~warned PROVE Got'
      OBVIOUS
    <2>1. Kept(fb)
      <3>1. pc # "done"
        BY <1>1
      <3> QED
        BY <3>1, Zenon DEF FormatInv
    <2>2. got' = [i \in 1 .. Chars(caller, fb.bytes_written, fb.capacity) |->
                     Terminated(fb).buffer[i - 1]]
      BY <1>1, Zenon DEF n
    <2>3. IF Len(fb.all) < fb.capacity THEN got' = fb.all
          ELSE LET start == SubSeq(fb.all, 1, Max({fb.capacity - 1, 0}))
               IN  got' = start \/ (caller # "vprint" /\ got' = Append(start, NUL))
      BY <1>2, <2>1, <2>2, GotFacts, Zenon
    <2>4. caller # "vprint" => caller = "param_get"
      BY <1>2, Zenon
    <2> QED
      BY <1>1, <1>3, <2>3, <2>4, Zenon DEF Got
  <1>6. FormatInv'
    BY <1>1, <1>2, <1>4, <1>5, Zenon DEF FormatInv
  <1>7. Measure' < Measure
    <2>1. Rank[pc] = 1 /\ Rank[pc'] = 0
      BY <1>1, Ranks, Zenon
    <2>2. Len(fmt) \in Nat /\ Len(fmt') = Len(fmt)
      BY <1>1, <1>2
    <2>3. GoesOn
      BY <2>1, <2>2 DEF GoesOn
    <2> QED
      BY <1>1, <1>2, <2>3, Drops, Zenon
  <1> QED
    BY <1>6, <1>7, Zenon DEF KeptAndAdvanced

LEMMA NextStep ==
    ASSUME FormatInv, Next
    PROVE  KeptAndAdvanced
  BY ExtractLevelStep, WriteTextStep, ConsumeFlagStep, ParseWidthStep, ParsePrecisionStep,
     WriteCharStep, WriteStringStep, WriteNameStep, PadNameStep, WritePointerStep,
     WriteIntegerStep, BadConversionStep, ReturnStep, Zenon DEF Next

LEMMA NextFormat ==
    FormatInv /\ [Next \/ Over]_vars => FormatInv'
  <1> SUFFICES ASSUME FormatInv, [Next \/ Over]_vars PROVE FormatInv'
    OBVIOUS
  <1>1. CASE Next
    BY <1>1, NextStep, Zenon DEF KeptAndAdvanced
  <1>2. CASE UNCHANGED vars
    <2>1. /\ caller' = caller /\ fmt' = fmt /\ fb' = fb /\ fm' = fm /\ pc' = pc /\ ret' = ret
          /\ got' = got /\ warned' = warned
      BY <1>2 DEF vars
    <2>2. IsBuffer(fb)' /\ Counted(fb)' /\ (Kept(fb) => Kept(fb)') /\ (Got => Got')
      BY <2>1, Zenon DEF FormatInv, IsBuffer, Counted, Kept, Got
    <2> QED
      BY <2>1, <2>2, Zenon DEF FormatInv
  <1> QED
    BY <1>1, <1>2, Zenon DEF Over

-----------------------------------------------------------------------------
(***************************************************************************)
(* write_one, write_many and the terminator of vsnprintf write inside the  *)
(* buffer, and vprint and param_get_<type> get the start of the output,    *)
(* all of it where there is room: for every format, every argument and     *)
(* every size of the buffer, also 0.                                       *)
(***************************************************************************)
THEOREM OutputStaysInside ==
    Spec => []CallerGetsOutput
  <1>1. Init => FormatInv
    BY InitFormat
  <1>2. FormatInv /\ [Next \/ Over]_vars => FormatInv'
    BY NextFormat
  <1>3. FormatInv => CallerGetsOutput
    BY InvImpliesOutput
  <1> QED
    BY <1>1, <1>2, <1>3, PTL DEF Spec

(***************************************************************************)
(* Every step of vsnprintf but the padding of a name uses up characters of *)
(* the format, or goes on to a later part of the conversion.               *)
(***************************************************************************)
THEOREM ConversionAdvances ==
    Spec => EveryStepAdvances
  <1>1. Init => FormatInv
    BY InitFormat
  <1>2. FormatInv /\ [Next \/ Over]_vars => FormatInv'
    BY NextFormat
  <1>3. FormatInv /\ [Next \/ Over]_vars => [pc # "pad_name" => Measure' < Measure]_vars
    <2> SUFFICES ASSUME FormatInv, [Next \/ Over]_vars
                 PROVE  [pc # "pad_name" => Measure' < Measure]_vars
      OBVIOUS
    <2>1. CASE Next
      BY <2>1, NextStep, Zenon DEF KeptAndAdvanced
    <2>2. CASE UNCHANGED vars
      BY <2>2
    <2> QED
      BY <2>1, <2>2, Zenon DEF Over
  <1> QED
    BY <1>1, <1>2, <1>3, PTL DEF Spec, EveryStepAdvances
=============================================================================
