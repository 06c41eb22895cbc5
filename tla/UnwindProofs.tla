---------------------------- MODULE UnwindProofs -----------------------------
(***************************************************************************)
(* The unwinder, whatever the code, the layout of its frames and the       *)
(* tables of .eh_frame_hdr are, as long as the information is right: what  *)
(* the callback gets is on the stack, nothing else is read, and a full     *)
(* table leads through the whole stack.                                    *)
(*                                                                         *)
(* The argument has two parts.  The machine always has a chain of frames,  *)
(* from its registers to the entry of the kernel, each of them laid out as *)
(* the layout says and leading to the next one: that is kept by every      *)
(* instruction and by an interrupt.  A walk is at one frame of this chain  *)
(* when it prepares, executes or reports: what it executes is a row that   *)
(* describes that frame, and applying the row leads to the next one.       *)
(***************************************************************************)
EXTENDS StackLayout, WellFoundedInduction, TLAPS

-----------------------------------------------------------------------------
(***************************************************************************)
(* The frames.  Known lists, innermost first, where each activation is: at *)
(* an instruction, or behind a call.                                       *)
(***************************************************************************)
KnownOf(r, c) == <<Frame(r["pc"], FALSE)>> \o c

Known == KnownOf(regs, calls)

LayoutAt(layout, k) == IF k.after_call THEN layout[k.addr - 1] ELSE layout[k.addr]

IsFrame(l) ==
    l \in Frames /\ l.saved <= l.depth /\ Given(l.fn) <= l.depth

\* The registers of an activation are f, and its frame is laid out as l.
Cfa(f, l) == f["sp"] + l.depth

\* The registers of its caller, as the stack m has them.
CallerOf(f, l, m) ==
    [bp |-> IF l.saved = 0 THEN f["bp"] ELSE m[Cfa(f, l) - l.saved],
     sp |-> Cfa(f, l),
     pc |-> m[Cfa(f, l) - Given(l.fn)]]

\* A frame that is well formed.
Sits(f, l, m, k) ==
    /\ f \in [Registers -> Int] /\ IsFrame(l)
    /\ f["pc"] = k.addr /\ k.addr > StackSize
    /\ f["sp"] \in 1 .. StackSize
    /\ l.base # 0 => f["bp"] = Cfa(f, l) - l.base
    /\ l.fn = Handler => m[Cfa(f, l) - 1] = Cfa(f, l)

\* How an activation with layout l was entered from k.
Entered(l, k) ==
    IF l.fn = Handler THEN ~k.after_call /\ k.addr \in Interruptible
    ELSE k.after_call /\ k.addr - 1 \in DOMAIN Code /\ Code[k.addr - 1] = <<"call", l.fn>>

IsLast(f, l, m) ==
    l.fn = Entry /\ Cfa(f, l) = StackSize + 1 /\ CallerOf(f, l, m)["pc"] = 0

Activations == [addr : Int, after_call : BOOLEAN]

Chain(layout, F, K, m) ==
    /\ K \in Seq(Activations) /\ F \in Seq([Registers -> Int])
    /\ Len(K) > 0 /\ Len(F) = Len(K)
    /\ \A i \in 1 .. Len(K) : Sits(F[i], LayoutAt(layout, K[i]), m, K[i])
    /\ \A i \in 1 .. Len(K) - 1 :
          /\ F[i + 1] = CallerOf(F[i], LayoutAt(layout, K[i]), m)
          /\ Entered(LayoutAt(layout, K[i]), K[i + 1])
    /\ IsLast(F[Len(K)], LayoutAt(layout, K[Len(K)]), m)
    /\ \A i, j \in 1 .. Len(K) : i < j => F[i]["sp"] < F[j]["sp"]

(***************************************************************************)
(* Induction over the numbers up to n, for a set of them.                  *)
(***************************************************************************)
LEMMA LeastNumber ==
    ASSUME NEW T \in SUBSET Nat, T # {}
    PROVE  \E x \in T : \A y \in T : x <= y
  <1> DEFINE lt == OpToRel(<, Nat)
  <1>1. PICK x \in T : \A y \in T : ~(<<y, x>> \in lt)
    BY WFMin, NatLessThanWellFounded, Zenon
  <1>2. \A y \in T : ~(y < x)
    BY <1>1 DEF OpToRel
  <1> QED
    BY <1>2

\* The highest of the first n numbers that are in a set.
LEMMA HighestNumber ==
    ASSUME NEW n \in Nat, NEW T, T \subseteq 1 .. n, T # {}
    PROVE  \E x \in T : \A y \in T : y <= x
  <1> DEFINE U == {n - x : x \in T}
  <1>1. \A x \in T : x \in Nat /\ n - x \in Nat /\ n - x \in U
    <2> SUFFICES ASSUME NEW x \in T PROVE x \in Nat /\ n - x \in Nat
      OBVIOUS
    <2>1. x \in 1 .. n
      OBVIOUS
    <2> QED
      BY <2>1
  <1>2. U \in SUBSET Nat /\ U # {}
    BY <1>1
  <1>3. PICK u \in U : \A v \in U : u <= v
    BY <1>2, LeastNumber, Zenon
  <1>4. PICK x \in T : u = n - x
    OBVIOUS
  <1>5. ASSUME NEW y \in T PROVE y <= x
    <2>1. n - x <= n - y
      BY <1>1, <1>3, <1>4
    <2> QED
      BY <1>1, <2>1
  <1> QED
    BY <1>5

\* A set with 0 that has k whenever it has k - 1 has all of 0 .. n.
LEMMA UpTo ==
    ASSUME NEW n \in Nat, NEW T, 0 \in T,
           \A k \in 1 .. n : k - 1 \in T => k \in T
    PROVE  0 .. n \subseteq T
  <1> DEFINE U == {k \in 0 .. n : k \notin T}
  <1> SUFFICES ASSUME U # {} PROVE FALSE
    OBVIOUS
  <1>1. U \in SUBSET Nat
    OBVIOUS
  <1>2. PICK k \in U : \A y \in U : k <= y
    BY <1>1, LeastNumber, Zenon
  <1>3. k \in 0 .. n /\ k \notin T /\ k # 0
    BY <1>2
  <1>4. k \in 1 .. n /\ k - 1 \in 0 .. n /\ ~(k <= k - 1)
    BY <1>3
  <1>5. k - 1 \in T
    BY <1>2, <1>4
  <1> QED
    BY <1>3, <1>4, <1>5

-----------------------------------------------------------------------------
(***************************************************************************)
(* The rows of an FDE are well defined, and dwarf_exec makes them.         *)
(***************************************************************************)
RowAfter(fde, g, k) ==
    IF k = 0 THEN FirstRow(fde) ELSE Executed(g[k - 1], Program(fde)[k])

IsRun(fde, g, n) == \A k \in 0 .. n : g[k] = RowAfter(fde, g, k)

LEMMA RunExists ==
    ASSUME NEW fde, NEW n \in Nat
    PROVE  \E g : IsRun(fde, g, n)
  <1> DEFINE T == {v \in Nat : \E g : IsRun(fde, g, v)}
  <1>1. 0 \in T
    <2> DEFINE g == [k \in 0 .. 0 |-> FirstRow(fde)]
    <2>1. \A k \in 0 .. 0 : k = 0
      OBVIOUS
    <2>2. \A k \in 0 .. 0 : g[k] = FirstRow(fde)
      BY Zenon
    <2>3. IsRun(fde, g, 0)
      BY <2>1, <2>2, Zenon DEF IsRun, RowAfter
    <2> QED
      BY <2>3
  <1>2. ASSUME NEW k \in 1 .. n, k - 1 \in T
        PROVE  k \in T
    <2>1. PICK g : IsRun(fde, g, k - 1)
      BY <1>2
    <2> DEFINE new == Executed(g[k - 1], Program(fde)[k])
               h   == [i \in 0 .. k |-> IF i = k THEN new ELSE g[i]]
    <2>2. /\ k \in Nat /\ k # 0 /\ k - 1 \in 0 .. k /\ k - 1 # k /\ k \in 0 .. k
          /\ \A i \in 0 .. k : i # k => i \in 0 .. k - 1
          /\ \A i \in 0 .. k : i # 0 => i - 1 \in 0 .. k /\ i - 1 # k
      OBVIOUS
    <2>3. /\ \A i \in 0 .. k : i # k => h[i] = g[i]
          /\ h[k] = new
      BY <2>2, Zenon
    <2> HIDE DEF h
    <2>4. ASSUME NEW i \in 0 .. k PROVE h[i] = RowAfter(fde, h, i)
      <3>1. CASE i = k
        <4>1. h[k - 1] = g[k - 1]
          BY <2>2, <2>3, Zenon
        <4> QED
          BY <2>2, <2>3, <3>1, <4>1, Zenon DEF RowAfter
      <3>2. CASE i # k
        <4>1. g[i] = RowAfter(fde, g, i) /\ h[i] = g[i]
          BY <2>1, <2>2, <2>3, <3>2, Zenon DEF IsRun
        <4>2. i # 0 => h[i - 1] = g[i - 1]
          BY <2>2, <2>3, Zenon
        <4> QED
          BY <4>1, <4>2, Zenon DEF RowAfter
      <3> QED
        BY <3>1, <3>2
    <2>5. IsRun(fde, h, k)
      BY <2>4, Zenon DEF IsRun
    <2> QED
      BY <2>2, <2>5
  <1> HIDE DEF T
  <1>3. n \in T
    <2>1. 0 .. n \subseteq T
      BY <1>1, <1>2, UpTo, Zenon
    <2> QED
      BY <2>1
  <1> QED
    BY <1>3 DEF T

LEMMA RowsAreRun ==
    ASSUME NEW fde, Len(Program(fde)) \in Nat
    PROVE  IsRun(fde, Rows(fde), Len(Program(fde)))
  <1> DEFINE n    == Len(Program(fde))
             G(g) == [k \in 0 .. n |-> IF k = 0 THEN FirstRow(fde)
                                       ELSE Executed(g[k - 1], Program(fde)[k])]
             c    == CHOOSE g : g = G(g)
  <1>1. Rows(fde) = c
    BY Zenon DEF Rows
  <1>2. PICK g : IsRun(fde, g, n)
    BY RunExists, Zenon
  <1> DEFINE h == [k \in 0 .. n |-> g[k]]
  <1>3. \A k \in 0 .. n : k # 0 => k - 1 \in 0 .. n
    OBVIOUS
  <1>4. ASSUME NEW k \in 0 .. n
        PROVE  (IF k = 0 THEN FirstRow(fde) ELSE Executed(h[k - 1], Program(fde)[k])) = g[k]
    <2>1. g[k] = RowAfter(fde, g, k)
      BY <1>2, Zenon DEF IsRun
    <2>2. k # 0 => h[k - 1] = g[k - 1]
      BY <1>3, Zenon
    <2> HIDE DEF h
    <2> QED
      BY <2>1, <2>2, Zenon DEF RowAfter
  <1>5. h = G(h)
    <2> DEFINE r(k) == IF k = 0 THEN FirstRow(fde) ELSE Executed(h[k - 1], Program(fde)[k])
    <2>1. \A k \in 0 .. n : r(k) = g[k]
      BY <1>4, Zenon
    <2> HIDE DEF r
    <2>2. [k \in 0 .. n |-> r(k)] = [k \in 0 .. n |-> g[k]]
      BY <2>1, Zenon
    <2> QED
      BY <2>2, Zenon DEF r
  <1>6. c = G(c)
    <2> HIDE DEF h, G
    <2> QED
      BY <1>5, Zenon
  <1> HIDE DEF c
  <1>7. \A k \in 0 .. n : c[k] = RowAfter(fde, c, k)
    BY <1>6, Zenon DEF RowAfter
  <1> QED
    BY <1>1, <1>7, Zenon DEF IsRun

-----------------------------------------------------------------------------
(***************************************************************************)
(* Frames, one by one.                                                     *)
(***************************************************************************)
LEMMA GivenIsSmall == \A fn : Given(fn) \in {1, 2}
  BY DEF Given

\* A frame that is well formed begins at its stack pointer and ends at the CFA.
Spans(f, l) ==
    /\ f["sp"] \in Int /\ f["bp"] \in Int /\ f["pc"] \in Int /\ f["sp"] > 0
    /\ l.depth \in Nat /\ l.saved \in Nat /\ l.base \in Nat /\ l.fn \in DOMAIN Code
    /\ Cfa(f, l) \in Int /\ Cfa(f, l) = f["sp"] + l.depth /\ f["sp"] < Cfa(f, l)
    /\ Cfa(f, l) - l.saved \in Int /\ Cfa(f, l) - l.saved >= f["sp"]
    /\ Cfa(f, l) - Given(l.fn) \in Int /\ Cfa(f, l) - Given(l.fn) >= f["sp"]
    /\ Cfa(f, l) - Given(l.fn) < Cfa(f, l)
    /\ l.saved # 0 => Cfa(f, l) - l.saved < Cfa(f, l)

LEMMA FrameSpans ==
    ASSUME NEW f, NEW l, NEW m, NEW k, Sits(f, l, m, k)
    PROVE  Spans(f, l)
  <1>1. f \in [Registers -> Int] /\ l \in Frames /\ l.saved <= l.depth /\ Given(l.fn) <= l.depth
    BY DEF Sits, IsFrame
  <1>2. f["sp"] \in Int /\ f["bp"] \in Int /\ f["pc"] \in Int
    BY <1>1 DEF Registers
  <1>3. l.depth \in Nat /\ l.saved \in Nat /\ l.base \in Nat /\ l.fn \in DOMAIN Code
    BY <1>1 DEF Frames
  <1>4. f["sp"] > 0
    BY CodeAssumption DEF Sits
  <1>5. Given(l.fn) \in {1, 2}
    BY GivenIsSmall
  <1>6. Cfa(f, l) = f["sp"] + l.depth
    BY DEF Cfa
  <1> HIDE DEF Cfa
  <1> QED
    BY <1>1, <1>2, <1>3, <1>4, <1>5, <1>6 DEF Spans

\* What a frame says with the stack m2 instead of m.
SaysTheSame(f, l, m, m2, k) ==
    Sits(f, l, m2, k) /\ CallerOf(f, l, m2) = CallerOf(f, l, m)

\* A frame reads nothing below its stack pointer.
LEMMA FrameIsKept ==
    ASSUME NEW f, NEW l, NEW m, NEW k, Sits(f, l, m, k), Cfa(f, l) <= StackSize + 1,
           NEW m2, NEW s \in Int, s <= f["sp"], \A x \in s .. StackSize : m2[x] = m[x]
    PROVE  SaysTheSame(f, l, m, m2, k)
  <1>1. Spans(f, l) /\ StackSize \in Nat
    BY FrameSpans, CodeAssumption
  <1>2. ASSUME NEW x \in Int, f["sp"] <= x, x < Cfa(f, l)
        PROVE  m2[x] = m[x]
    <2>1. x \in s .. StackSize
      BY <1>1, <1>2 DEF Spans
    <2> QED
      BY <2>1
  <1>3. m2[Cfa(f, l) - Given(l.fn)] = m[Cfa(f, l) - Given(l.fn)]
    BY <1>1, <1>2, Zenon DEF Spans
  <1>4. l.saved # 0 => m2[Cfa(f, l) - l.saved] = m[Cfa(f, l) - l.saved]
    BY <1>1, <1>2, Zenon DEF Spans
  <1>5. m2[Cfa(f, l) - 1] = m[Cfa(f, l) - 1]
    <2>1. Cfa(f, l) - 1 \in Int /\ f["sp"] <= Cfa(f, l) - 1 /\ Cfa(f, l) - 1 < Cfa(f, l)
      BY <1>1 DEF Spans
    <2> QED
      BY <1>2, <2>1, Zenon
  <1>6. CallerOf(f, l, m2) = CallerOf(f, l, m)
    BY <1>3, <1>4, Zenon DEF CallerOf
  <1>7. Sits(f, l, m2, k)
    BY <1>5, Zenon DEF Sits
  <1> QED
    BY <1>6, <1>7 DEF SaysTheSame

\* In a chain: the layouts, and that frames follow each other.
Follow(layout, F, K, i) ==
    LET l == LayoutAt(layout, K[i])
    IN  /\ Spans(F[i], l)
        /\ F[i]["sp"] \in 1 .. StackSize
        /\ Cfa(F[i], l) <= StackSize + 1
        /\ i < Len(K) => F[i + 1]["sp"] = Cfa(F[i], l)

LEMMA ChainFollows ==
    ASSUME NEW layout, NEW F, NEW K, NEW m, Chain(layout, F, K, m), NEW i \in 1 .. Len(K)
    PROVE  Follow(layout, F, K, i)
  <1> DEFINE l == LayoutAt(layout, K[i])
  <1>1. Sits(F[i], l, m, K[i])
    BY DEF Chain
  <1>2. Spans(F[i], l)
    BY <1>1, FrameSpans, Zenon
  <1>3. F[i]["sp"] \in 1 .. StackSize
    BY <1>1, Zenon DEF Sits
  <1>n. Len(K) \in Nat /\ StackSize \in Nat
    BY CodeAssumption DEF Chain
  <1>4. CASE i = Len(K)
    <2>1. Cfa(F[i], l) = StackSize + 1
      BY <1>4, Zenon DEF Chain, IsLast
    <2>2. Cfa(F[i], l) <= StackSize + 1 /\ ~(i < Len(K))
      BY <1>4, <1>n, <2>1
    <2> QED
      BY <1>2, <1>3, <2>2, Zenon DEF Follow
  <1>5. CASE i # Len(K)
    <2>1. i \in 1 .. Len(K) - 1 /\ i + 1 \in 1 .. Len(K)
      BY <1>5, <1>n
    <2>2. F[i + 1] = CallerOf(F[i], l, m)
      BY <2>1, Zenon DEF Chain
    <2>3. F[i + 1]["sp"] = Cfa(F[i], l)
      BY <2>2 DEF CallerOf
    <2>4. F[i + 1]["sp"] \in 1 .. StackSize
      BY <2>1, Zenon DEF Chain, Sits
    <2>5. Cfa(F[i], l) <= StackSize + 1
      BY <1>n, <2>3, <2>4
    <2> QED
      BY <1>2, <1>3, <2>3, <2>5, Zenon DEF Follow
  <1> QED
    BY <1>4, <1>5

-----------------------------------------------------------------------------
(***************************************************************************)
(* How chains change.                                                      *)
(***************************************************************************)

\* Two stacks have the same words from s on.
SameFrom(s, m, m2) == \A x \in s .. StackSize : m2[x] = m[x]

\* Frame i of a chain is the same with the stack m2.
KeptAt(layout, F, K, m, m2, i) ==
    SaysTheSame(F[i], LayoutAt(layout, K[i]), m, m2, K[i])

LEMMA ChainIsKept ==
    ASSUME NEW layout, NEW F, NEW K, NEW m, Chain(layout, F, K, m), NEW i \in 1 .. Len(K),
           NEW m2, NEW s \in Int, s <= F[i]["sp"], SameFrom(s, m, m2)
    PROVE  KeptAt(layout, F, K, m, m2, i)
  <1> DEFINE l == LayoutAt(layout, K[i])
  <1>1. Sits(F[i], l, m, K[i])
    BY DEF Chain
  <1>2. Cfa(F[i], l) <= StackSize + 1
    BY ChainFollows, Zenon DEF Follow
  <1> HIDE DEF l
  <1>3. SaysTheSame(F[i], l, m, m2, K[i])
    BY <1>1, <1>2, FrameIsKept, Zenon DEF SameFrom
  <1> QED
    BY <1>3, Zenon DEF KeptAt, l

\* The innermost activation goes on to k with registers f, in the same frame.
Moves(layout, f, k, m2, g, h, m) ==
    LET l  == LayoutAt(layout, h)
        l2 == LayoutAt(layout, k)
    IN  /\ k \in Activations /\ Sits(f, l2, m2, k)
        /\ l2.fn = l.fn /\ Cfa(f, l2) = Cfa(g, l)
        /\ CallerOf(f, l2, m2) = CallerOf(g, l, m)
        /\ SameFrom(Cfa(g, l), m, m2)

LEMMA HeadMoves ==
    ASSUME NEW layout, NEW F, NEW K, NEW m, Chain(layout, F, K, m),
           NEW f, NEW k, NEW m2, Moves(layout, f, k, m2, F[1], K[1], m)
    PROVE  Chain(layout, [F EXCEPT ![1] = f], [K EXCEPT ![1] = k], m2)
  <1> DEFINE n  == Len(K)
             F2 == [F EXCEPT ![1] = f]
             K2 == [K EXCEPT ![1] = k]
             L(i)  == LayoutAt(layout, K[i])
             L2(i) == LayoutAt(layout, K2[i])
  <1>1. /\ n \in Nat /\ 1 \in 1 .. n
        /\ \A i \in 1 .. n - 1 : i \in 1 .. n /\ i + 1 \in 1 .. n
        /\ \A i \in 1 .. n : i # 1 => 1 < i
        /\ n \in 1 .. n
    BY DEF Chain
  <1>2. /\ K \in Seq(Activations) /\ F \in Seq([Registers -> Int]) /\ Len(F) = n /\ n > 0
    BY DEF Chain
  <1>3. k \in Activations /\ f \in [Registers -> Int]
    BY DEF Moves, Sits
  <1>4. /\ K2 \in Seq(Activations) /\ F2 \in Seq([Registers -> Int])
        /\ Len(K2) = n /\ Len(F2) = n
        /\ K2[1] = k /\ F2[1] = f
        /\ \A i \in 1 .. n : i # 1 => K2[i] = K[i] /\ F2[i] = F[i]
    BY <1>1, <1>2, <1>3
  <1> HIDE DEF F2, K2, n
  <1>5. /\ Sits(f, L2(1), m2, k) /\ L2(1).fn = L(1).fn /\ Cfa(f, L2(1)) = Cfa(F[1], L(1))
        /\ CallerOf(f, L2(1), m2) = CallerOf(F[1], L(1), m)
        /\ SameFrom(Cfa(F[1], L(1)), m, m2)
    BY <1>4, Zenon DEF Moves
  <1>6. ASSUME NEW i \in 1 .. n, i # 1
        PROVE  KeptAt(layout, F, K, m, m2, i)
    <2>1. 2 \in 1 .. n /\ 1 \in 1 .. n /\ 1 < n /\ 1 + 1 = 2 /\ (2 < i \/ 2 = i)
      BY <1>1, <1>6
    <2>2. F[2]["sp"] = Cfa(F[1], L(1)) /\ F[2]["sp"] \in 1 .. StackSize
      <3>1. Follow(layout, F, K, 1) /\ Follow(layout, F, K, 2)
        BY <2>1, ChainFollows, Zenon DEF n
      <3> QED
        BY <2>1, <3>1, Zenon DEF Follow, n
    <2>3. F[i]["sp"] \in 1 .. StackSize
      <3>1. Follow(layout, F, K, i)
        BY ChainFollows, Zenon DEF n
      <3> QED
        BY <3>1, Zenon DEF Follow
    <2>4. 2 < i => F[2]["sp"] < F[i]["sp"]
      BY <2>1, Zenon DEF Chain, n
    <2>5. F[2]["sp"] \in Int /\ F[2]["sp"] <= F[i]["sp"]
      BY <2>1, <2>2, <2>3, <2>4, CodeAssumption
    <2> QED
      BY <1>5, <2>2, <2>5, ChainIsKept, Zenon DEF n
  <1>7. ASSUME NEW i \in 1 .. n PROVE Sits(F2[i], L2(i), m2, K2[i])
    <2>1. CASE i = 1
      BY <1>4, <1>5, <2>1, Zenon
    <2>2. CASE i # 1
      <3>1. KeptAt(layout, F, K, m, m2, i)
        BY <1>6, <2>2, Zenon
      <3> QED
        BY <1>4, <2>2, <3>1, Zenon DEF KeptAt, SaysTheSame
    <2> QED
      BY <2>1, <2>2
  <1>8. ASSUME NEW i \in 1 .. n PROVE CallerOf(F2[i], L2(i), m2) = CallerOf(F[i], L(i), m)
    <2>1. CASE i = 1
      BY <1>4, <1>5, <2>1, Zenon
    <2>2. CASE i # 1
      <3>1. KeptAt(layout, F, K, m, m2, i)
        BY <1>6, <2>2, Zenon
      <3> QED
        BY <1>4, <2>2, <3>1, Zenon DEF KeptAt, SaysTheSame
    <2> QED
      BY <2>1, <2>2
  <1>9. ASSUME NEW i \in 1 .. n PROVE L2(i).fn = L(i).fn /\ Cfa(F2[i], L2(i)) = Cfa(F[i], L(i))
    BY <1>4, <1>5, Zenon
  <1>10. ASSUME NEW i \in 1 .. n - 1
         PROVE  F2[i + 1] = CallerOf(F2[i], L2(i), m2) /\ Entered(L2(i), K2[i + 1])
    <2>1. i \in 1 .. n /\ i + 1 \in 1 .. n /\ i + 1 # 1
      BY <1>1
    <2>2. F[i + 1] = CallerOf(F[i], L(i), m) /\ Entered(L(i), K[i + 1])
      BY Zenon DEF Chain, n
    <2>3. F2[i + 1] = F[i + 1] /\ K2[i + 1] = K[i + 1]
      BY <1>4, <2>1, Zenon
    <2> QED
      BY <1>8, <1>9, <2>1, <2>2, <2>3, Zenon DEF Entered
  <1>11. IsLast(F2[n], L2(n), m2)
    <2>1. IsLast(F[n], L(n), m)
      BY Zenon DEF Chain, n
    <2>2. CallerOf(F2[n], L2(n), m2) = CallerOf(F[n], L(n), m)
      BY <1>1, <1>8, Zenon
    <2>3. L2(n).fn = L(n).fn /\ Cfa(F2[n], L2(n)) = Cfa(F[n], L(n))
      BY <1>1, <1>9, Zenon
    <2> HIDE DEF L, L2
    <2>4. L(n).fn = Entry /\ Cfa(F[n], L(n)) = StackSize + 1 /\ CallerOf(F[n], L(n), m)["pc"] = 0
      BY <2>1, Zenon DEF IsLast
    <2>5. CallerOf(F2[n], L2(n), m2)["pc"] = 0
      BY <2>2, <2>4, Zenon
    <2> QED
      BY <2>3, <2>4, <2>5, Zenon DEF IsLast
  <1>12. ASSUME NEW i \in 1 .. n, NEW j \in 1 .. n, i < j
         PROVE  F2[i]["sp"] < F2[j]["sp"]
    <2>1. j # 1 /\ F2[j] = F[j]
      BY <1>1, <1>4, <1>12
    <2>2. CASE i # 1
      BY <1>4, <1>12, <2>1, <2>2, Zenon DEF Chain, n
    <2>3. CASE i = 1
      <3>1. 2 \in 1 .. n /\ 1 < n /\ 1 + 1 = 2 /\ (2 < j \/ 2 = j)
        BY <1>1, <1>12, <2>3
      <3>2. F[2]["sp"] = Cfa(F[1], L(1)) /\ F[2]["sp"] \in 1 .. StackSize
        <4>1. Follow(layout, F, K, 1) /\ Follow(layout, F, K, 2)
          BY <1>1, <3>1, ChainFollows, Zenon DEF n
        <4> QED
          BY <3>1, <4>1, Zenon DEF Follow, n
      <3>3. F[j]["sp"] \in 1 .. StackSize
        <4>1. Follow(layout, F, K, j)
          BY ChainFollows, Zenon DEF n
        <4> QED
          BY <4>1, Zenon DEF Follow
      <3>4. 2 < j => F[2]["sp"] < F[j]["sp"]
        BY <3>1, Zenon DEF Chain, n
      <3>5. f["sp"] \in Int /\ f["sp"] < Cfa(f, L2(1))
        <4>1. Spans(f, L2(1))
          BY <1>5, FrameSpans, Zenon
        <4> QED
          BY <4>1, Zenon DEF Spans
      <3>6. f["sp"] < F[2]["sp"]
        BY <1>5, <3>2, <3>5, Zenon
      <3>7. f["sp"] < F[j]["sp"]
        BY <3>1, <3>2, <3>3, <3>4, <3>5, <3>6, CodeAssumption
      <3> QED
        BY <1>4, <2>1, <2>3, <3>7, Zenon
    <2> QED
      BY <2>2, <2>3
  <1> QED
    BY <1>2, <1>4, <1>7, <1>10, <1>11, <1>12, Zenon DEF Chain, F2, K2

\* A sequence with one more in front.
Longer(x, s, t) ==
    /\ Len(t) = Len(s) + 1
    /\ t[1] = x
    /\ \A i \in 1 .. Len(s) : t[i + 1] = s[i]

LEMMA ConsFacts ==
    ASSUME NEW S, NEW s \in Seq(S), NEW x \in S
    PROVE  <<x>> \o s \in Seq(S) /\ Longer(x, s, <<x>> \o s)
  BY DEF Longer

\* A new activation k, with registers f, whose caller is the head h with g.
Enters(layout, f, k, m2, g, h, m) ==
    LET l2 == LayoutAt(layout, k)
    IN  /\ k \in Activations /\ Sits(f, l2, m2, k)
        /\ CallerOf(f, l2, m2) = g /\ Entered(l2, h)
        /\ f["sp"] < g["sp"]
        /\ SameFrom(g["sp"], m, m2)

LEMMA FramePushed ==
    ASSUME NEW layout, NEW F, NEW K, NEW m, Chain(layout, F, K, m),
           NEW f, NEW k, NEW m2, Enters(layout, f, k, m2, F[1], K[1], m)
    PROVE  Chain(layout, <<f>> \o F, <<k>> \o K, m2)
  <1> DEFINE n  == Len(K)
             F2 == <<f>> \o F
             K2 == <<k>> \o K
             L(i)  == LayoutAt(layout, K[i])
             L2(i) == LayoutAt(layout, K2[i])
  <1>1. /\ n \in Nat /\ n > 0 /\ 1 \in 1 .. n /\ n \in 1 .. n
        /\ K \in Seq(Activations) /\ F \in Seq([Registers -> Int]) /\ Len(F) = n
    BY DEF Chain
  <1>2. k \in Activations /\ f \in [Registers -> Int]
    BY DEF Enters, Sits
  <1>3. /\ K2 \in Seq(Activations) /\ F2 \in Seq([Registers -> Int])
        /\ Longer(k, K, K2) /\ Longer(f, F, F2)
    BY <1>1, <1>2, ConsFacts, Zenon
  <1> HIDE DEF F2, K2
  <1>4. /\ Len(K2) = n + 1 /\ Len(F2) = n + 1 /\ K2[1] = k /\ F2[1] = f
        /\ \A i \in 1 .. n : K2[i + 1] = K[i] /\ F2[i + 1] = F[i]
    BY <1>1, <1>3, Zenon DEF Longer
  <1> HIDE DEF n
  <1>5. ASSUME NEW i \in 1 .. n + 1, i # 1
        PROVE  \E j \in 1 .. n : i = j + 1 /\ K2[i] = K[j] /\ F2[i] = F[j]
    <2>1. i - 1 \in 1 .. n /\ i = (i - 1) + 1
      BY <1>1, <1>5
    <2> QED
      BY <1>4, <2>1
  <1>6. /\ Sits(f, L2(1), m2, k) /\ CallerOf(f, L2(1), m2) = F[1] /\ Entered(L2(1), K[1])
        /\ f["sp"] < F[1]["sp"] /\ SameFrom(F[1]["sp"], m, m2)
    BY <1>4, Zenon DEF Enters
  <1>7. ASSUME NEW i \in 1 .. n
        PROVE  /\ F[1]["sp"] \in Int /\ F[i]["sp"] \in Int /\ F[1]["sp"] <= F[i]["sp"]
               /\ KeptAt(layout, F, K, m, m2, i)
    <2>1. Follow(layout, F, K, i) /\ Follow(layout, F, K, 1)
      BY <1>1, ChainFollows, Zenon DEF n
    <2>2. F[i]["sp"] \in 1 .. StackSize /\ F[1]["sp"] \in 1 .. StackSize
      BY <2>1, Zenon DEF Follow
    <2>3. 1 < i => F[1]["sp"] < F[i]["sp"]
      BY <1>1, Zenon DEF Chain, n
    <2>4. i = 1 \/ 1 < i
      OBVIOUS
    <2>5. F[1]["sp"] \in Int /\ F[i]["sp"] \in Int /\ F[1]["sp"] <= F[i]["sp"]
      BY <2>2, <2>3, <2>4
    <2> QED
      BY <1>6, <2>5, ChainIsKept, Zenon DEF n
  <1>8. ASSUME NEW i \in 1 .. n
        PROVE  /\ Sits(F[i], L(i), m2, K[i])
               /\ CallerOf(F[i], L(i), m2) = CallerOf(F[i], L(i), m)
    BY <1>7, Zenon DEF KeptAt, SaysTheSame
  <1>9. ASSUME NEW i \in 1 .. n + 1 PROVE Sits(F2[i], L2(i), m2, K2[i])
    <2>1. CASE i = 1
      BY <1>4, <1>6, <2>1, Zenon
    <2>2. CASE i # 1
      BY <1>5, <1>8, <2>2, Zenon
    <2> QED
      BY <2>1, <2>2
  <1>10. ASSUME NEW i \in 1 .. n
         PROVE  F2[i + 1] = CallerOf(F2[i], L2(i), m2) /\ Entered(L2(i), K2[i + 1])
    <2>1. F2[i + 1] = F[i] /\ K2[i + 1] = K[i]
      BY <1>4
    <2>2. CASE i = 1
      BY <1>4, <1>6, <2>1, <2>2, Zenon
    <2>3. CASE i # 1
      <3>1. PICK j \in 1 .. n : i = j + 1 /\ K2[i] = K[j] /\ F2[i] = F[j]
        <4>1. i \in 1 .. n + 1
          BY <1>1
        <4> QED
          BY <1>5, <2>3, <4>1, Zenon
      <3>2. j \in 1 .. n - 1
        BY <1>1, <3>1
      <3>3. F[j + 1] = CallerOf(F[j], L(j), m) /\ Entered(L(j), K[j + 1])
        BY <3>2, Zenon DEF Chain, n
      <3> QED
        BY <1>8, <2>1, <3>1, <3>3, Zenon
    <2> QED
      BY <2>2, <2>3
  <1>11. IsLast(F2[n + 1], L2(n + 1), m2)
    <2>1. IsLast(F[n], L(n), m)
      BY Zenon DEF Chain, n
    <2>2. F2[n + 1] = F[n] /\ L2(n + 1) = L(n)
      BY <1>1, <1>4, Zenon
    <2>3. CallerOf(F[n], L(n), m2) = CallerOf(F[n], L(n), m)
      BY <1>1, <1>8, Zenon
    <2> HIDE DEF L, L2
    <2>4. CallerOf(F[n], L(n), m2)["pc"] = 0 /\ L(n).fn = Entry /\ Cfa(F[n], L(n)) = StackSize + 1
      BY <2>1, <2>3, Zenon DEF IsLast
    <2> QED
      BY <2>2, <2>4, Zenon DEF IsLast
  <1>12. ASSUME NEW i \in 1 .. n + 1, NEW j \in 1 .. n + 1, i < j
         PROVE  F2[i]["sp"] < F2[j]["sp"]
    <2>1. j # 1
      BY <1>1, <1>12
    <2>2. PICK b \in 1 .. n : j = b + 1 /\ F2[j] = F[b]
      BY <1>5, <2>1, Zenon
    <2>3. CASE i = 1
      <3>1. f["sp"] \in Int
        <4>1. Spans(f, L2(1))
          BY <1>6, FrameSpans, Zenon
        <4> QED
          BY <4>1, Zenon DEF Spans
      <3>2. f["sp"] < F[b]["sp"]
        BY <1>6, <1>7, <3>1
      <3> QED
        BY <1>4, <2>2, <2>3, <3>2, Zenon
    <2>4. CASE i # 1
      <3>1. PICK a \in 1 .. n : i = a + 1 /\ F2[i] = F[a]
        BY <1>5, <2>4, Zenon
      <3>2. a < b
        BY <1>12, <2>2, <3>1
      <3> QED
        BY <2>2, <3>1, <3>2, Zenon DEF Chain, n
    <2> QED
      BY <2>3, <2>4
  <1>13. Len(K2) = n + 1 /\ Len(F2) = Len(K2) /\ Len(K2) > 0 /\ Len(K2) - 1 = n
    BY <1>1, <1>4
  <1>14. /\ \A i \in 1 .. Len(K2) - 1 :
               F2[i + 1] = CallerOf(F2[i], L2(i), m2) /\ Entered(L2(i), K2[i + 1])
         /\ IsLast(F2[Len(K2)], L2(Len(K2)), m2)
    <2> HIDE DEF L2
    <2> QED
      BY <1>10, <1>11, <1>13, Zenon
  <1>15. Chain(layout, F2, K2, m2)
    BY <1>3, <1>9, <1>12, <1>13, <1>14, Zenon DEF Chain
  <1> QED
    BY <1>15, Zenon DEF F2, K2

LEMMA FramePopped ==
    ASSUME NEW layout, NEW F, NEW K, NEW m, Chain(layout, F, K, m), Len(K) # 1,
           NEW m2, SameFrom(F[2]["sp"], m, m2)
    PROVE  Chain(layout, Tail(F), Tail(K), m2)
  <1> DEFINE n  == Len(K) - 1
             F2 == Tail(F)
             K2 == Tail(K)
             L(i)  == LayoutAt(layout, K[i])
             L2(i) == LayoutAt(layout, K2[i])
  <1>1. /\ Len(K) \in Nat /\ Len(K) > 0
        /\ K \in Seq(Activations) /\ F \in Seq([Registers -> Int]) /\ Len(F) = Len(K)
    BY DEF Chain
  <1>2. /\ n \in Nat /\ n > 0 /\ Len(K) = n + 1
        /\ \A i \in 1 .. n : i + 1 \in 1 .. Len(K)
    BY <1>1
  <1>3. /\ K2 \in Seq(Activations) /\ F2 \in Seq([Registers -> Int])
        /\ Len(K2) = n /\ Len(F2) = n
        /\ \A i \in 1 .. n : K2[i] = K[i + 1] /\ F2[i] = F[i + 1]
    BY <1>1, <1>2
  <1> HIDE DEF F2, K2, n
  <1>4. ASSUME NEW i \in 1 .. n
        PROVE  KeptAt(layout, F, K, m, m2, i + 1)
    <2>1. 2 \in 1 .. Len(K) /\ i + 1 \in 1 .. Len(K) /\ (2 < i + 1 \/ i + 1 = 2)
      BY <1>2
    <2>2. Follow(layout, F, K, i + 1) /\ Follow(layout, F, K, 2)
      BY <2>1, ChainFollows, Zenon
    <2>3. F[i + 1]["sp"] \in 1 .. StackSize /\ F[2]["sp"] \in 1 .. StackSize
      BY <2>2, Zenon DEF Follow
    <2>4. 2 < i + 1 => F[2]["sp"] < F[i + 1]["sp"]
      BY <2>1, Zenon DEF Chain
    <2>5. F[2]["sp"] \in Int /\ F[2]["sp"] <= F[i + 1]["sp"]
      BY <2>1, <2>3, <2>4
    <2> QED
      BY <2>1, <2>5, ChainIsKept, Zenon
  <1>5. ASSUME NEW i \in 1 .. n
        PROVE  /\ Sits(F2[i], L2(i), m2, K2[i])
               /\ CallerOf(F2[i], L2(i), m2) = CallerOf(F[i + 1], L(i + 1), m)
    BY <1>3, <1>4, Zenon DEF KeptAt, SaysTheSame
  <1>6. ASSUME NEW i \in 1 .. n - 1
        PROVE  F2[i + 1] = CallerOf(F2[i], L2(i), m2) /\ Entered(L2(i), K2[i + 1])
    <2>1. i \in 1 .. n /\ i + 1 \in 1 .. n /\ i + 1 \in 1 .. Len(K) - 1
      BY <1>2
    <2>2. F[i + 1 + 1] = CallerOf(F[i + 1], L(i + 1), m) /\ Entered(L(i + 1), K[i + 1 + 1])
      BY <2>1, Zenon DEF Chain
    <2> QED
      BY <1>3, <1>5, <2>1, <2>2, Zenon
  <1>7. IsLast(F2[n], L2(n), m2)
    <2>1. IsLast(F[n + 1], L(n + 1), m)
      BY <1>2, Zenon DEF Chain
    <2>2. n \in 1 .. n
      BY <1>2
    <2>3. F2[n] = F[n + 1] /\ L2(n) = L(n + 1)
      BY <1>3, <2>2, Zenon
    <2>4. CallerOf(F2[n], L2(n), m2) = CallerOf(F[n + 1], L(n + 1), m)
      BY <1>5, <2>2, Zenon
    <2> HIDE DEF L, L2
    <2> QED
      BY <2>1, <2>3, <2>4, Zenon DEF IsLast
  <1>8. ASSUME NEW i \in 1 .. n, NEW j \in 1 .. n, i < j
        PROVE  F2[i]["sp"] < F2[j]["sp"]
    <2>1. i + 1 \in 1 .. Len(K) /\ j + 1 \in 1 .. Len(K) /\ i + 1 < j + 1
      BY <1>2, <1>8
    <2>2. F[i + 1]["sp"] < F[j + 1]["sp"]
      BY <2>1, Zenon DEF Chain
    <2> QED
      BY <1>3, <2>2, Zenon
  <1>9. Chain(layout, F2, K2, m2)
    BY <1>2, <1>3, <1>5, <1>6, <1>7, <1>8, Zenon DEF Chain
  <1> QED
    BY <1>9, Zenon DEF F2, K2

-----------------------------------------------------------------------------
(***************************************************************************)
(* The machine: registers r, stack m, and activations c that wait.         *)
(***************************************************************************)
Good(layout, r, m, c) ==
    /\ r \in [Registers -> Int] /\ r["pc"] \in DOMAIN Code
    /\ m \in [1 .. StackSize -> Int]
    /\ c \in Seq(Activations)
    /\ \E F : F[1] = r /\ Chain(layout, F, KnownOf(r, c), m)

LEMMA CodeFacts ==
    /\ StackSize \in Nat /\ StackSize > 0
    /\ \A a \in DOMAIN Code : a \in Nat /\ a > StackSize
    /\ Interruptible \subseteq DOMAIN Code
  BY CodeAssumption

\* What Known holds.
KnownHas(r, c, K) ==
    /\ K \in Seq(Activations) /\ Len(K) = Len(c) + 1 /\ Len(c) \in Nat
    /\ K[1] = Frame(r["pc"], FALSE)
    /\ \A i \in 1 .. Len(c) : K[i + 1] = c[i]
    /\ Tail(K) = c
    /\ \A k : [K EXCEPT ![1] = k] = <<k>> \o c

LEMMA KnownFacts ==
    ASSUME NEW r \in [Registers -> Int], NEW c \in Seq(Activations)
    PROVE  KnownHas(r, c, KnownOf(r, c))
  <1> DEFINE h == Frame(r["pc"], FALSE)
             K == KnownOf(r, c)
  <1>1. h \in Activations
    BY DEF Frame, Activations, Registers
  <1> HIDE DEF h
  <1>2. K = <<h>> \o c
    BY Zenon DEF KnownOf, h
  <1> HIDE DEF K
  <1>3. /\ K \in Seq(Activations) /\ Len(K) = Len(c) + 1 /\ Len(c) \in Nat
        /\ K[1] = h
        /\ \A i \in 1 .. Len(c) : K[i + 1] = c[i]
    BY <1>1, <1>2
  <1>4. Tail(K) = c
    <2>1. Len(Tail(K)) = Len(c) /\ Tail(K) \in Seq(Activations)
      BY <1>3
    <2>2. \A i \in 1 .. Len(c) : Tail(K)[i] = c[i]
      BY <1>3
    <2> QED
      BY <2>1, <2>2
  <1>5. ASSUME NEW k PROVE [K EXCEPT ![1] = k] = <<k>> \o c
    <2> DEFINE S  == Activations \cup {k}
               K2 == [K EXCEPT ![1] = k]
               K3 == <<k>> \o c
    <2>1. c \in Seq(S) /\ K \in Seq(S) /\ k \in S
      BY <1>3
    <2> HIDE DEF S
    <2>2. /\ K2 \in Seq(S) /\ Len(K2) = Len(c) + 1 /\ K2[1] = k
          /\ \A i \in 1 .. Len(c) : K2[i + 1] = c[i]
      BY <1>3, <2>1
    <2>3. /\ K3 \in Seq(S) /\ Len(K3) = Len(c) + 1 /\ K3[1] = k
          /\ \A i \in 1 .. Len(c) : K3[i + 1] = c[i]
      BY <1>3, <2>1
    <2> HIDE DEF K2, K3
    <2>4. ASSUME NEW i \in 1 .. Len(c) + 1 PROVE K2[i] = K3[i]
      <3>1. CASE i = 1
        BY <2>2, <2>3, <3>1, Zenon
      <3>2. CASE i # 1
        <4>1. i - 1 \in 1 .. Len(c) /\ (i - 1) + 1 = i
          BY <1>3, <3>2
        <4> QED
          BY <2>2, <2>3, <4>1
      <3> QED
        BY <3>1, <3>2
    <2>5. K2 = K3
      BY <2>2, <2>3, <2>4
    <2> QED
      BY <2>5, Zenon DEF K2, K3
  <1> QED
    BY <1>3, <1>4, <1>5, Zenon DEF KnownHas, K, h

\* What the chain says of the innermost activation.
HeadIs(layout, r, m, c) ==
    LET l == layout[r["pc"]]
    IN  /\ Sits(r, l, m, Frame(r["pc"], FALSE))
        /\ Spans(r, l) /\ IsFrame(l)
        /\ r["sp"] \in 1 .. StackSize /\ Cfa(r, l) <= StackSize + 1
        /\ l.fn # Entry => c # <<>>
        /\ c # <<>> => /\ 1 \in 1 .. Len(c)
                       /\ Entered(l, c[1])
                       /\ CallerOf(r, l, m)["pc"] = c[1].addr
                       /\ Cfa(r, l) <= StackSize

LEMMA HeadLayout ==
    ASSUME NEW layout, NEW a
    PROVE  LayoutAt(layout, Frame(a, FALSE)) = layout[a]
  BY DEF LayoutAt, Frame

LEMMA HeadFacts ==
    ASSUME NEW layout, NEW r, NEW m, NEW c, Good(layout, r, m, c)
    PROVE  HeadIs(layout, r, m, c)
  <1> DEFINE K == KnownOf(r, c)
             l == layout[r["pc"]]
  <1>1. PICK F : F[1] = r /\ Chain(layout, F, K, m)
    BY DEF Good
  <1>2. KnownHas(r, c, K)
    BY KnownFacts, Zenon DEF Good
  <1> HIDE DEF K
  <1>3. /\ Len(c) \in Nat /\ Len(K) = Len(c) + 1 /\ K[1] = Frame(r["pc"], FALSE)
        /\ \A i \in 1 .. Len(c) : K[i + 1] = c[i]
    BY <1>2, Zenon DEF KnownHas
  <1>4. LayoutAt(layout, K[1]) = l
    BY <1>3, HeadLayout, Zenon
  <1> HIDE DEF l
  <1>5. 1 \in 1 .. Len(K) /\ (c # <<>> => 1 \in 1 .. Len(c))
    <2>1. c \in Seq(Activations)
      BY DEF Good
    <2> QED
      BY <1>3, <2>1
  <1>6. Sits(r, l, m, Frame(r["pc"], FALSE))
    BY <1>1, <1>3, <1>4, <1>5, Zenon DEF Chain
  <1>7. Spans(r, l) /\ IsFrame(l) /\ r["sp"] \in 1 .. StackSize /\ Cfa(r, l) <= StackSize + 1
    <2>1. Follow(layout, F, K, 1)
      BY <1>1, <1>5, ChainFollows, Zenon
    <2> QED
      BY <1>1, <1>4, <1>6, <2>1, Zenon DEF Follow, Sits
  <1>8. l.fn # Entry => c # <<>>
    <2> SUFFICES ASSUME c = <<>> PROVE l.fn = Entry
      OBVIOUS
    <2>1. Len(K) = 1
      BY <1>3
    <2> QED
      BY <1>1, <1>4, <2>1, Zenon DEF Chain, IsLast
  <1>9. ASSUME c # <<>>
        PROVE  Entered(l, c[1]) /\ CallerOf(r, l, m)["pc"] = c[1].addr /\ Cfa(r, l) <= StackSize
    <2>1. 1 \in 1 .. Len(c) /\ 1 \in 1 .. Len(K) - 1 /\ 1 + 1 = 2 /\ 2 \in 1 .. Len(K) /\ 1 < Len(K)
      BY <1>3, <1>5, <1>9
    <2>2. K[2] = c[1]
      BY <1>3, <2>1
    <2>3. F[2] = CallerOf(r, l, m) /\ Entered(l, c[1])
      BY <1>1, <1>4, <2>1, <2>2, Zenon DEF Chain
    <2>4. F[2]["pc"] = c[1].addr
      BY <1>1, <2>1, <2>2, Zenon DEF Chain, Sits
    <2>5. F[2]["sp"] \in 1 .. StackSize /\ F[2]["sp"] = Cfa(r, l)
      <3>1. Follow(layout, F, K, 1) /\ Follow(layout, F, K, 2)
        BY <1>1, <1>5, <2>1, ChainFollows, Zenon
      <3> QED
        BY <1>1, <1>4, <2>1, <3>1, Zenon DEF Follow
    <2>6. Cfa(r, l) <= StackSize
      BY <2>5, CodeFacts
    <2> QED
      BY <2>3, <2>4, <2>6, Zenon
  <1> QED
    BY <1>5, <1>6, <1>7, <1>8, <1>9, Zenon DEF HeadIs, l

(***************************************************************************)
(* The machine goes on in the same frame, enters a new one, or returns.    *)
(***************************************************************************)
StaysInFrame(layout, r, m, r2, m2) ==
    LET l  == layout[r["pc"]]
        l2 == layout[r2["pc"]]
    IN  /\ r2["pc"] \in DOMAIN Code /\ m2 \in [1 .. StackSize -> Int]
        /\ Sits(r2, l2, m2, Frame(r2["pc"], FALSE))
        /\ l2.fn = l.fn /\ Cfa(r2, l2) = Cfa(r, l)
        /\ CallerOf(r2, l2, m2) = CallerOf(r, l, m)
        /\ SameFrom(Cfa(r, l), m, m2)

LEMMA FirstExcept ==
    ASSUME NEW S, NEW F \in Seq(S), Len(F) > 0, NEW f
    PROVE  [F EXCEPT ![1] = f][1] = f
  OBVIOUS

LEMMA GoesOn ==
    ASSUME NEW layout, NEW r, NEW m, NEW c, Good(layout, r, m, c),
           NEW r2, NEW m2, StaysInFrame(layout, r, m, r2, m2)
    PROVE  Good(layout, r2, m2, c)
  <1> DEFINE K == KnownOf(r, c)
             k == Frame(r2["pc"], FALSE)
  <1>1. PICK F : F[1] = r /\ Chain(layout, F, K, m)
    BY DEF Good
  <1>2. KnownHas(r, c, K)
    BY KnownFacts, Zenon DEF Good
  <1>3. r2 \in [Registers -> Int] /\ r2["pc"] \in Int
    BY DEF StaysInFrame, Sits, Registers
  <1>4. k \in Activations
    BY <1>3 DEF Frame, Activations
  <1>5. LayoutAt(layout, K[1]) = layout[r["pc"]] /\ LayoutAt(layout, k) = layout[r2["pc"]]
    BY <1>2, HeadLayout, ZenonT(40) DEF KnownHas
  <1>6. [K EXCEPT ![1] = k] = KnownOf(r2, c)
    BY <1>2, Zenon DEF KnownHas, KnownOf
  <1>7. Sits(r2, layout[r2["pc"]], m2, k)
    BY Zenon DEF StaysInFrame
  <1> HIDE DEF K, k
  <1>11. Moves(layout, r2, k, m2, F[1], K[1], m)
    BY <1>1, <1>4, <1>5, <1>7, Zenon DEF StaysInFrame, Moves
  <1>8. Chain(layout, [F EXCEPT ![1] = r2], KnownOf(r2, c), m2)
    <2>1. Chain(layout, [F EXCEPT ![1] = r2], [K EXCEPT ![1] = k], m2)
      BY <1>1, <1>11, HeadMoves, Zenon
    <2> QED
      BY <1>6, <2>1, Zenon
  <1>9. F \in Seq([Registers -> Int]) /\ Len(F) > 0
    BY <1>1, Zenon DEF Chain
  <1>10. [F EXCEPT ![1] = r2][1] = r2
    BY <1>9, FirstExcept, Zenon
  <1> QED
    BY <1>3, <1>8, <1>10, Zenon DEF Good, StaysInFrame

\* The machine is in a new frame, and k says where it left the other one.
EntersFrame(layout, r, m, r2, m2, k) ==
    LET l2 == layout[r2["pc"]]
    IN  /\ r2["pc"] \in DOMAIN Code /\ m2 \in [1 .. StackSize -> Int]
        /\ k \in Activations /\ LayoutAt(layout, k) = layout[r["pc"]] /\ k.addr > StackSize
        /\ Sits(r2, l2, m2, Frame(r2["pc"], FALSE))
        /\ CallerOf(r2, l2, m2) = [r EXCEPT !["pc"] = k.addr]
        /\ Entered(l2, k)
        /\ r2["sp"] < r["sp"]
        /\ SameFrom(r["sp"], m, m2)

LEMMA GoesIn ==
    ASSUME NEW layout, NEW r, NEW m, NEW c, Good(layout, r, m, c),
           NEW r2, NEW m2, NEW k, EntersFrame(layout, r, m, r2, m2, k)
    PROVE  Good(layout, r2, m2, <<k>> \o c)
  <1> DEFINE K  == KnownOf(r, c)
             k2 == Frame(r2["pc"], FALSE)
             f  == [r EXCEPT !["pc"] = k.addr]
             l  == layout[r["pc"]]
  <1>1. PICK F : F[1] = r /\ Chain(layout, F, K, m)
    BY DEF Good
  <1>2. KnownHas(r, c, K)
    BY KnownFacts, Zenon DEF Good
  <1>3. r2 \in [Registers -> Int] /\ r2["pc"] \in Int /\ k \in Activations
    BY DEF EntersFrame, Sits, Registers
  <1>4. k2 \in Activations
    BY <1>3 DEF Frame, Activations
  <1>5. LayoutAt(layout, K[1]) = l /\ LayoutAt(layout, k2) = layout[r2["pc"]]
    BY <1>2, HeadLayout, ZenonT(40) DEF KnownHas
  <1>6. [K EXCEPT ![1] = k] = <<k>> \o c
    BY <1>2, Zenon DEF KnownHas
  <1>7. r \in [Registers -> Int] /\ k.addr \in Int
    BY <1>3 DEF Good, Activations
  <1>8. /\ f \in [Registers -> Int] /\ f["pc"] = k.addr
        /\ f["sp"] = r["sp"] /\ f["bp"] = r["bp"]
    BY <1>7 DEF Registers
  <1> HIDE DEF K, f
  <1>9. Cfa(f, l) = Cfa(r, l)
    BY <1>8, Zenon DEF Cfa
  <1>10. CallerOf(f, l, m) = CallerOf(r, l, m)
    BY <1>8, <1>9, Zenon DEF CallerOf
  <1>11. Sits(r, l, m, K[1])
    <2>1. 1 \in 1 .. Len(K)
      BY <1>1 DEF Chain
    <2> QED
      BY <1>1, <1>5, <2>1, Zenon DEF Chain
  <1>12. k.addr > StackSize /\ LayoutAt(layout, k) = l
    BY Zenon DEF EntersFrame
  <1> HIDE DEF l
  <1>13. Sits(f, l, m, k)
    BY <1>8, <1>9, <1>11, <1>12, Zenon DEF Sits
  <1>14. SameFrom(Cfa(r, l), m, m)
    BY DEF SameFrom
  <1>15. Moves(layout, f, k, m, F[1], K[1], m)
    BY <1>1, <1>3, <1>5, <1>9, <1>10, <1>12, <1>13, <1>14, Zenon DEF Moves
  <1> DEFINE F1 == [F EXCEPT ![1] = f]
             K1 == <<k>> \o c
  <1>16. Chain(layout, F1, K1, m)
    <2>1. Chain(layout, [F EXCEPT ![1] = f], [K EXCEPT ![1] = k], m)
      BY <1>1, <1>15, HeadMoves, Zenon
    <2> QED
      BY <1>6, <2>1, Zenon
  <1>17. F1[1] = f
    <2>1. F \in Seq([Registers -> Int]) /\ Len(F) > 0
      BY <1>1, Zenon DEF Chain
    <2> QED
      BY <2>1, FirstExcept, Zenon
  <1>18. K1[1] = k /\ K1 \in Seq(Activations)
    <2>1. c \in Seq(Activations)
      BY DEF Good
    <2> QED
      BY <1>3, <2>1, ConsFacts, Zenon DEF Longer
  <1> HIDE DEF F1, K1, k2
  <1>19. Enters(layout, r2, k2, m2, F1[1], K1[1], m)
    <2>1. /\ Sits(r2, layout[r2["pc"]], m2, k2) /\ CallerOf(r2, layout[r2["pc"]], m2) = f
          /\ Entered(layout[r2["pc"]], k) /\ r2["sp"] < r["sp"] /\ SameFrom(r["sp"], m, m2)
      BY Zenon DEF EntersFrame, k2, f
    <2> QED
      BY <1>4, <1>5, <1>8, <1>17, <1>18, <2>1, Zenon DEF Enters
  <1>20. Chain(layout, <<r2>> \o F1, <<k2>> \o K1, m2)
    BY <1>16, <1>19, FramePushed, Zenon
  <1>21. (<<r2>> \o F1)[1] = r2
    <2>1. F1 \in Seq([Registers -> Int])
      BY <1>16, Zenon DEF Chain
    <2> QED
      BY <1>3, <2>1, ConsFacts, ZenonT(40) DEF Longer
  <1>22. <<k2>> \o K1 = KnownOf(r2, K1)
    BY Zenon DEF KnownOf, k2
  <1>23. Good(layout, r2, m2, K1)
    BY <1>3, <1>18, <1>20, <1>21, <1>22, Zenon DEF Good, EntersFrame
  <1> QED
    BY <1>23 DEF K1

\* The machine is back in the caller.
LeavesFrame(layout, r, m, c, r2, m2) ==
    LET l == layout[r["pc"]]
    IN  /\ c # <<>> /\ r2 = CallerOf(r, l, m)
        /\ r2["pc"] \in DOMAIN Code /\ m2 \in [1 .. StackSize -> Int]
        /\ LayoutAt(layout, c[1]) = layout[r2["pc"]]
        /\ SameFrom(Cfa(r, l), m, m2)

LEMMA TailFacts ==
    ASSUME NEW S, NEW s \in Seq(S), s # <<>>, NEW k
    PROVE  /\ Len(s) > 0 /\ Tail(s) \in Seq(S)
           /\ 1 < Len(s) => Tail(s)[1] = s[2]
           /\ [s EXCEPT ![1] = k] = <<k>> \o Tail(s)
  <1> DEFINE T  == S \cup {k}
             t  == [s EXCEPT ![1] = k]
             t2 == <<k>> \o Tail(s)
  <1>1. s \in Seq(T) /\ Tail(s) \in Seq(T) /\ k \in T /\ Len(s) \in Nat /\ Len(s) > 0
    OBVIOUS
  <1> HIDE DEF T
  <1>2. t \in Seq(T) /\ Len(t) = Len(s) /\ t[1] = k /\ \A i \in 2 .. Len(s) : t[i] = s[i]
    BY <1>1
  <1>3. /\ t2 \in Seq(T) /\ Len(t2) = Len(s) /\ t2[1] = k
        /\ \A i \in 2 .. Len(s) : t2[i] = s[i]
    <2>1. Len(Tail(s)) = Len(s) - 1 /\ \A i \in 1 .. Len(s) - 1 : Tail(s)[i] = s[i + 1]
      BY <1>1
    <2> DEFINE u == Tail(s)
    <2>2. u \in Seq(T) /\ Len(u) = Len(s) - 1 /\ \A i \in 1 .. Len(s) - 1 : u[i] = s[i + 1]
      BY <1>1, <2>1
    <2> HIDE DEF u
    <2>3. /\ <<k>> \o u \in Seq(T) /\ Len(<<k>> \o u) = Len(s) /\ (<<k>> \o u)[1] = k
          /\ \A i \in 2 .. Len(s) : (<<k>> \o u)[i] = u[i - 1]
      BY <1>1, <2>2
    <2>4. \A i \in 2 .. Len(s) : u[i - 1] = s[i]
      BY <1>1, <2>2
    <2> QED
      BY <2>3, <2>4 DEF u
  <1> HIDE DEF t, t2
  <1>4. t = t2
    <2>1. \A i \in 1 .. Len(s) : i = 1 \/ i \in 2 .. Len(s)
      BY <1>1
    <2>2. \A i \in 1 .. Len(s) : t[i] = t2[i]
      BY <1>2, <1>3, <2>1, Zenon
    <2> QED
      BY <1>2, <1>3, <2>2
  <1>5. 1 < Len(s) => Tail(s)[1] = s[2]
    BY <1>1
  <1>6. Tail(s) \in Seq(S)
    OBVIOUS
  <1> QED
    BY <1>1, <1>4, <1>5, <1>6, Zenon DEF t, t2

LEMMA GoesBack ==
    ASSUME NEW layout, NEW r, NEW m, NEW c, Good(layout, r, m, c),
           NEW r2, NEW m2, LeavesFrame(layout, r, m, c, r2, m2)
    PROVE  Good(layout, r2, m2, Tail(c))
  <1> DEFINE K == KnownOf(r, c)
             k == Frame(r2["pc"], FALSE)
             l == layout[r["pc"]]
  <1>1. PICK F : F[1] = r /\ Chain(layout, F, K, m)
    BY DEF Good
  <1>2. KnownHas(r, c, K)
    BY KnownFacts, Zenon DEF Good
  <1>3. LayoutAt(layout, K[1]) = l
    BY <1>2, HeadLayout, ZenonT(40) DEF KnownHas
  <1>4. c \in Seq(Activations) /\ c # <<>> /\ Len(c) > 0
    BY DEF Good, LeavesFrame
  <1> HIDE DEF K
  <1>5. /\ Len(K) = Len(c) + 1 /\ Tail(K) = c /\ Len(K) # 1 /\ 1 < Len(K)
        /\ 1 \in 1 .. Len(K) - 1 /\ 1 + 1 = 2 /\ 1 \in 1 .. Len(K) /\ 1 \in 1 .. Len(c)
    <2>1. Len(K) = Len(c) + 1 /\ Tail(K) = c
      BY <1>2, Zenon DEF KnownHas
    <2> QED
      BY <1>4, <2>1
  <1>6. F[2] = r2
    BY <1>1, <1>3, <1>5, Zenon DEF Chain, LeavesFrame
  <1>7. F[2]["sp"] = Cfa(r, l)
    <2>1. Follow(layout, F, K, 1)
      BY <1>1, <1>5, ChainFollows, Zenon
    <2> QED
      BY <1>1, <1>3, <1>5, <2>1, Zenon DEF Follow
  <1>8. Chain(layout, Tail(F), c, m2)
    BY <1>1, <1>5, <1>7, FramePopped, Zenon DEF LeavesFrame
  <1> DEFINE G == Tail(F)
  <1>9. G[1] = r2
    <2>1. F \in Seq([Registers -> Int]) /\ Len(F) = Len(K)
      BY <1>1, Zenon DEF Chain
    <2>2. F # <<>>
      BY <1>5, <2>1
    <2> QED
      BY <1>5, <1>6, <2>1, <2>2, TailFacts, Zenon
  <1> HIDE DEF G
  <1>10. Sits(r2, layout[r2["pc"]], m2, c[1])
    BY <1>5, <1>8, <1>9, Zenon DEF Chain, LeavesFrame, G
  <1>11. r2["pc"] = c[1].addr
    BY <1>10, Zenon DEF Sits
  <1>12. LayoutAt(layout, k) = layout[r2["pc"]]
    BY HeadLayout, Zenon
  <1>13. r2 \in [Registers -> Int] /\ k \in Activations
    <2>1. r2 \in [Registers -> Int]
      BY <1>10, Zenon DEF Sits
    <2> QED
      BY <2>1 DEF Activations, Frame, Registers
  <1>14. Sits(r2, layout[r2["pc"]], m2, k)
    <2>1. k.addr = r2["pc"]
      BY DEF Frame
    <2> QED
      BY <1>10, <1>11, <2>1, Zenon DEF Sits
  <1>15. SameFrom(Cfa(r2, layout[r2["pc"]]), m2, m2)
    BY DEF SameFrom
  <1> HIDE DEF k
  <1>16. Moves(layout, r2, k, m2, G[1], c[1], m2)
    BY <1>9, <1>12, <1>13, <1>14, <1>15, Zenon DEF Moves, LeavesFrame
  <1>17. Chain(layout, [G EXCEPT ![1] = r2], [c EXCEPT ![1] = k], m2)
    BY <1>8, <1>16, HeadMoves, Zenon DEF G
  <1>18. [c EXCEPT ![1] = k] = KnownOf(r2, Tail(c)) /\ Tail(c) \in Seq(Activations)
    BY <1>4, TailFacts, Zenon DEF KnownOf, k
  <1>19. [G EXCEPT ![1] = r2][1] = r2
    <2>1. G \in Seq([Registers -> Int]) /\ Len(G) > 0
      BY <1>8, Zenon DEF Chain, G
    <2> QED
      BY <2>1, FirstExcept, Zenon
  <1> QED
    BY <1>13, <1>17, <1>18, <1>19, Zenon DEF Good, LeavesFrame

(***************************************************************************)
(* The instructions: first those that stay in their function.              *)
(***************************************************************************)
LEMMA LayoutFacts ==
    ASSUME NEW layout, LayoutIsKept(layout)
    PROVE  /\ layout \in [DOMAIN Code -> Frames]
           /\ \A a \in DOMAIN Code : IsFrame(layout[a]) /\ KeepsLayout(layout, a)
           /\ Entry \in DOMAIN Code /\ layout[Entry] = AtEntry(Entry, 1)
           /\ Handler \in DOMAIN Code /\ layout[Handler] = AtEntry(Handler, 3)
           /\ Entry # Handler
  <1>1. /\ Entry \in DOMAIN Code /\ layout[Entry] = AtEntry(Entry, 1)
        /\ Handler \in DOMAIN Code /\ layout[Handler] = AtEntry(Handler, 3)
    BY DEF LayoutIsKept, Follows
  <1>2. AtEntry(Entry, 1).depth = 1 /\ AtEntry(Handler, 3).depth = 3
    BY DEF AtEntry
  <1>3. Entry # Handler
    BY <1>1, <1>2
  <1>4. \A a \in DOMAIN Code : IsFrame(layout[a]) /\ KeepsLayout(layout, a)
    BY DEF LayoutIsKept, IsFrame
  <1> QED
    BY <1>1, <1>3, <1>4 DEF LayoutIsKept

\* The frame pointer of the caller.
SavedIn(r, l, m) == IF l.saved = 0 THEN r["bp"] ELSE m[Cfa(r, l) - l.saved]

\* What the instructions of a body have in common.
Body(layout, r, m, r2, m2) ==
    LET l  == layout[r["pc"]]
        l2 == layout[r2["pc"]]
    IN  /\ r2 \in [Registers -> Int] /\ r2["pc"] \in DOMAIN Code
        /\ m2 \in [1 .. StackSize -> Int]
        /\ l2.fn = l.fn /\ r2["sp"] > 0 /\ Cfa(r2, l2) = Cfa(r, l)
        /\ l2.base # 0 => r2["bp"] = Cfa(r2, l2) - l2.base
        /\ SavedIn(r2, l2, m2) = SavedIn(r, l, m)
        /\ \A x \in 1 .. StackSize : x >= r["sp"] /\ x >= r2["sp"] => m2[x] = m[x]

LEMMA BodyKeeps ==
    ASSUME NEW layout, LayoutIsKept(layout), NEW r, NEW m, NEW c, Good(layout, r, m, c),
           NEW r2, NEW m2, Body(layout, r, m, r2, m2)
    PROVE  Good(layout, r2, m2, c)
  <1> DEFINE l  == layout[r["pc"]]
             l2 == layout[r2["pc"]]
  <1>1. /\ Sits(r, l, m, Frame(r["pc"], FALSE)) /\ Spans(r, l)
        /\ r["sp"] \in 1 .. StackSize /\ Cfa(r, l) <= StackSize + 1
    BY HeadFacts, Zenon DEF HeadIs
  <1>2. /\ r2 \in [Registers -> Int] /\ r2["pc"] \in DOMAIN Code
        /\ m2 \in [1 .. StackSize -> Int]
        /\ l2.fn = l.fn /\ r2["sp"] > 0 /\ Cfa(r2, l2) = Cfa(r, l)
        /\ l2.base # 0 => r2["bp"] = Cfa(r2, l2) - l2.base
        /\ SavedIn(r2, l2, m2) = SavedIn(r, l, m)
        /\ \A x \in 1 .. StackSize : x >= r["sp"] /\ x >= r2["sp"] => m2[x] = m[x]
    BY Zenon DEF Body
  <1>3. IsFrame(l2)
    BY <1>2, LayoutFacts, Zenon
  <1> HIDE DEF l, l2
  <1>4. /\ l2.depth \in Nat /\ Given(l2.fn) <= l2.depth /\ Given(l2.fn) \in {1, 2}
        /\ r2["sp"] \in Int
    BY <1>2, <1>3, GivenIsSmall DEF IsFrame, Frames, Registers
  <1>5. Cfa(r2, l2) = r2["sp"] + l2.depth
    BY DEF Cfa
  <1>6. /\ r2["sp"] \in 1 .. StackSize
        /\ Cfa(r, l) \in Int
        /\ Cfa(r, l) - 1 \in 1 .. StackSize /\ Cfa(r, l) - Given(l.fn) \in 1 .. StackSize
        /\ Cfa(r, l) - 1 >= r["sp"] /\ Cfa(r, l) - Given(l.fn) >= r["sp"]
        /\ Cfa(r, l) - 1 >= r2["sp"] /\ Cfa(r, l) - Given(l.fn) >= r2["sp"]
    <2>1. Cfa(r, l) \in Int /\ Cfa(r, l) - Given(l.fn) >= r["sp"] /\ r["sp"] < Cfa(r, l)
      BY <1>1, Zenon DEF Spans
    <2>2. /\ Cfa(r, l) = r2["sp"] + l2.depth /\ l2.depth \in Nat /\ r2["sp"] \in Int /\ r2["sp"] > 0
          /\ Given(l.fn) \in {1, 2} /\ Given(l.fn) <= l2.depth
      BY <1>2, <1>4, <1>5, Zenon
    <2>3. Cfa(r, l) <= StackSize + 1 /\ r["sp"] \in 1 .. StackSize /\ StackSize \in Nat
      BY <1>1, CodeFacts, Zenon
    <2> DEFINE cfa == Cfa(r, l)
               g   == Given(l.fn)
    <2> HIDE DEF cfa, g
    <2>4. /\ r2["sp"] \in 1 .. StackSize /\ cfa \in Int
          /\ cfa - 1 \in 1 .. StackSize /\ cfa - g \in 1 .. StackSize
          /\ cfa - 1 >= r["sp"] /\ cfa - g >= r["sp"]
          /\ cfa - 1 >= r2["sp"] /\ cfa - g >= r2["sp"]
      <3>1. /\ cfa \in Int /\ cfa - g >= r["sp"] /\ r["sp"] < cfa
            /\ cfa = r2["sp"] + l2.depth /\ g \in {1, 2} /\ g <= l2.depth
            /\ cfa <= StackSize + 1
        BY <2>1, <2>2, <2>3, Zenon DEF cfa, g
      <3> QED
        BY <2>2, <2>3, <3>1
    <2> QED
      BY <2>4 DEF cfa, g
  <1>7. /\ m2[Cfa(r, l) - 1] = m[Cfa(r, l) - 1]
        /\ m2[Cfa(r, l) - Given(l.fn)] = m[Cfa(r, l) - Given(l.fn)]
    BY <1>2, <1>6, Zenon
  <1>8. SameFrom(Cfa(r, l), m, m2)
    <2> SUFFICES ASSUME NEW x \in Cfa(r, l) .. StackSize PROVE m2[x] = m[x]
      BY Zenon DEF SameFrom
    <2>1. x \in 1 .. StackSize /\ x >= r["sp"] /\ x >= r2["sp"]
      BY <1>1, <1>6
    <2> QED
      BY <1>2, <2>1, Zenon
  <1>9. r2["pc"] > StackSize
    BY <1>2, CodeFacts, Zenon
  <1>10. CallerOf(r2, l2, m2) = CallerOf(r, l, m)
    <2>1. CallerOf(r2, l2, m2) = [bp |-> SavedIn(r2, l2, m2), sp |-> Cfa(r2, l2),
                                  pc |-> m2[Cfa(r2, l2) - Given(l2.fn)]]
      BY Zenon DEF CallerOf, SavedIn
    <2>2. CallerOf(r, l, m) = [bp |-> SavedIn(r, l, m), sp |-> Cfa(r, l),
                               pc |-> m[Cfa(r, l) - Given(l.fn)]]
      BY Zenon DEF CallerOf, SavedIn
    <2> QED
      BY <1>2, <1>7, <2>1, <2>2, Zenon
  <1>11. Sits(r2, l2, m2, Frame(r2["pc"], FALSE))
    <2>1. Frame(r2["pc"], FALSE).addr = r2["pc"]
      BY DEF Frame
    <2>2. l2.fn = Handler => m2[Cfa(r2, l2) - 1] = Cfa(r2, l2)
      BY <1>1, <1>2, <1>7, Zenon DEF Sits
    <2> QED
      BY <1>2, <1>3, <1>6, <1>9, <2>1, <2>2, Zenon DEF Sits
  <1>12. StaysInFrame(layout, r, m, r2, m2)
    BY <1>2, <1>8, <1>10, <1>11, Zenon DEF StaysInFrame, l, l2
  <1> QED
    BY <1>12, GoesOn, Zenon

\* The innermost frame in numbers, and the words that are in use.
HeadNumbers(r, l, m) ==
    /\ r \in [Registers -> Int] /\ r["pc"] \in DOMAIN Code /\ r["pc"] \in Nat
    /\ m \in [1 .. StackSize -> Int]
    /\ l \in Frames /\ l.saved <= l.depth /\ l.depth > 0
    /\ r["sp"] \in Int /\ r["sp"] > 0 /\ r["sp"] <= StackSize
    /\ r["sp"] + l.depth <= StackSize + 1
    /\ StackSize \in Nat
    /\ l.base # 0 => r["bp"] = (r["sp"] + l.depth) - l.base

LEMMA NumbersOfHead ==
    ASSUME NEW layout, LayoutIsKept(layout), NEW r, NEW m, NEW c, Good(layout, r, m, c)
    PROVE  HeadNumbers(r, layout[r["pc"]], m)
  <1> DEFINE l == layout[r["pc"]]
  <1>1. /\ Sits(r, l, m, Frame(r["pc"], FALSE)) /\ Spans(r, l)
        /\ r["sp"] \in 1 .. StackSize /\ Cfa(r, l) <= StackSize + 1
    BY HeadFacts, Zenon DEF HeadIs
  <1>2. /\ r \in [Registers -> Int] /\ r["pc"] \in DOMAIN Code
        /\ m \in [1 .. StackSize -> Int]
    BY DEF Good
  <1>3. IsFrame(l)
    BY <1>2, LayoutFacts, Zenon
  <1> HIDE DEF l
  <1>4. l \in Frames /\ l.saved <= l.depth
    BY <1>3 DEF IsFrame
  <1>5. Cfa(r, l) = r["sp"] + l.depth
    BY DEF Cfa
  <1>6. l.base # 0 => r["bp"] = Cfa(r, l) - l.base
    BY <1>1, Zenon DEF Sits
  <1>7. l.depth > 0
    BY <1>3, GivenIsSmall DEF IsFrame, Frames
  <1>8. r["pc"] \in Nat
    BY <1>2, CodeFacts
  <1>9. r["sp"] \in Int /\ r["sp"] > 0 /\ r["sp"] <= StackSize /\ StackSize \in Nat
    BY <1>1, CodeFacts
  <1>10. r["sp"] + l.depth <= StackSize + 1
    BY <1>1, <1>5, Zenon
  <1>11. l.base # 0 => r["bp"] = (r["sp"] + l.depth) - l.base
    BY <1>5, <1>6, Zenon
  <1>12. HeadNumbers(r, l, m)
    BY <1>2, <1>4, <1>7, <1>8, <1>9, <1>10, <1>11, Zenon DEF HeadNumbers
  <1> QED
    BY <1>12 DEF l

LEMMA NopKeeps ==
    ASSUME NEW layout, LayoutIsKept(layout), NEW r, NEW m, NEW c, Good(layout, r, m, c),
           NEW to \in DOMAIN Code, layout[to] = layout[r["pc"]]
    PROVE  Good(layout, [r EXCEPT !["pc"] = to], m, c)
  <1> DEFINE l  == layout[r["pc"]]
             r2 == [r EXCEPT !["pc"] = to]
  <1>1. HeadNumbers(r, l, m)
    BY NumbersOfHead, Zenon
  <1>2. to \in Nat
    BY CodeFacts
  <1>3. /\ r2 \in [Registers -> Int] /\ r2["pc"] = to
        /\ r2["sp"] = r["sp"] /\ r2["bp"] = r["bp"]
    BY <1>1, <1>2 DEF HeadNumbers, Registers
  <1> HIDE DEF r2
  <1>4. layout[r2["pc"]] = l
    BY <1>3, Zenon
  <1> HIDE DEF l
  <1>5. Cfa(r2, l) = Cfa(r, l)
    BY <1>3, Zenon DEF Cfa
  <1>6. SavedIn(r2, l, m) = SavedIn(r, l, m)
    BY <1>3, <1>5, Zenon DEF SavedIn
  <1>7. l.base # 0 => r2["bp"] = Cfa(r2, l) - l.base
    BY <1>1, <1>3, Zenon DEF HeadNumbers, Cfa
  <1>8. r2["sp"] > 0 /\ r2["pc"] \in DOMAIN Code /\ m \in [1 .. StackSize -> Int]
    BY <1>1, <1>3, Zenon DEF HeadNumbers
  <1>9. Body(layout, r, m, r2, m)
    BY <1>3, <1>4, <1>5, <1>6, <1>7, <1>8, Zenon DEF Body, l
  <1> QED
    BY <1>9, BodyKeeps, Zenon DEF r2

\* The next instruction.
NextIs(layout, r, l2) == r["pc"] + 1 \in DOMAIN Code /\ layout[r["pc"] + 1] = l2

LEMMA PushKeeps ==
    ASSUME NEW layout, LayoutIsKept(layout), NEW r, NEW m, NEW c, Good(layout, r, m, c),
           r["sp"] > 2, KeepsLayout(layout, r["pc"]), Code[r["pc"]][1] = "push"
    PROVE  Good(layout, [r EXCEPT !["pc"] = r["pc"] + 1, !["sp"] = r["sp"] - 1],
                [m EXCEPT ![r["sp"] - 1] = r["bp"]], c)
  <1> DEFINE l  == layout[r["pc"]]
             r2 == [r EXCEPT !["pc"] = r["pc"] + 1, !["sp"] = r["sp"] - 1]
             m2 == [m EXCEPT ![r["sp"] - 1] = r["bp"]]
             l2 == layout[r2["pc"]]
  <1>1. HeadNumbers(r, l, m)
    BY NumbersOfHead, Zenon
  <1>2. \/ NextIs(layout, r, [l EXCEPT !.depth = @ + 1])
        \/ /\ l.saved = 0
           /\ NextIs(layout, r, [l EXCEPT !.depth = @ + 1, !.saved = l.depth + 1])
    BY DEF KeepsLayout, Follows, NextIs
  <1>3. /\ r2 \in [Registers -> Int] /\ r2["pc"] = r["pc"] + 1
        /\ r2["sp"] = r["sp"] - 1 /\ r2["bp"] = r["bp"]
    BY <1>1 DEF HeadNumbers, Registers
  <1>4. /\ m2 \in [1 .. StackSize -> Int] /\ m2[r["sp"] - 1] = r["bp"]
        /\ \A x \in 1 .. StackSize : x >= r["sp"] => m2[x] = m[x]
    BY <1>1 DEF HeadNumbers, Registers
  <1> HIDE DEF r2, m2, l
  <1>5. /\ r2["pc"] \in DOMAIN Code
        /\ l2 = [l EXCEPT !.depth = @ + 1]
           \/ (l.saved = 0 /\ l2 = [l EXCEPT !.depth = @ + 1, !.saved = l.depth + 1])
    BY <1>2, <1>3, Zenon DEF NextIs
  <1> HIDE DEF l2
  <1>6. /\ l2.fn = l.fn /\ l2.base = l.base /\ l2.depth = l.depth + 1
        /\ l2.saved = l.saved \/ (l.saved = 0 /\ l2.saved = l.depth + 1)
    BY <1>1, <1>5 DEF HeadNumbers, Frames
  <1>7. /\ l.depth \in Nat /\ l.saved \in Nat /\ l.base \in Nat /\ r["sp"] \in Nat
        /\ r["bp"] \in Int /\ l.saved <= l.depth /\ r["sp"] > 0
        /\ r["sp"] + l.depth <= StackSize + 1 /\ StackSize \in Nat
    BY <1>1 DEF HeadNumbers, Frames, Registers
  <1>8. Cfa(r2, l2) = Cfa(r, l) /\ Cfa(r, l) = r["sp"] + l.depth
    BY <1>3, <1>6, <1>7 DEF Cfa
  <1>9. SavedIn(r2, l2, m2) = SavedIn(r, l, m)
    <2>1. CASE l2.saved = l.saved
      <3>1. l.saved # 0 => Cfa(r, l) - l.saved \in 1 .. StackSize /\ Cfa(r, l) - l.saved >= r["sp"]
        BY <1>7, <1>8
      <3>2. l.saved # 0 => m2[Cfa(r, l) - l.saved] = m[Cfa(r, l) - l.saved]
        BY <1>4, <3>1, Zenon
      <3> QED
        BY <1>3, <1>8, <2>1, <3>2, Zenon DEF SavedIn
    <2>2. CASE l.saved = 0 /\ l2.saved = l.depth + 1
      <3>1. l2.saved # 0 /\ Cfa(r, l) - l2.saved = r["sp"] - 1
        BY <1>7, <1>8, <2>2
      <3> QED
        BY <1>4, <1>8, <2>2, <3>1, Zenon DEF SavedIn
    <2> QED
      BY <1>6, <2>1, <2>2
  <1>10. l2.base # 0 => r2["bp"] = Cfa(r2, l2) - l2.base
    BY <1>1, <1>3, <1>6, <1>8, Zenon DEF HeadNumbers
  <1>11. r2["sp"] > 0
    BY <1>3, <1>7
  <1>12. Body(layout, r, m, r2, m2)
    BY <1>3, <1>4, <1>5, <1>6, <1>8, <1>9, <1>10, <1>11, Zenon DEF Body, l, l2
  <1> QED
    BY <1>12, BodyKeeps, Zenon DEF r2, m2

\* What Release leaves of the stack.
Released(r, m, n) ==
    [a \in DOMAIN m |-> IF a \in r["sp"] .. (r["sp"] + n - 1) THEN Garbage ELSE m[a]]

\* The stack m2 is m from a word on.
KeepsFrom(a, m, m2) ==
    /\ m2 \in [1 .. StackSize -> Int] /\ SameFrom(a, m, m2)
    /\ \A x \in 1 .. StackSize : x >= a => m2[x] = m[x]

LEMMA ReleasedFacts ==
    ASSUME NEW m \in [1 .. StackSize -> Int], NEW r, r["sp"] \in Int, r["sp"] > 0, NEW n \in Nat
    PROVE  KeepsFrom(r["sp"] + n, m, Released(r, m, n))
  <1>1. Released(r, m, n) \in [1 .. StackSize -> Int]
    BY DEF Released, Garbage
  <1>2. ASSUME NEW x \in 1 .. StackSize, x >= r["sp"] + n
        PROVE  Released(r, m, n)[x] = m[x]
    <2>1. x \in DOMAIN m /\ ~(x \in r["sp"] .. (r["sp"] + n - 1))
      BY <1>2
    <2> QED
      BY <2>1 DEF Released
  <1>3. ASSUME NEW x \in (r["sp"] + n) .. StackSize
        PROVE  Released(r, m, n)[x] = m[x]
    <2>1. x \in 1 .. StackSize /\ x >= r["sp"] + n
      OBVIOUS
    <2> QED
      BY <1>2, <2>1
  <1> QED
    BY <1>1, <1>2, <1>3 DEF SameFrom, KeepsFrom

LEMMA PopKeeps ==
    ASSUME NEW layout, LayoutIsKept(layout), NEW r, NEW m, NEW c, Good(layout, r, m, c),
           KeepsLayout(layout, r["pc"]), Code[r["pc"]][1] = "pop"
    PROVE  Good(layout, [bp |-> m[r["sp"]], sp |-> r["sp"] + 1, pc |-> r["pc"] + 1],
                Released(r, m, 1), c)
  <1> DEFINE l  == layout[r["pc"]]
             r2 == [bp |-> m[r["sp"]], sp |-> r["sp"] + 1, pc |-> r["pc"] + 1]
             m2 == Released(r, m, 1)
             l2 == layout[r2["pc"]]
  <1>1. HeadNumbers(r, l, m)
    BY NumbersOfHead, Zenon
  <1>2. /\ l.saved # 0 /\ l.saved = l.depth
        /\ NextIs(layout, r, [l EXCEPT !.depth = @ - 1, !.saved = 0, !.base = 0])
    BY DEF KeepsLayout, Follows, NextIs
  <1>3. /\ r2 \in [Registers -> Int] /\ r2["pc"] = r["pc"] + 1
        /\ r2["sp"] = r["sp"] + 1 /\ r2["bp"] = m[r["sp"]]
    BY <1>1 DEF HeadNumbers, Registers
  <1> HIDE DEF r2, l
  <1>4. r["sp"] \in Int /\ r["sp"] > 0 /\ m \in [1 .. StackSize -> Int]
    BY <1>1, Zenon DEF HeadNumbers
  <1>5. /\ m2 \in [1 .. StackSize -> Int]
        /\ \A x \in 1 .. StackSize : x >= r["sp"] + 1 => m2[x] = m[x]
    <2>1. KeepsFrom(r["sp"] + 1, m, m2)
      BY <1>4, 1 \in Nat, ReleasedFacts, Zenon
    <2> QED
      BY <2>1, Zenon DEF KeepsFrom
  <1> HIDE DEF m2
  <1>6. /\ r2["pc"] \in DOMAIN Code
        /\ l2 = [l EXCEPT !.depth = @ - 1, !.saved = 0, !.base = 0]
    BY <1>2, <1>3, Zenon DEF NextIs
  <1> HIDE DEF l2
  <1>7. l2.fn = l.fn /\ l2.base = 0 /\ l2.saved = 0 /\ l2.depth = l.depth - 1 /\ l.depth \in Nat
    BY <1>1, <1>6 DEF HeadNumbers, Frames
  <1>8. /\ Cfa(r2, l2) = Cfa(r, l) /\ Cfa(r, l) - l.saved = r["sp"] /\ r2["sp"] > 0
        /\ \A x \in 1 .. StackSize : x >= r2["sp"] => x >= r["sp"] + 1
    BY <1>2, <1>3, <1>4, <1>7 DEF Cfa
  <1>9. SavedIn(r2, l2, m2) = SavedIn(r, l, m)
    BY <1>2, <1>3, <1>7, <1>8, Zenon DEF SavedIn
  <1>10. Body(layout, r, m, r2, m2)
    BY <1>3, <1>5, <1>6, <1>7, <1>8, <1>9, Zenon DEF Body, l, l2
  <1> QED
    BY <1>10, BodyKeeps, Zenon DEF r2, m2

LEMMA MovKeeps ==
    ASSUME NEW layout, LayoutIsKept(layout), NEW r, NEW m, NEW c, Good(layout, r, m, c),
           KeepsLayout(layout, r["pc"]), Code[r["pc"]][1] = "mov"
    PROVE  Good(layout, [r EXCEPT !["pc"] = r["pc"] + 1, !["bp"] = r["sp"]], m, c)
  <1> DEFINE l  == layout[r["pc"]]
             r2 == [r EXCEPT !["pc"] = r["pc"] + 1, !["bp"] = r["sp"]]
             l2 == layout[r2["pc"]]
  <1>1. HeadNumbers(r, l, m)
    BY NumbersOfHead, Zenon
  <1>2. l.saved # 0 /\ NextIs(layout, r, [l EXCEPT !.base = l.depth])
    BY DEF KeepsLayout, Follows, NextIs
  <1>3. /\ r2 \in [Registers -> Int] /\ r2["pc"] = r["pc"] + 1
        /\ r2["sp"] = r["sp"] /\ r2["bp"] = r["sp"]
    BY <1>1 DEF HeadNumbers, Registers
  <1> HIDE DEF r2, l
  <1>4. /\ r["sp"] \in Int /\ r["sp"] > 0 /\ m \in [1 .. StackSize -> Int]
    BY <1>1, Zenon DEF HeadNumbers
  <1>5. r2["pc"] \in DOMAIN Code /\ l2 = [l EXCEPT !.base = l.depth]
    BY <1>2, <1>3, Zenon DEF NextIs
  <1> HIDE DEF l2
  <1>6. /\ l2.fn = l.fn /\ l2.base = l.depth /\ l2.saved = l.saved /\ l2.depth = l.depth
        /\ l.depth \in Nat
    BY <1>1, <1>5 DEF HeadNumbers, Frames
  <1>7. Cfa(r2, l2) = Cfa(r, l)
    BY <1>3, <1>6, Zenon DEF Cfa
  <1>8. SavedIn(r2, l2, m) = SavedIn(r, l, m)
    BY <1>2, <1>6, <1>7, Zenon DEF SavedIn
  <1>9. r2["bp"] = Cfa(r2, l2) - l2.base
    BY <1>3, <1>4, <1>6 DEF Cfa
  <1>10. Body(layout, r, m, r2, m)
    BY <1>3, <1>4, <1>5, <1>6, <1>7, <1>8, <1>9, Zenon DEF Body, l, l2
  <1> QED
    BY <1>10, BodyKeeps, Zenon DEF r2

LEMMA SubKeeps ==
    ASSUME NEW layout, LayoutIsKept(layout), NEW r, NEW m, NEW c, Good(layout, r, m, c),
           r["sp"] > 2, KeepsLayout(layout, r["pc"]), Code[r["pc"]][1] = "sub"
    PROVE  Good(layout, [r EXCEPT !["pc"] = r["pc"] + 1, !["sp"] = r["sp"] - 1], m, c)
  <1> DEFINE l  == layout[r["pc"]]
             r2 == [r EXCEPT !["pc"] = r["pc"] + 1, !["sp"] = r["sp"] - 1]
             l2 == layout[r2["pc"]]
  <1>1. HeadNumbers(r, l, m)
    BY NumbersOfHead, Zenon
  <1>2. NextIs(layout, r, [l EXCEPT !.depth = @ + 1])
    BY DEF KeepsLayout, Follows, NextIs
  <1>3. /\ r2 \in [Registers -> Int] /\ r2["pc"] = r["pc"] + 1
        /\ r2["sp"] = r["sp"] - 1 /\ r2["bp"] = r["bp"]
    BY <1>1 DEF HeadNumbers, Registers
  <1> HIDE DEF r2, l
  <1>4. /\ r["sp"] \in Int /\ r["sp"] > 0 /\ m \in [1 .. StackSize -> Int]
    BY <1>1, Zenon DEF HeadNumbers
  <1>5. r2["pc"] \in DOMAIN Code /\ l2 = [l EXCEPT !.depth = @ + 1]
    BY <1>2, <1>3, Zenon DEF NextIs
  <1> HIDE DEF l2
  <1>6. /\ l2.fn = l.fn /\ l2.base = l.base /\ l2.saved = l.saved /\ l2.depth = l.depth + 1
        /\ l.depth \in Nat
    BY <1>1, <1>5 DEF HeadNumbers, Frames
  <1>7. Cfa(r2, l2) = Cfa(r, l) /\ r2["sp"] > 0
    <2>1. r2["sp"] = r["sp"] - 1
      BY <1>3
    <2> QED
      BY <1>4, <1>6, <2>1 DEF Cfa
  <1>8. SavedIn(r2, l2, m) = SavedIn(r, l, m)
    BY <1>3, <1>6, <1>7, Zenon DEF SavedIn
  <1>9. l2.base # 0 => r2["bp"] = Cfa(r2, l2) - l2.base
    BY <1>1, <1>3, <1>6, <1>7, Zenon DEF HeadNumbers, Cfa
  <1>10. Body(layout, r, m, r2, m)
    BY <1>3, <1>4, <1>5, <1>6, <1>7, <1>8, <1>9, Zenon DEF Body, l, l2
  <1> QED
    BY <1>10, BodyKeeps, Zenon DEF r2

LEMMA AddKeeps ==
    ASSUME NEW layout, LayoutIsKept(layout), NEW r, NEW m, NEW c, Good(layout, r, m, c),
           KeepsLayout(layout, r["pc"]), Code[r["pc"]][1] = "add"
    PROVE  Good(layout, [r EXCEPT !["pc"] = r["pc"] + 1, !["sp"] = r["sp"] + 1],
                Released(r, m, 1), c)
  <1> DEFINE l  == layout[r["pc"]]
             r2 == [r EXCEPT !["pc"] = r["pc"] + 1, !["sp"] = r["sp"] + 1]
             m2 == Released(r, m, 1)
             l2 == layout[r2["pc"]]
  <1>1. HeadNumbers(r, l, m)
    BY NumbersOfHead, Zenon
  <1>2. l.saved # l.depth /\ NextIs(layout, r, [l EXCEPT !.depth = @ - 1])
    BY DEF KeepsLayout, Follows, NextIs
  <1>3. /\ r2 \in [Registers -> Int] /\ r2["pc"] = r["pc"] + 1
        /\ r2["sp"] = r["sp"] + 1 /\ r2["bp"] = r["bp"]
    BY <1>1 DEF HeadNumbers, Registers
  <1> HIDE DEF r2, l
  <1>4. r["sp"] \in Int /\ r["sp"] > 0 /\ m \in [1 .. StackSize -> Int]
    BY <1>1, Zenon DEF HeadNumbers
  <1>5. /\ m2 \in [1 .. StackSize -> Int]
        /\ \A x \in 1 .. StackSize : x >= r["sp"] + 1 => m2[x] = m[x]
    <2>1. KeepsFrom(r["sp"] + 1, m, m2)
      BY <1>4, 1 \in Nat, ReleasedFacts, Zenon
    <2> QED
      BY <2>1, Zenon DEF KeepsFrom
  <1> HIDE DEF m2
  <1>6. r2["pc"] \in DOMAIN Code /\ l2 = [l EXCEPT !.depth = @ - 1]
    BY <1>2, <1>3, Zenon DEF NextIs
  <1> HIDE DEF l2
  <1>7. /\ l2.fn = l.fn /\ l2.base = l.base /\ l2.saved = l.saved /\ l2.depth = l.depth - 1
        /\ l.depth \in Nat /\ l.saved \in Nat /\ l.saved < l.depth
        /\ r["sp"] + l.depth <= StackSize + 1 /\ StackSize \in Nat
    BY <1>1, <1>2, <1>6 DEF HeadNumbers, Frames
  <1>8. /\ Cfa(r2, l2) = Cfa(r, l) /\ r2["sp"] > 0
        /\ \A x \in 1 .. StackSize : x >= r2["sp"] => x >= r["sp"] + 1
        /\ l.saved # 0 => /\ Cfa(r, l) - l.saved \in 1 .. StackSize
                          /\ Cfa(r, l) - l.saved >= r["sp"] + 1
    <2>1. /\ r2["sp"] = r["sp"] + 1 /\ l2.depth = l.depth - 1 /\ r["sp"] \in Int /\ r["sp"] > 0
          /\ l.depth \in Nat /\ l.saved \in Nat /\ l.saved < l.depth
          /\ r["sp"] + l.depth <= StackSize + 1 /\ StackSize \in Nat
      BY <1>3, <1>4, <1>7, Zenon
    <2>2. Cfa(r2, l2) = r2["sp"] + l2.depth /\ Cfa(r, l) = r["sp"] + l.depth
      BY Zenon DEF Cfa
    <2> QED
      BY <2>1, <2>2
  <1>9. l.saved # 0 => m2[Cfa(r, l) - l.saved] = m[Cfa(r, l) - l.saved]
    BY <1>5, <1>8, Zenon
  <1>10. SavedIn(r2, l2, m2) = SavedIn(r, l, m)
    BY <1>3, <1>7, <1>8, <1>9, Zenon DEF SavedIn
  <1>11. l2.base # 0 => r2["bp"] = Cfa(r2, l2) - l2.base
    BY <1>1, <1>3, <1>7, <1>8, Zenon DEF HeadNumbers, Cfa
  <1>12. Body(layout, r, m, r2, m2)
    BY <1>3, <1>5, <1>6, <1>7, <1>8, <1>10, <1>11, Zenon DEF Body, l, l2
  <1> QED
    BY <1>12, BodyKeeps, Zenon DEF r2, m2

-----------------------------------------------------------------------------
(***************************************************************************)
(* Calls, interrupts, and the way back.                                    *)
(***************************************************************************)

\* A function fn begins with the registers r2: a frame of that depth.
AtBegin(layout, r2, m2, fn, depth) ==
    /\ r2 \in [Registers -> Int] /\ r2["pc"] = fn /\ fn \in DOMAIN Code
    /\ layout[fn] = AtEntry(fn, depth)
    /\ r2["sp"] > 0 /\ r2["sp"] <= StackSize
    /\ Given(fn) <= depth
    /\ fn = Handler => m2[(r2["sp"] + depth) - 1] = r2["sp"] + depth

\* The registers but for the program counter.
SameRegisters(r, a) ==
    [r EXCEPT !["pc"] = a] = [bp |-> r["bp"], sp |-> r["sp"], pc |-> a]

LEMMA AsRecord ==
    ASSUME NEW r \in [Registers -> Int], NEW a
    PROVE  SameRegisters(r, a)
  <1> DEFINE S == Int \cup {a}
             f == [r EXCEPT !["pc"] = a]
             g == [bp |-> r["bp"], sp |-> r["sp"], pc |-> a]
  <1>1. f \in [Registers -> S] /\ f["bp"] = r["bp"] /\ f["sp"] = r["sp"] /\ f["pc"] = a
    BY DEF Registers
  <1>2. g \in [Registers -> S] /\ g["bp"] = r["bp"] /\ g["sp"] = r["sp"] /\ g["pc"] = a
    BY DEF Registers
  <1> HIDE DEF S, f, g
  <1>3. \A x \in Registers : f[x] = g[x]
    BY <1>1, <1>2 DEF Registers
  <1>4. f = g
    BY <1>1, <1>2, <1>3
  <1> QED
    BY <1>4, Zenon DEF f, g, SameRegisters

BeginsWith(layout, r2, m2, fn, depth) ==
    /\ Sits(r2, layout[fn], m2, Frame(r2["pc"], FALSE))
    /\ CallerOf(r2, layout[fn], m2) =
           [bp |-> r2["bp"], sp |-> r2["sp"] + depth,
            pc |-> m2[(r2["sp"] + depth) - Given(fn)]]

LEMMA BeginSits ==
    ASSUME NEW layout, NEW r2, NEW m2, NEW fn, NEW depth \in Nat,
           AtBegin(layout, r2, m2, fn, depth)
    PROVE  BeginsWith(layout, r2, m2, fn, depth)
  <1> DEFINE l == AtEntry(fn, depth)
  <1>1. /\ l.depth = depth /\ l.saved = 0 /\ l.base = 0 /\ l.fn = fn
        /\ l \in Frames /\ layout[fn] = l
    BY DEF AtBegin, AtEntry, Frames
  <1> HIDE DEF l
  <1>2. Cfa(r2, l) = r2["sp"] + depth
    BY <1>1, Zenon DEF Cfa
  <1>3. r2["sp"] \in 1 .. StackSize /\ r2["pc"] > StackSize
    <2>1. r2["sp"] \in Int /\ r2["sp"] > 0 /\ r2["sp"] <= StackSize
      BY DEF AtBegin, Registers
    <2> QED
      BY <2>1, CodeFacts DEF AtBegin
  <1>4. IsFrame(l)
    <2>1. l.saved <= l.depth
      BY <1>1
    <2> QED
      BY <1>1, <2>1, Zenon DEF IsFrame, AtBegin
  <1>5. Frame(r2["pc"], FALSE).addr = r2["pc"]
    BY DEF Frame
  <1>6. Sits(r2, l, m2, Frame(r2["pc"], FALSE))
    BY <1>1, <1>2, <1>3, <1>4, <1>5, Zenon DEF Sits, AtBegin
  <1>7. CallerOf(r2, l, m2) = [bp |-> r2["bp"], sp |-> r2["sp"] + depth,
                               pc |-> m2[(r2["sp"] + depth) - Given(fn)]]
    BY <1>1, <1>2, Zenon DEF CallerOf
  <1> QED
    BY <1>1, <1>6, <1>7, Zenon DEF BeginsWith

LEMMA CallKeeps ==
    ASSUME NEW layout, LayoutIsKept(layout), NEW r, NEW m, NEW c, Good(layout, r, m, c),
           r["sp"] > 2, KeepsLayout(layout, r["pc"]), Code[r["pc"]][1] = "call"
    PROVE  Good(layout, [r EXCEPT !["pc"] = Code[r["pc"]][2], !["sp"] = r["sp"] - 1],
                [m EXCEPT ![r["sp"] - 1] = r["pc"] + 1],
                <<Frame(r["pc"] + 1, TRUE)>> \o c)
  <1> DEFINE to == Code[r["pc"]][2]
             r2 == [r EXCEPT !["pc"] = to, !["sp"] = r["sp"] - 1]
             m2 == [m EXCEPT ![r["sp"] - 1] = r["pc"] + 1]
             k  == Frame(r["pc"] + 1, TRUE)
  <1>1. HeadNumbers(r, layout[r["pc"]], m)
    BY NumbersOfHead, Zenon
  <1>2. /\ Code[r["pc"]] = <<"call", to>> /\ to # Handler
        /\ to \in DOMAIN Code /\ layout[to] = AtEntry(to, 1)
    BY DEF KeepsLayout, Follows
  <1> HIDE DEF to
  <1>3. to \in Nat /\ r["pc"] > StackSize /\ r["pc"] \in DOMAIN Code /\ StackSize \in Nat
    BY <1>1, <1>2, CodeFacts, Zenon DEF HeadNumbers
  <1>4. /\ r2 \in [Registers -> Int] /\ r2["pc"] = to
        /\ r2["sp"] = r["sp"] - 1 /\ r2["bp"] = r["bp"]
    BY <1>1, <1>3 DEF HeadNumbers, Registers
  <1>5. /\ m2 \in [1 .. StackSize -> Int] /\ m2[r["sp"] - 1] = r["pc"] + 1
        /\ \A x \in 1 .. StackSize : x >= r["sp"] => m2[x] = m[x]
    BY <1>1, SMTT(30) DEF HeadNumbers
  <1>6. /\ k \in Activations /\ k.addr = r["pc"] + 1 /\ k.after_call /\ k.addr > StackSize
        /\ k.addr - 1 = r["pc"] /\ r["pc"] \in Nat
    BY <1>1, <1>3 DEF HeadNumbers, Frame, Activations
  <1>7. /\ r2["sp"] > 0 /\ r2["sp"] <= StackSize /\ r2["sp"] + 1 = r["sp"]
        /\ (r2["sp"] + 1) - 1 = r["sp"] - 1 /\ r2["sp"] < r["sp"]
    <2>1. r["sp"] \in Int /\ r["sp"] <= StackSize /\ r["sp"] > 2 /\ r2["sp"] = r["sp"] - 1
      BY <1>1, <1>4, Zenon DEF HeadNumbers
    <2> QED
      BY <1>3, <2>1
  <1>8. Given(to) = 1 /\ 1 <= 1
    BY <1>2 DEF Given
  <1> HIDE DEF r2, m2, k
  <1>9. AtBegin(layout, r2, m2, to, 1)
    BY <1>2, <1>4, <1>7, <1>8 DEF AtBegin
  <1>10. /\ Sits(r2, layout[to], m2, Frame(r2["pc"], FALSE))
         /\ CallerOf(r2, layout[to], m2) =
                [bp |-> r2["bp"], sp |-> r2["sp"] + 1, pc |-> m2[(r2["sp"] + 1) - Given(to)]]
    <2>1. BeginsWith(layout, r2, m2, to, 1)
      BY <1>9, 1 \in Nat, BeginSits, Zenon
    <2> QED
      BY <2>1, Zenon DEF BeginsWith
  <1>11. [r EXCEPT !["pc"] = k.addr] = [bp |-> r["bp"], sp |-> r["sp"], pc |-> k.addr]
    BY <1>1, AsRecord, Zenon DEF HeadNumbers, SameRegisters
  <1>12. CallerOf(r2, layout[to], m2) = [r EXCEPT !["pc"] = k.addr]
    BY <1>4, <1>5, <1>6, <1>7, <1>8, <1>10, <1>11, Zenon
  <1>13. Entered(layout[to], k)
    <2>1. AtEntry(to, 1).fn = to
      BY DEF AtEntry
    <2> QED
      BY <1>2, <1>3, <1>6, <2>1, Zenon DEF Entered
  <1>14. LayoutAt(layout, k) = layout[r["pc"]]
    BY <1>6, Zenon DEF LayoutAt
  <1>15. SameFrom(r["sp"], m, m2)
    <2> SUFFICES ASSUME NEW x \in r["sp"] .. StackSize PROVE m2[x] = m[x]
      BY Zenon DEF SameFrom
    <2>1. x \in 1 .. StackSize /\ x >= r["sp"]
      BY <1>1 DEF HeadNumbers
    <2> QED
      BY <1>5, <2>1, Zenon
  <1>16. EntersFrame(layout, r, m, r2, m2, k)
    BY <1>2, <1>4, <1>5, <1>6, <1>7, <1>10, <1>12, <1>13, <1>14, <1>15, Zenon DEF EntersFrame
  <1>17. Good(layout, r2, m2, <<k>> \o c)
    BY <1>16, GoesIn, Zenon
  <1> QED
    BY <1>17, Zenon DEF r2, m2, k, to

LEMMA InterruptKeeps ==
    ASSUME NEW layout, LayoutIsKept(layout), NEW r, NEW m, NEW c, Good(layout, r, m, c),
           r["sp"] > 4, r["pc"] \in Interruptible
    PROVE  Good(layout, [r EXCEPT !["sp"] = r["sp"] - 3, !["pc"] = Handler],
                [m EXCEPT ![r["sp"] - 1] = r["sp"],
                          ![r["sp"] - 2] = r["pc"],
                          ![r["sp"] - 3] = Garbage],
                <<Frame(r["pc"], FALSE)>> \o c)
  <1> DEFINE r2 == [r EXCEPT !["sp"] = r["sp"] - 3, !["pc"] = Handler]
             m2 == [m EXCEPT ![r["sp"] - 1] = r["sp"],
                             ![r["sp"] - 2] = r["pc"],
                             ![r["sp"] - 3] = Garbage]
             k  == Frame(r["pc"], FALSE)
  <1>1. HeadNumbers(r, layout[r["pc"]], m)
    BY NumbersOfHead, Zenon
  <1>2. Handler \in DOMAIN Code /\ layout[Handler] = AtEntry(Handler, 3)
    BY LayoutFacts
  <1>3. Handler \in Nat /\ r["pc"] > StackSize /\ r["pc"] \in DOMAIN Code /\ StackSize \in Nat
    BY <1>1, <1>2, CodeFacts, Zenon DEF HeadNumbers
  <1>4. /\ r2 \in [Registers -> Int] /\ r2["pc"] = Handler
        /\ r2["sp"] = r["sp"] - 3 /\ r2["bp"] = r["bp"]
    BY <1>1, <1>3 DEF HeadNumbers, Registers
  <1>5. /\ m2 \in [1 .. StackSize -> Int]
        /\ m2[r["sp"] - 1] = r["sp"] /\ m2[r["sp"] - 2] = r["pc"]
        /\ \A x \in 1 .. StackSize : x >= r["sp"] => m2[x] = m[x]
    <2> DEFINE s  == r["sp"]
               m3 == [m EXCEPT ![s - 1] = s]
               m4 == [m3 EXCEPT ![s - 2] = r["pc"]]
    <2>1. /\ s \in 1 .. StackSize /\ s - 1 \in 1 .. StackSize /\ s - 2 \in 1 .. StackSize
          /\ s - 1 # s - 2 /\ s - 1 # s - 3 /\ s - 2 # s - 3 /\ s \in Int /\ r["pc"] \in Int
          /\ \A x \in 1 .. StackSize : x >= s => x # s - 1 /\ x # s - 2 /\ x # s - 3
          /\ m \in [1 .. StackSize -> Int] /\ Garbage \in Int
      <3>1. r["sp"] \in Int /\ r["sp"] > 4 /\ r["sp"] <= StackSize /\ StackSize \in Nat
        BY <1>1, Zenon DEF HeadNumbers
      <3>2. r["pc"] \in Int /\ m \in [1 .. StackSize -> Int] /\ Garbage \in Int
        BY <1>1 DEF HeadNumbers, Garbage
      <3> HIDE DEF s
      <3>3. s = r["sp"]
        BY DEF s
      <3>4. s \in Int /\ s > 4 /\ s <= StackSize /\ StackSize \in Nat
        BY <3>1, <3>3
      <3>5. /\ s \in 1 .. StackSize /\ s - 1 \in 1 .. StackSize /\ s - 2 \in 1 .. StackSize
            /\ s - 1 # s - 2 /\ s - 1 # s - 3 /\ s - 2 # s - 3
        BY <3>4
      <3>6. \A x \in 1 .. StackSize : x >= s => x # s - 1 /\ x # s - 2 /\ x # s - 3
        BY <3>4
      <3> QED
        BY <3>2, <3>4, <3>5, <3>6, Zenon
    <2> HIDE DEF s
    <2>2. /\ m3 \in [1 .. StackSize -> Int] /\ m3[s - 1] = s
          /\ \A x \in 1 .. StackSize : x >= s => m3[x] = m[x]
      BY <2>1
    <2> HIDE DEF m3
    <2>3. /\ m4 \in [1 .. StackSize -> Int] /\ m4[s - 1] = s /\ m4[s - 2] = r["pc"]
          /\ \A x \in 1 .. StackSize : x >= s => m4[x] = m[x]
      BY <2>1, <2>2
    <2> HIDE DEF m4
    <2> DEFINE m5 == [m4 EXCEPT ![s - 3] = Garbage]
    <2>4. /\ m5 \in [1 .. StackSize -> Int] /\ m5[s - 1] = s /\ m5[s - 2] = r["pc"]
          /\ \A x \in 1 .. StackSize : x >= s => m5[x] = m[x]
      BY <2>1, <2>3
    <2> QED
      BY <2>4 DEF s, m3, m4
  <1>6. k \in Activations /\ k.addr = r["pc"] /\ ~k.after_call
    BY <1>1, <1>3 DEF HeadNumbers, Frame, Activations
  <1>7. /\ r2["sp"] > 0 /\ r2["sp"] <= StackSize /\ r2["sp"] + 3 = r["sp"]
        /\ (r2["sp"] + 3) - 1 = r["sp"] - 1 /\ (r2["sp"] + 3) - 2 = r["sp"] - 2
        /\ r2["sp"] < r["sp"]
    <2>1. r["sp"] \in Int /\ r["sp"] <= StackSize /\ r["sp"] > 4 /\ r2["sp"] = r["sp"] - 3
      BY <1>1, <1>4, Zenon DEF HeadNumbers
    <2> QED
      BY <1>3, <2>1
  <1>8. Given(Handler) = 2 /\ 2 <= 3
    BY DEF Given
  <1> HIDE DEF r2, m2, k
  <1>9. AtBegin(layout, r2, m2, Handler, 3)
    <2>1. m2[(r2["sp"] + 3) - 1] = r2["sp"] + 3 /\ Given(Handler) <= 3
      BY <1>5, <1>7, <1>8, Zenon
    <2> QED
      BY <1>2, <1>4, <1>7, <2>1, Zenon DEF AtBegin
  <1>10. /\ Sits(r2, layout[Handler], m2, Frame(r2["pc"], FALSE))
         /\ CallerOf(r2, layout[Handler], m2) =
                [bp |-> r2["bp"], sp |-> r2["sp"] + 3,
                 pc |-> m2[(r2["sp"] + 3) - Given(Handler)]]
    <2>1. BeginsWith(layout, r2, m2, Handler, 3)
      BY <1>9, 3 \in Nat, BeginSits, Zenon
    <2> QED
      BY <2>1, Zenon DEF BeginsWith
  <1>11. [r EXCEPT !["pc"] = k.addr] = [bp |-> r["bp"], sp |-> r["sp"], pc |-> k.addr]
    BY <1>1, AsRecord, Zenon DEF HeadNumbers, SameRegisters
  <1>12. CallerOf(r2, layout[Handler], m2) = [r EXCEPT !["pc"] = k.addr]
    BY <1>4, <1>5, <1>6, <1>7, <1>8, <1>10, <1>11, Zenon
  <1>13. Entered(layout[Handler], k)
    <2>1. AtEntry(Handler, 3).fn = Handler
      BY DEF AtEntry
    <2> QED
      BY <1>2, <1>6, <2>1, Zenon DEF Entered
  <1>14. LayoutAt(layout, k) = layout[r["pc"]]
    BY <1>6, Zenon DEF LayoutAt
  <1>15. SameFrom(r["sp"], m, m2)
    <2> SUFFICES ASSUME NEW x \in r["sp"] .. StackSize PROVE m2[x] = m[x]
      BY Zenon DEF SameFrom
    <2>1. x \in 1 .. StackSize /\ x >= r["sp"]
      BY <1>1 DEF HeadNumbers
    <2> QED
      BY <1>5, <2>1, Zenon
  <1>16. EntersFrame(layout, r, m, r2, m2, k)
    BY <1>2, <1>3, <1>4, <1>5, <1>6, <1>7, <1>10, <1>12, <1>13, <1>14, <1>15, Zenon
       DEF EntersFrame
  <1>17. Good(layout, r2, m2, <<k>> \o c)
    BY <1>16, GoesIn, Zenon
  <1> QED
    BY <1>17, Zenon DEF r2, m2, k

\* What returning needs of the caller.
WaitsAt(layout, c, a) ==
    /\ c # <<>> /\ a = c[1].addr
    /\ a \in DOMAIN Code /\ LayoutAt(layout, c[1]) = layout[a]

LEMMA CallerOfFunction ==
    ASSUME NEW layout, LayoutIsKept(layout), NEW r, NEW m, NEW c, Good(layout, r, m, c),
           KeepsLayout(layout, r["pc"]), Code[r["pc"]][1] = "ret"
    PROVE  WaitsAt(layout, c, CallerOf(r, layout[r["pc"]], m)["pc"])
  <1> DEFINE l == layout[r["pc"]]
             h == c[1]
  <1>1. /\ l.fn \notin {Entry, Handler}
        /\ \A b \in Calls(l.fn) : Follows(layout, b + 1, layout[b])
    BY DEF KeepsLayout
  <1>2. c # <<>> /\ Entered(l, h) /\ CallerOf(r, l, m)["pc"] = h.addr /\ 1 \in 1 .. Len(c)
    BY <1>1, HeadFacts, ZenonT(40) DEF HeadIs
  <1>3. h.addr \in Int
    <2>1. c \in Seq(Activations)
      BY DEF Good
    <2>2. h \in Activations
      BY <1>2, <2>1
    <2> HIDE DEF h
    <2> QED
      BY <2>2 DEF Activations
  <1> HIDE DEF l, h
  <1>4. h.after_call /\ h.addr - 1 \in Calls(l.fn)
    BY <1>1, <1>2 DEF Entered, Calls
  <1>5. (h.addr - 1) + 1 = h.addr
    BY <1>3
  <1>6. h.addr \in DOMAIN Code /\ layout[h.addr] = layout[h.addr - 1]
    BY <1>1, <1>4, <1>5, Zenon DEF Follows
  <1>7. LayoutAt(layout, h) = layout[h.addr]
    BY <1>4, <1>6, Zenon DEF LayoutAt
  <1> QED
    BY <1>2, <1>6, <1>7, Zenon DEF WaitsAt, l, h

LEMMA RetKeeps ==
    ASSUME NEW layout, LayoutIsKept(layout), NEW r, NEW m, NEW c, Good(layout, r, m, c),
           KeepsLayout(layout, r["pc"]), Code[r["pc"]][1] = "ret"
    PROVE  Good(layout, [r EXCEPT !["pc"] = m[r["sp"]], !["sp"] = r["sp"] + 1],
                Released(r, m, 1), Tail(c))
  <1> DEFINE l  == layout[r["pc"]]
             r2 == [r EXCEPT !["pc"] = m[r["sp"]], !["sp"] = r["sp"] + 1]
             m2 == Released(r, m, 1)
  <1>1. HeadNumbers(r, l, m)
    BY NumbersOfHead, Zenon
  <1>2. l.fn \notin {Entry, Handler} /\ l.depth = 1 /\ l.saved = 0
    BY DEF KeepsLayout
  <1>3. WaitsAt(layout, c, CallerOf(r, l, m)["pc"])
    BY CallerOfFunction, Zenon
  <1> HIDE DEF l
  <1>4. r["sp"] \in Int /\ r["sp"] > 0 /\ m \in [1 .. StackSize -> Int] /\ r \in [Registers -> Int]
    BY <1>1, Zenon DEF HeadNumbers
  <1>5. m2 \in [1 .. StackSize -> Int] /\ SameFrom(r["sp"] + 1, m, m2)
    <2>1. KeepsFrom(r["sp"] + 1, m, m2)
      BY <1>4, 1 \in Nat, ReleasedFacts, Zenon
    <2> QED
      BY <2>1, Zenon DEF KeepsFrom
  <1>6. Cfa(r, l) = r["sp"] + 1 /\ (r["sp"] + 1) - 1 = r["sp"]
    BY <1>2, <1>4 DEF Cfa
  <1>7. Given(l.fn) = 1
    BY <1>2 DEF Given
  <1>8. CallerOf(r, l, m) = [bp |-> r["bp"], sp |-> r["sp"] + 1, pc |-> m[r["sp"]]]
    BY <1>2, <1>6, <1>7, Zenon DEF CallerOf
  <1>9. r2 = [bp |-> r["bp"], sp |-> r["sp"] + 1, pc |-> m[r["sp"]]]
    <2> DEFINE q == [r EXCEPT !["sp"] = r["sp"] + 1]
               a == m[r["sp"]]
    <2>1. q \in [Registers -> Int] /\ q["bp"] = r["bp"] /\ q["sp"] = r["sp"] + 1
      BY <1>4 DEF Registers
    <2> HIDE DEF a
    <2>2. r2 = [q EXCEPT !["pc"] = a]
      BY <1>4 DEF a, Registers
    <2> HIDE DEF q, r2
    <2>3. SameRegisters(q, a)
      BY <2>1, AsRecord, Zenon
    <2> QED
      BY <2>1, <2>2, <2>3, Zenon DEF SameRegisters, a
  <1> HIDE DEF r2, m2
  <1>10. r2 = CallerOf(r, l, m)
    BY <1>8, <1>9, Zenon
  <1>11. LeavesFrame(layout, r, m, c, r2, m2)
    BY <1>3, <1>5, <1>6, <1>10, Zenon DEF LeavesFrame, WaitsAt, l
  <1>12. Good(layout, r2, m2, Tail(c))
    BY <1>11, GoesBack, Zenon
  <1> QED
    BY <1>12, Zenon DEF r2, m2

LEMMA IretqKeeps ==
    ASSUME NEW layout, LayoutIsKept(layout), NEW r, NEW m, NEW c, Good(layout, r, m, c),
           KeepsLayout(layout, r["pc"]), Code[r["pc"]][1] = "iretq"
    PROVE  Good(layout, [r EXCEPT !["pc"] = m[r["sp"]], !["sp"] = m[r["sp"] + 1]],
                Released(r, m, 2), Tail(c))
  <1> DEFINE l  == layout[r["pc"]]
             r2 == [r EXCEPT !["pc"] = m[r["sp"]], !["sp"] = m[r["sp"] + 1]]
             m2 == Released(r, m, 2)
             h  == c[1]
  <1>1. HeadNumbers(r, l, m)
    BY NumbersOfHead, Zenon
  <1>2. l.fn = Handler /\ l.depth = 2 /\ l.saved = 0
    BY DEF KeepsLayout
  <1>3. /\ c # <<>> /\ Entered(l, h) /\ CallerOf(r, l, m)["pc"] = h.addr
        /\ Cfa(r, l) <= StackSize
        /\ Sits(r, l, m, Frame(r["pc"], FALSE))
    <2>1. Entry # Handler
      BY LayoutFacts, Zenon
    <2> QED
      BY <1>2, <2>1, HeadFacts, ZenonT(40) DEF HeadIs
  <1> HIDE DEF l, h
  <1>4. ~h.after_call /\ h.addr \in DOMAIN Code
    BY <1>2, <1>3, CodeFacts, Zenon DEF Entered
  <1>5. LayoutAt(layout, h) = layout[h.addr]
    BY <1>4, Zenon DEF LayoutAt
  <1>6. /\ r["sp"] \in Int /\ r["sp"] > 0 /\ m \in [1 .. StackSize -> Int]
        /\ r \in [Registers -> Int] /\ r["sp"] + l.depth <= StackSize + 1
        /\ StackSize \in Nat
    BY <1>1, Zenon DEF HeadNumbers
  <1>7. m2 \in [1 .. StackSize -> Int] /\ SameFrom(r["sp"] + 2, m, m2)
    <2>1. KeepsFrom(r["sp"] + 2, m, m2)
      BY <1>6, 2 \in Nat, ReleasedFacts, Zenon
    <2> QED
      BY <2>1, Zenon DEF KeepsFrom
  <1>8. /\ Cfa(r, l) = r["sp"] + 2 /\ (r["sp"] + 2) - 2 = r["sp"]
        /\ (r["sp"] + 2) - 1 = r["sp"] + 1 /\ r["sp"] + 1 \in 1 .. StackSize
    BY <1>2, <1>6, SMTT(30) DEF Cfa
  <1>9. Given(l.fn) = 2
    BY <1>2 DEF Given
  <1>10. m[r["sp"] + 1] = r["sp"] + 2
    BY <1>2, <1>3, <1>8, Zenon DEF Sits
  <1>11. CallerOf(r, l, m) = [bp |-> r["bp"], sp |-> r["sp"] + 2, pc |-> m[r["sp"]]]
    BY <1>2, <1>8, <1>9, Zenon DEF CallerOf
  <1>12. r2 = [bp |-> r["bp"], sp |-> r["sp"] + 2, pc |-> m[r["sp"]]]
    <2> DEFINE q == [r EXCEPT !["sp"] = r["sp"] + 2]
               a == m[r["sp"]]
    <2>1. q \in [Registers -> Int] /\ q["bp"] = r["bp"] /\ q["sp"] = r["sp"] + 2
      BY <1>6 DEF Registers
    <2> HIDE DEF a
    <2>2. r2 = [q EXCEPT !["pc"] = a]
      BY <1>6, <1>10 DEF a, Registers
    <2> HIDE DEF q, r2
    <2>3. SameRegisters(q, a)
      BY <2>1, AsRecord, Zenon
    <2> QED
      BY <2>1, <2>2, <2>3, Zenon DEF SameRegisters, a
  <1> HIDE DEF r2, m2
  <1>13. r2 = CallerOf(r, l, m)
    BY <1>11, <1>12, Zenon
  <1>14. LeavesFrame(layout, r, m, c, r2, m2)
    BY <1>3, <1>4, <1>5, <1>7, <1>8, <1>13, Zenon DEF LeavesFrame, l, h
  <1>15. Good(layout, r2, m2, Tail(c))
    BY <1>14, GoesBack, Zenon
  <1> QED
    BY <1>15, Zenon DEF r2, m2

LEMMA StartIsGood ==
    ASSUME NEW layout, LayoutIsKept(layout),
           NEW r, r = [bp |-> Garbage, sp |-> StackSize, pc |-> Entry],
           NEW m, m = [a \in 1 .. StackSize |-> IF a = StackSize THEN 0 ELSE Garbage]
    PROVE  Good(layout, r, m, <<>>)
  <1> DEFINE k == Frame(Entry, FALSE)
             F == <<r>>
             K == <<k>>
  <1>1. /\ Entry \in DOMAIN Code /\ layout[Entry] = AtEntry(Entry, 1) /\ Entry # Handler
        /\ StackSize \in Nat /\ StackSize > 0
    BY LayoutFacts, CodeFacts
  <1>2. Entry \in Nat /\ Entry > StackSize
    BY <1>1, CodeFacts
  <1>3. /\ r \in [Registers -> Int] /\ r["pc"] = Entry /\ r["sp"] = StackSize
        /\ m \in [1 .. StackSize -> Int] /\ m[StackSize] = 0
    BY <1>1, <1>2 DEF Registers, Garbage
  <1>4. k \in Activations
    BY <1>2 DEF Frame, Activations
  <1>5. Given(Entry) = 1
    BY <1>1, Zenon DEF Given
  <1>6. AtBegin(layout, r, m, Entry, 1)
    BY <1>1, <1>3, <1>5 DEF AtBegin
  <1>7. BeginsWith(layout, r, m, Entry, 1)
    BY <1>6, 1 \in Nat, BeginSits, Zenon
  <1>8. Sits(r, layout[Entry], m, k)
    BY <1>3, <1>7, Zenon DEF BeginsWith
  <1>9. CallerOf(r, layout[Entry], m)["pc"] = 0
    <2>1. (r["sp"] + 1) - Given(Entry) = StackSize
      BY <1>1, <1>3, <1>5
    <2>2. CallerOf(r, layout[Entry], m) = [bp |-> r["bp"], sp |-> r["sp"] + 1, pc |-> m[StackSize]]
      BY <1>7, <2>1, Zenon DEF BeginsWith
    <2> QED
      BY <1>3, <2>2
  <1>10. IsLast(r, layout[Entry], m)
    <2>1. AtEntry(Entry, 1).fn = Entry /\ AtEntry(Entry, 1).depth = 1
      BY DEF AtEntry
    <2> QED
      BY <1>1, <1>3, <1>9, <2>1, Zenon DEF IsLast, Cfa
  <1>11. LayoutAt(layout, k) = layout[Entry]
    BY HeadLayout, Zenon
  <1> HIDE DEF k
  <1>12. /\ K \in Seq(Activations) /\ F \in Seq([Registers -> Int]) /\ Len(K) = 1 /\ Len(F) = 1
         /\ K[1] = k /\ F[1] = r
    BY <1>3, <1>4
  <1> HIDE DEF K, F
  <1>13. Chain(layout, F, K, m)
    <2>1. /\ \A i \in 1 .. Len(K) : i = 1
          /\ \A i \in 1 .. Len(K) - 1 : FALSE
          /\ \A i, j \in 1 .. Len(K) : ~(i < j)
          /\ Len(K) > 0
      BY <1>12
    <2> QED
      BY <1>8, <1>10, <1>11, <1>12, <2>1, Zenon DEF Chain
  <1>14. K = KnownOf(r, <<>>)
    BY <1>3, <1>4, <1>12 DEF KnownOf, K, k
  <1>15. Chain(layout, F, KnownOf(r, <<>>), m)
    BY <1>13, <1>14, Zenon
  <1>16. <<>> \in Seq(Activations)
    OBVIOUS
  <1>17. r["pc"] \in DOMAIN Code
    BY <1>1, <1>3, Zenon
  <1> QED
    BY <1>3, <1>12, <1>15, <1>16, <1>17, Zenon DEF Good

LEMMA StepKeeps ==
    ASSUME NEW layout, LayoutIsKept(layout), Good(layout, regs, mem, calls), Step
    PROVE  Good(layout, regs', mem', calls')
  <1> DEFINE next == regs["pc"] + 1
             down == regs["sp"] - 1
             up   == regs["sp"] + 1
             Now  == Good(layout, regs', mem', calls')
  <1>1. regs["pc"] \in DOMAIN Code /\ KeepsLayout(layout, regs["pc"])
    BY LayoutFacts, Zenon DEF Good
  <1>2. regs["sp"] > 2
    BY DEF Step
  <1>3. CASE /\ Op = "nop"
             /\ regs' = [regs EXCEPT !["pc"] = next]
             /\ UNCHANGED <<mem, calls>>
    <2>1. next \in DOMAIN Code /\ layout[next] = layout[regs["pc"]]
      BY <1>1, <1>3 DEF KeepsLayout, Follows, Op
    <2> HIDE DEF next
    <2> QED
      BY <1>3, <2>1, NopKeeps, Zenon
  <1>4. CASE /\ Op = "jump"
             /\ \E to \in Arg : regs' = [regs EXCEPT !["pc"] = to]
             /\ UNCHANGED <<mem, calls>>
    <2>1. PICK to \in Arg : regs' = [regs EXCEPT !["pc"] = to]
      BY <1>4
    <2>2. to \in DOMAIN Code /\ layout[to] = layout[regs["pc"]]
      BY <1>1, <1>4 DEF KeepsLayout, Follows, Op, Arg
    <2> QED
      BY <1>4, <2>1, <2>2, NopKeeps, Zenon
  <1>5. CASE /\ Op = "push"
             /\ Push(regs["bp"])
             /\ regs' = [regs EXCEPT !["pc"] = next, !["sp"] = down]
             /\ UNCHANGED calls
    BY <1>1, <1>2, <1>5, PushKeeps, Zenon DEF Op, Push
  <1>6. CASE /\ Op = "pop"
             /\ regs' = [bp |-> mem[regs["sp"]], sp |-> up, pc |-> next]
             /\ Release(1)
             /\ UNCHANGED calls
    <2>1. mem' = Released(regs, mem, 1)
      BY <1>6 DEF Release, Released
    <2> QED
      BY <1>1, <1>6, <2>1, PopKeeps, Zenon DEF Op
  <1>7. CASE /\ Op = "mov"
             /\ regs' = [regs EXCEPT !["pc"] = next, !["bp"] = regs["sp"]]
             /\ UNCHANGED <<mem, calls>>
    BY <1>1, <1>7, MovKeeps, Zenon DEF Op
  <1>8. CASE /\ Op = "sub"
             /\ regs' = [regs EXCEPT !["pc"] = next, !["sp"] = down]
             /\ UNCHANGED <<mem, calls>>
    BY <1>1, <1>2, <1>8, SubKeeps, Zenon DEF Op
  <1>9. CASE /\ Op = "add"
             /\ regs' = [regs EXCEPT !["pc"] = next, !["sp"] = up]
             /\ Release(1)
             /\ UNCHANGED calls
    <2>1. mem' = Released(regs, mem, 1)
      BY <1>9 DEF Release, Released
    <2> QED
      BY <1>1, <1>9, <2>1, AddKeeps, Zenon DEF Op
  <1>10. CASE /\ Op = "call"
              /\ Push(next)
              /\ regs' = [regs EXCEPT !["pc"] = Arg, !["sp"] = down]
              /\ calls' = <<Frame(next, TRUE)>> \o calls
    BY <1>1, <1>2, <1>10, CallKeeps, Zenon DEF Op, Arg, Push
  <1>11. CASE /\ Op = "ret"
              /\ regs' = [regs EXCEPT !["pc"] = mem[regs["sp"]], !["sp"] = up]
              /\ calls' = Tail(calls)
              /\ Release(1)
    <2>1. mem' = Released(regs, mem, 1)
      BY <1>11 DEF Release, Released
    <2> QED
      BY <1>1, <1>11, <2>1, RetKeeps, Zenon DEF Op
  <1>12. CASE /\ Op = "iretq"
              /\ regs' = [regs EXCEPT !["pc"] = mem[regs["sp"]], !["sp"] = mem[regs["sp"] + 1]]
              /\ calls' = Tail(calls)
              /\ Release(2)
    <2>1. mem' = Released(regs, mem, 2)
      BY <1>12 DEF Release, Released
    <2> QED
      BY <1>1, <1>12, <2>1, IretqKeeps, Zenon DEF Op
  <1> HIDE DEF Now
  <1> QED
    BY <1>3, <1>4, <1>5, <1>6, <1>7, <1>8, <1>9, <1>10, <1>11, <1>12, Zenon DEF Step

LEMMA HandlerKeeps ==
    ASSUME NEW layout, LayoutIsKept(layout), Good(layout, regs, mem, calls), Interrupt
    PROVE  Good(layout, regs', mem', calls')
  BY InterruptKeeps, Zenon DEF Interrupt

-----------------------------------------------------------------------------
(***************************************************************************)
(* A walk.  It begins to report at the q-th of the frames F, that are at   *)
(* the places K; s is the state of the unwinder, tr the trace, ex what is  *)
(* expected of it.                                                         *)
(***************************************************************************)
IsState(s) ==
    /\ s = [frame |-> s.frame, cfa_reg_idx |-> s.cfa_reg_idx, cfa_offset |-> s.cfa_offset,
            end |-> s.end, signal_frame |-> s.signal_frame]
    /\ s.end \in BOOLEAN /\ s.signal_frame \in BOOLEAN

IsRow(row) ==
    row = [loc |-> row.loc, cfa_reg |-> row.cfa_reg, cfa_offset |-> row.cfa_offset,
           rules |-> row.rules, failed |-> row.failed]

Begins(K, q, ex) ==
    /\ ex = SubSeq(K, q, Len(K))
    /\ q # 1 => /\ K[q].addr = WalkReturns /\ q > 2
                /\ \A j \in 2 .. q - 1 : K[j].addr # WalkReturns

\* The state is that of frame p.
At(F, p, s, rt) == p \in 1 .. Len(F) /\ s.frame = F[p] /\ ~s.end /\ rt = "EOK"

\* Which frame the unwinder is at when it prepares or executes.
Behind(q, p, cl, tr) ==
    \/ cl = "unwind_walk" /\ tr # <<>> /\ p = (q + Len(tr)) - 1
    \/ cl = "unwind_current_begin" /\ tr = <<>> /\ p \in 2 .. q - 1

\* The unwinder has made k operations of an FDE, at whose row it is.
Executing(fde, addr, k, s, lc, rs, todo) ==
    /\ k \in 0 .. Len(Program(fde))
    /\ todo = SubSeq(Program(fde), k + 1, Len(Program(fde)))
    /\ IsRow(Rows(fde)[k]) /\ lc = Rows(fde)[k].loc /\ rs = Rows(fde)[k].rules
    /\ k > 0 => /\ s.cfa_reg_idx = Rows(fde)[k].cfa_reg
                /\ s.cfa_offset = Rows(fde)[k].cfa_offset
    /\ ~Rows(fde)[k].failed
    /\ \A j \in 0 .. k - 1 : ~IsEnd(fde, addr, j)

ViewOf(layout, K, p) == View(K[p].addr, p = 1, LayoutAt(layout, K[p]))

AtReport(F, q, s, rt, cl, tr) ==
    /\ cl = "unwind_walk"
    /\ At(F, q + Len(tr), s, rt)
    /\ s.signal_frame = (q + Len(tr) = 1)

AtPrepare(F, q, p, s, rt, cl, tr) ==
    Behind(q, p, cl, tr) /\ At(F, p, s, rt) /\ s.signal_frame = (p = 1)

AtExec(layout, F, K, t, q, p, i, k, s, rt, cl, tr, lc, rs, todo) ==
    /\ Behind(q, p, cl, tr) /\ At(F, p, s, rt) /\ ~s.signal_frame
    /\ i \in DOMAIN t /\ MayTake(t, i, ViewOf(layout, K, p))
    /\ Executing(t[i], K[p].addr, k, s, lc, rs, todo)

HasFailed(s, rt, cl) ==
    s.end /\ rt # "EOK" /\ cl \in {"unwind_walk", "unwind_current_begin"}

AtReturn(F, q, p, s, rt, cl, tr) ==
    /\ Behind(q, p, cl, tr) /\ p \in 1 .. Len(F) /\ ~s.signal_frame
    /\ IF p = Len(F) THEN s.end /\ rt = "EOK" ELSE At(F, p + 1, s, rt)

Walking == pc \in {"report", "prepare", "exec", "return"}

Walk(layout, F, q) ==
    /\ F[1] = regs /\ Chain(layout, F, Known, mem)
    /\ q \in 1 .. Len(F) /\ Begins(Known, q, expected)
    /\ pc = "report" => AtReport(F, q, state, ret, caller, trace)
    /\ pc = "prepare" => \E p : AtPrepare(F, q, p, state, ret, caller, trace)
    /\ pc = "exec" => \E p, i, k : AtExec(layout, F, Known, Fdes, q, p, i, k, state, ret,
                                          caller, trace, loc, rules, program)
    /\ pc = "return" => \/ HasFailed(state, ret, caller)
                        \/ \E p : AtReturn(F, q, p, state, ret, caller, trace)

Traced(tr, ex) ==
    /\ Len(tr) <= Len(ex)
    /\ \A i \in 1 .. Len(tr) :
          /\ tr[i].addr = ex[i].addr
          /\ ~tr[i].after_call => ~ex[i].after_call

Outcome ==
    /\ pc \in {"run", "report", "prepare", "exec", "return", "stopped", "done"}
    /\ pc = "run" => trace = <<>> /\ expected = <<>> /\ ret = "EOK" /\ caller = "unwind_walk"
    /\ pc = "done" => ret # "EOK" \/ Len(trace) = Len(expected)
    /\ Fdes \in FullTables /\ pc # "stopped" => ret = "EOK"

(***************************************************************************)
(* The inductive invariant.                                                *)
(***************************************************************************)
UnwindInv(layout) ==
    /\ Good(layout, regs, mem, calls)
    /\ Fdes \in FdeTables /\ IsState(state)
    /\ trace \in Seq(Activations) /\ expected \in Seq(Activations)
    /\ Outcome /\ Traced(trace, expected) /\ ~strayed
    /\ Walking => \E F, q : Walk(layout, F, q)

(***************************************************************************)
(* What a frame of a walk is like.                                         *)
(***************************************************************************)
FrameIs(layout, F, K, m, p) ==
    LET l == LayoutAt(layout, K[p])
    IN  /\ Sits(F[p], l, m, K[p]) /\ Spans(F[p], l)
        /\ F[p]["pc"] = K[p].addr /\ K[p].addr \in Int /\ K[p].addr > StackSize
        /\ F[1]["sp"] \in Int /\ F[1]["sp"] <= F[p]["sp"] /\ F[1]["sp"] > 0
        /\ Cfa(F[p], l) <= StackSize + 1
        /\ ViewOf(layout, K, p) \in Views(layout)
        /\ p # Len(F) => /\ F[p + 1] = CallerOf(F[p], l, m) /\ p + 1 \in 1 .. Len(F)
                         /\ CallerOf(F[p], l, m)["pc"] = K[p + 1].addr
                         /\ CallerOf(F[p], l, m)["pc"] # 0
        /\ p = Len(F) => CallerOf(F[p], l, m)["pc"] = 0

LEMMA ViewIsLookedUp ==
    ASSUME NEW layout, NEW r, NEW m, NEW c, Good(layout, r, m, c),
           NEW F, Chain(layout, F, KnownOf(r, c), m), NEW p \in 1 .. Len(F)
    PROVE  ViewOf(layout, KnownOf(r, c), p) \in Views(layout)
  <1> DEFINE K == KnownOf(r, c)
             k == K[p]
  <1>1. /\ K \in Seq(Activations) /\ K[1] = Frame(r["pc"], FALSE)
    BY KnownFacts, Zenon DEF Good, KnownHas
  <1>2. r["pc"] \in DOMAIN Code
    BY DEF Good
  <1> HIDE DEF K
  <1>3. Len(F) = Len(K) /\ Len(K) \in Nat
    <2>1. Len(F) = Len(K)
      BY Zenon DEF Chain, K
    <2> QED
      BY <1>1, <2>1
  <1>4. CASE p = 1
    <2>1. k.addr = r["pc"] /\ LayoutAt(layout, k) = layout[r["pc"]]
      BY <1>1, <1>4, HeadLayout DEF Frame
    <2> HIDE DEF k
    <2>2. ViewOf(layout, K, p) = View(r["pc"], TRUE, layout[r["pc"]])
      BY <1>4, <2>1, Zenon DEF ViewOf, k
    <2> QED
      BY <1>2, <2>2, Zenon DEF Views, K
  <1>5. CASE p # 1
    <2>1. p - 1 \in 1 .. Len(K) - 1 /\ (p - 1) + 1 = p /\ p \in 1 .. Len(K)
      BY <1>3, <1>5
    <2>2. Entered(LayoutAt(layout, K[p - 1]), k)
      BY <2>1, Zenon DEF Chain, K
    <2>3. k.addr \in Int
      <3>1. k \in Activations
        BY <1>1, <2>1
      <3> HIDE DEF k
      <3> QED
        BY <3>1 DEF Activations
    <2>4. ViewOf(layout, K, p) = View(k.addr, FALSE, LayoutAt(layout, k))
      BY <1>5 DEF ViewOf
    <2> HIDE DEF k
    <2>5. CASE k.after_call
      <3>1. k.addr - 1 \in AllCalls
        BY <2>2, <2>5 DEF Entered, AllCalls
      <3>2. LayoutAt(layout, k) = layout[k.addr - 1] /\ (k.addr - 1) + 1 = k.addr
        BY <2>3, <2>5 DEF LayoutAt
      <3>3. View((k.addr - 1) + 1, FALSE, layout[k.addr - 1]) \in Views(layout)
        BY <3>1, Zenon DEF Views
      <3> QED
        BY <2>4, <3>2, <3>3, Zenon DEF K
    <2>6. CASE ~k.after_call
      <3>1. k.addr \in Interruptible /\ LayoutAt(layout, k) = layout[k.addr]
        BY <2>2, <2>6, Zenon DEF Entered, LayoutAt
      <3> QED
        BY <2>4, <3>1, Zenon DEF Views, K
    <2> QED
      BY <2>5, <2>6
  <1> QED
    BY <1>4, <1>5

LEMMA FramesOfWalk ==
    ASSUME NEW layout, NEW r, NEW m, NEW c, Good(layout, r, m, c),
           NEW F, Chain(layout, F, KnownOf(r, c), m), NEW p \in 1 .. Len(F)
    PROVE  FrameIs(layout, F, KnownOf(r, c), m, p)
  <1> DEFINE K == KnownOf(r, c)
             l == LayoutAt(layout, K[p])
  <1>1. ViewOf(layout, K, p) \in Views(layout)
    BY ViewIsLookedUp, Zenon
  <1> HIDE DEF K
  <1>2. /\ Len(F) = Len(K) /\ Len(K) > 0 /\ Len(K) \in Nat /\ K \in Seq(Activations)
        /\ StackSize \in Nat
    BY CodeFacts DEF Chain, K
  <1>3. p \in 1 .. Len(K) /\ 1 \in 1 .. Len(K) /\ (1 < p \/ p = 1)
    BY <1>2
  <1>4. Sits(F[p], l, m, K[p])
    BY <1>3, Zenon DEF Chain, K
  <1>5. Spans(F[p], l)
    BY <1>4, FrameSpans, Zenon
  <1>6. F[p]["pc"] = K[p].addr /\ K[p].addr > StackSize
    BY <1>4, Zenon DEF Sits
  <1>7. K[p].addr \in Int
    <2>1. K[p] \in Activations
      BY <1>2, <1>3
    <2> QED
      BY <2>1 DEF Activations
  <1>8. /\ F[1]["sp"] \in 1 .. StackSize /\ F[p]["sp"] \in 1 .. StackSize
        /\ Cfa(F[p], l) <= StackSize + 1
    <2>1. Follow(layout, F, K, 1) /\ Follow(layout, F, K, p)
      BY <1>3, ChainFollows, Zenon DEF K
    <2> QED
      BY <2>1, Zenon DEF Follow
  <1>9. 1 < p => F[1]["sp"] < F[p]["sp"]
    BY <1>3, Zenon DEF Chain, K
  <1>10. F[1]["sp"] \in Int /\ F[1]["sp"] <= F[p]["sp"] /\ F[1]["sp"] > 0
    BY <1>2, <1>3, <1>8, <1>9
  <1>11. ASSUME p # Len(F)
         PROVE  /\ F[p + 1] = CallerOf(F[p], l, m) /\ p + 1 \in 1 .. Len(F)
                /\ CallerOf(F[p], l, m)["pc"] = K[p + 1].addr
                /\ CallerOf(F[p], l, m)["pc"] # 0
    <2>1. p \in 1 .. Len(K) - 1 /\ p + 1 \in 1 .. Len(K)
      BY <1>2, <1>3, <1>11
    <2>2. F[p + 1] = CallerOf(F[p], l, m)
      BY <2>1, Zenon DEF Chain, K
    <2>3. Sits(F[p + 1], LayoutAt(layout, K[p + 1]), m, K[p + 1])
      BY <2>1, Zenon DEF Chain, K
    <2>4. F[p + 1]["pc"] = K[p + 1].addr /\ K[p + 1].addr > StackSize
      BY <2>3, Zenon DEF Sits
    <2>5. K[p + 1].addr # 0
      BY <1>2, <2>4
    <2> QED
      BY <1>2, <2>1, <2>2, <2>4, <2>5, Zenon
  <1>12. p = Len(F) => CallerOf(F[p], l, m)["pc"] = 0
    BY <1>2, Zenon DEF Chain, K, IsLast
  <1> QED
    BY <1>1, <1>4, <1>5, <1>6, <1>7, <1>8, <1>10, <1>11, <1>12, Zenon DEF FrameIs, K

-----------------------------------------------------------------------------
(***************************************************************************)
(* Tables that leave nothing out.                                          *)
(***************************************************************************)
FdeIsTyped(e) == e.begin \in Int /\ e.size \in Int /\ e.signal \in BOOLEAN

\* Where parse_fde looks.
ComparedWith(e, v) == IF v.exact \/ e.signal THEN v.addr ELSE v.addr - 1

\* In a full table only one entry can be taken, and its row is known.
LEMMA FullTakes ==
    ASSUME NEW layout, NEW t \in FullTables, IsFull(t, layout),
           DOMAIN t \subseteq Int, \A i \in DOMAIN t : FdeIsTyped(t[i]),
           NEW v \in Views(layout), v.addr \in Int, NEW i \in DOMAIN t,
           i = 1 \/ t[i].begin <= LookedUp(v), \A j \in DOMAIN t : 1 <= j,
           \A j \in DOMAIN t : t[j].begin <= LookedUp(v) => j <= i
    PROVE  MayTake(t, i, v) /\ ~Row(t[i], v.addr).failed
  <1>1. PICK o \in DOMAIN t : /\ t[o].begin <= LookedUp(v)
                              /\ MayTake(t, o, v)
                              /\ ~Row(t[o], v.addr).failed
    BY DEF IsFull
  <1>2. o <= i /\ 1 <= o /\ o \in Int /\ i \in Int
    BY <1>1
  <1> SUFFICES ASSUME o # i PROVE FALSE
    BY <1>1
  <1>3. o < i /\ i # 1
    BY <1>2
  <1>4. t[o].begin + t[o].size <= t[i].begin
    BY <1>3 DEF IsFull
  <1>5. ComparedWith(t[o], v) < t[o].begin + t[o].size
    BY <1>1, Zenon DEF MayTake, ComparedWith
  <1>6. LookedUp(v) <= ComparedWith(t[o], v) /\ LookedUp(v) \in Int /\ ComparedWith(t[o], v) \in Int
    BY DEF LookedUp, ComparedWith
  <1> QED
    BY <1>3, <1>4, <1>5, <1>6 DEF FdeIsTyped

\* So what the unwinder executes has no row that it does not understand.
LEMMA FullKnows ==
    ASSUME NEW layout, NEW t \in FullTables, IsFull(t, layout),
           DOMAIN t \subseteq Int, \A i \in DOMAIN t : FdeIsTyped(t[i]),
           \A i, j \in DOMAIN t : i < j => t[i].begin < t[j].begin,
           \A j \in DOMAIN t : 1 <= j,
           NEW v \in Views(layout), v.addr \in Int, NEW i \in DOMAIN t, MayTake(t, i, v)
    PROVE  ~Row(t[i], v.addr).failed
  <1>1. PICK o \in DOMAIN t : /\ t[o].begin <= LookedUp(v)
                              /\ MayTake(t, o, v)
                              /\ ~Row(t[o], v.addr).failed
    BY DEF IsFull
  <1>2. 1 <= o /\ o \in Int /\ i \in Int /\ 1 <= i
    BY <1>1
  <1>3. /\ ComparedWith(t[o], v) < t[o].begin + t[o].size
        /\ ComparedWith(t[i], v) < t[i].begin + t[i].size
        /\ i = 1 \/ t[i].begin <= LookedUp(v)
    BY <1>1, Zenon DEF MayTake, ComparedWith
  <1>4. /\ LookedUp(v) <= ComparedWith(t[o], v) /\ LookedUp(v) <= ComparedWith(t[i], v)
        /\ LookedUp(v) \in Int /\ ComparedWith(t[o], v) \in Int /\ ComparedWith(t[i], v) \in Int
    BY DEF LookedUp, ComparedWith
  <1> SUFFICES ASSUME o # i PROVE FALSE
    BY <1>1
  <1>5. CASE o < i
    <2>1. t[o].begin + t[o].size <= t[i].begin /\ t[i].begin <= LookedUp(v)
      BY <1>2, <1>3, <1>5 DEF IsFull
    <2> QED
      BY <1>3, <1>4, <2>1 DEF FdeIsTyped
  <1>6. CASE i < o
    <2>1. t[i].begin + t[i].size <= t[o].begin
      BY <1>6 DEF IsFull
    <2> QED
      BY <1>1, <1>3, <1>4, <2>1 DEF FdeIsTyped
  <1> QED
    BY <1>2, <1>5, <1>6

LEMMA TableFacts ==
    ASSUME NEW t \in FdeTables
    PROVE  /\ Len(t) \in Nat /\ 1 \in DOMAIN t /\ DOMAIN t = 1 .. Len(t)
           /\ \A i, j \in DOMAIN t : i < j => t[i].begin < t[j].begin
  <1>1. /\ t \in Seq(ToSet(t)) /\ t # <<>>
        /\ \A i, j \in DOMAIN t : i < j => t[i].begin < t[j].begin
    BY CodeAssumption
  <1> QED
    BY <1>1

\* The entry that find_fde is for.
Found(t, addr, i) ==
    /\ i \in DOMAIN t
    /\ i = 1 \/ t[i].begin <= addr
    /\ \A j \in DOMAIN t : t[j].begin <= addr => j <= i

LEMMA FindsOne ==
    ASSUME Fdes \in FdeTables, NEW addr
    PROVE  \E i : Found(Fdes, addr, i) /\ find_fde(addr) = Fdes[i]
  <1> DEFINE below == {i \in DOMAIN Fdes : Fdes[i].begin <= addr}
  <1>1. Len(Fdes) \in Nat /\ 1 \in DOMAIN Fdes /\ DOMAIN Fdes = 1 .. Len(Fdes)
    BY TableFacts
  <1>2. CASE below = {}
    <2>1. find_fde(addr) = Fdes[1]
      BY <1>2, Zenon DEF find_fde
    <2>2. Found(Fdes, addr, 1)
      BY <1>1, <1>2 DEF Found
    <2> QED
      BY <2>1, <2>2
  <1>3. CASE below # {}
    <2>1. below \subseteq 1 .. Len(Fdes)
      BY <1>1
    <2>2. \E i \in below : \A j \in below : j <= i
      <3> HIDE DEF below
      <3> QED
        BY <1>1, <1>3, <2>1, HighestNumber, Zenon
    <2> DEFINE i == CHOOSE i \in below : \A j \in below : j <= i
    <2>3. i \in below /\ \A j \in below : j <= i
      <3> HIDE DEF below
      <3> QED
        BY <2>2, Zenon
    <2>4. find_fde(addr) = Fdes[i]
      BY <1>3, Zenon DEF find_fde
    <2> HIDE DEF i
    <2>5. Found(Fdes, addr, i)
      BY <2>3 DEF Found
    <2> QED
      BY <2>4, <2>5
  <1> QED
    BY <1>2, <1>3

\* Changes of the state.
StateIs(s, f, signal_frame, end) ==
    IsState(s) /\ s.frame = f /\ s.signal_frame = signal_frame /\ s.end = end

LEMMA StateThatEnds ==
    ASSUME NEW s, IsState(s)
    PROVE  StateIs([s EXCEPT !.end = TRUE], s.frame, s.signal_frame, TRUE)
  <1> SUFFICES ASSUME NEW s2, s2 = [s EXCEPT !.end = TRUE]
               PROVE  StateIs(s2, s.frame, s.signal_frame, TRUE)
    BY Zenon
  <1> QED
    BY DEF IsState, StateIs

LEMMA StateThatPrepared ==
    ASSUME NEW s, IsState(s), NEW b
    PROVE  StateIs([[s EXCEPT !.signal_frame = @ \/ b] EXCEPT !.signal_frame = FALSE],
                   s.frame, FALSE, s.end)
  <1> SUFFICES ASSUME NEW s2, s2 = [[s EXCEPT !.signal_frame = @ \/ b] EXCEPT !.signal_frame = FALSE]
               PROVE  StateIs(s2, s.frame, FALSE, s.end)
    BY Zenon
  <1> QED
    BY DEF IsState, StateIs

LEMMA StateWithCfa ==
    ASSUME NEW s, IsState(s), NEW reg, NEW offset
    PROVE  LET s2 == [s EXCEPT !.cfa_reg_idx = reg, !.cfa_offset = offset]
           IN  /\ StateIs(s2, s.frame, s.signal_frame, s.end)
               /\ s2.cfa_reg_idx = reg /\ s2.cfa_offset = offset
  <1> SUFFICES ASSUME NEW s2, s2 = [s EXCEPT !.cfa_reg_idx = reg, !.cfa_offset = offset]
               PROVE  /\ StateIs(s2, s.frame, s.signal_frame, s.end)
                      /\ s2.cfa_reg_idx = reg /\ s2.cfa_offset = offset
    BY Zenon
  <1> QED
    BY DEF IsState, StateIs

LEMMA StateWithOffset ==
    ASSUME NEW s, IsState(s), NEW offset
    PROVE  LET s2 == [s EXCEPT !.cfa_offset = offset]
           IN  /\ StateIs(s2, s.frame, s.signal_frame, s.end)
               /\ s2.cfa_reg_idx = s.cfa_reg_idx /\ s2.cfa_offset = offset
  BY DEF IsState, StateIs

LEMMA StateWithFrame ==
    ASSUME NEW s, IsState(s), NEW f, NEW e \in BOOLEAN
    PROVE  StateIs([s EXCEPT !.frame = f, !.cfa_reg_idx = "sp", !.cfa_offset = 0, !.end = e],
                   f, s.signal_frame, e)
  <1> SUFFICES ASSUME NEW s2, s2 = [s EXCEPT !.frame = f, !.cfa_reg_idx = "sp", !.cfa_offset = 0,
                                            !.end = e]
               PROVE  StateIs(s2, f, s.signal_frame, e)
    BY Zenon
  <1> QED
    BY DEF IsState, StateIs

LEMMA StateWithRegs ==
    ASSUME NEW s, IsState(s), NEW f
    PROVE  StateIs([s EXCEPT !.frame = f, !.signal_frame = TRUE], f, TRUE, s.end)
  <1> SUFFICES ASSUME NEW s2, s2 = [s EXCEPT !.frame = f, !.signal_frame = TRUE]
               PROVE  StateIs(s2, f, TRUE, s.end)
    BY Zenon
  <1> QED
    BY DEF IsState, StateIs

LEMMA StateOfCaller ==
    ASSUME NEW s, IsState(s), NEW f
    PROVE  StateIs([s EXCEPT !.frame = f], f, s.signal_frame, s.end)
  BY DEF IsState, StateIs

LEMMA FirstState ==
    IsState(NoState) /\ NoState.signal_frame = FALSE /\ NoState.end = FALSE
  BY DEF IsState, NoState

-----------------------------------------------------------------------------
(***************************************************************************)
(* The invariant holds at first, and while the machine runs.               *)
(***************************************************************************)
LEMMA InitHolds ==
    ASSUME NEW layout, LayoutIsKept(layout), Init
    PROVE  UnwindInv(layout)
  <1>1. Good(layout, regs, mem, calls)
    BY StartIsGood, Zenon DEF Init
  <1>2. IsState(state) /\ Fdes \in FdeTables
    BY FirstState, Zenon DEF Init
  <1>3. trace = <<>> /\ expected = <<>> /\ ret = "EOK" /\ caller = "unwind_walk" /\ pc = "run"
    BY DEF Init
  <1>4. Outcome /\ ~Walking
    BY <1>3 DEF Outcome, Walking
  <1>5. trace \in Seq(Activations) /\ expected \in Seq(Activations) /\ Traced(trace, expected)
    BY <1>3 DEF Traced
  <1>6. ~strayed
    BY DEF Init
  <1> QED
    BY <1>1, <1>2, <1>4, <1>5, <1>6, Zenon DEF UnwindInv

LEMMA MachineHolds ==
    ASSUME NEW layout, LayoutIsKept(layout), UnwindInv(layout), Step \/ Interrupt
    PROVE  UnwindInv(layout)'
  <1>1. Good(layout, regs', mem', calls')
    <2>1. Good(layout, regs, mem, calls)
      BY Zenon DEF UnwindInv
    <2> QED
      BY <2>1, StepKeeps, HandlerKeeps, Zenon
  <1>2. pc = "run" /\ UNCHANGED <<unwinder, pc>>
    BY Zenon DEF Step, Interrupt
  <1>3. Outcome' /\ ~Walking'
    BY <1>2 DEF UnwindInv, Outcome, Walking, unwinder
  <1>4. /\ (Fdes \in FdeTables)' /\ IsState(state)' /\ (trace \in Seq(Activations))'
        /\ (expected \in Seq(Activations))' /\ Traced(trace, expected)' /\ (~strayed)'
    BY <1>2, Zenon DEF UnwindInv, unwinder
  <1> QED
    BY <1>1, <1>3, <1>4, Zenon DEF UnwindInv

LEMMA BeginWithRegsHolds ==
    ASSUME NEW layout, UnwindInv(layout), BeginWithRegs
    PROVE  UnwindInv(layout)'
  <1>1. /\ pc = "run" /\ UNCHANGED <<regs, mem, calls, Fdes, trace, strayed>>
    BY Zenon DEF BeginWithRegs, machine
  <1>2. trace = <<>> /\ expected = <<>> /\ ret = "EOK" /\ caller = "unwind_walk"
    BY <1>1, Zenon DEF UnwindInv, Outcome
  <1>3. /\ Good(layout, regs, mem, calls) /\ Good(layout, regs, mem, calls)'
        /\ (Fdes \in FdeTables)' /\ trace' = <<>> /\ (~strayed)' /\ IsState(state)
    BY <1>1, <1>2, Zenon DEF UnwindInv
  <1>4. trace' \in Seq(Activations)
    BY <1>3
  <1>5. CASE Unavailable
    <2>1. state' = state /\ expected' = <<>> /\ ret' = "ENODEV" /\ pc' = "stopped"
      BY <1>2, <1>5, Zenon DEF Unavailable
    <2>2. IsState(state)'
      BY <1>3, <2>1, Zenon
    <2>3. expected' \in Seq(Activations) /\ Traced(trace, expected)'
      BY <1>3, <2>1 DEF Traced
    <2>4. Outcome' /\ ~Walking'
      BY <2>1 DEF Outcome, Walking
    <2> QED
      BY <1>3, <1>4, <2>2, <2>3, <2>4, Zenon DEF UnwindInv
  <1>6. CASE ~Unavailable
    <2>1. /\ state' = [NoState EXCEPT !.frame = regs, !.signal_frame = TRUE]
          /\ expected' = Known
          /\ pc' = "report" /\ UNCHANGED <<ret, caller>>
      BY <1>6, Zenon DEF BeginWithRegs, Known, KnownOf
    <2>2. /\ IsState(state') /\ state'.frame = regs /\ state'.signal_frame = TRUE
          /\ state'.end = FALSE
      <3>1. StateIs(state', regs, TRUE, FALSE)
        BY <2>1, FirstState, StateWithRegs, Zenon
      <3> QED
        BY <3>1, Zenon DEF StateIs
    <2>3. Known \in Seq(Activations)
      BY <1>3, KnownFacts, Zenon DEF Good, KnownHas, Known
    <2>4. PICK F : F[1] = regs /\ Chain(layout, F, Known, mem)
      BY <1>3, Zenon DEF Good, Known
    <2>5. 1 \in 1 .. Len(F)
      BY <2>4 DEF Chain
    <2>6. Begins(Known, 1, Known)
      <3>1. Known = SubSeq(Known, 1, Len(Known))
        BY <2>3
      <3> QED
        BY <3>1, Zenon DEF Begins
    <2>7. AtReport(F, 1, state', ret', caller', trace')
      <3>1. 1 + Len(trace') = 1
        BY <1>3
      <3>2. At(F, 1, state', ret')
        BY <1>2, <2>1, <2>2, <2>4, <2>5 DEF At
      <3>3. caller' = "unwind_walk" /\ state'.signal_frame = (1 = 1)
        BY <1>2, <2>1, <2>2
      <3> QED
        BY <3>1, <3>2, <3>3, Zenon DEF AtReport
    <2>8. Known' = Known
      BY <1>1, Zenon DEF Known
    <2>9. Walk(layout, F, 1)'
      BY <1>1, <2>1, <2>4, <2>5, <2>6, <2>7, <2>8 DEF Walk
    <2>10. Outcome'
      BY <1>2, <2>1 DEF Outcome
    <2>11. Traced(trace, expected)'
      BY <1>3, <2>1, <2>3 DEF Traced
    <2> QED
      BY <1>3, <1>4, <2>1, <2>2, <2>3, <2>9, <2>10, <2>11, Zenon DEF UnwindInv
  <1> QED
    BY <1>5, <1>6

\* The activation behind one of an ordinary function.
CalledFrom(layout, K, p, fn) ==
    LET b == K[p + 1].addr - 1
    IN  /\ p + 1 \in 1 .. Len(K) /\ b \in Calls(fn) /\ K[p + 1].addr = b + 1
        /\ LayoutAt(layout, K[p + 1]) = layout[b]

LEMMA FunctionIsCalled ==
    ASSUME NEW layout, NEW F, NEW K, NEW m, Chain(layout, F, K, m), NEW p \in 1 .. Len(K),
           NEW fn, LayoutAt(layout, K[p]).fn = fn, fn \notin {Entry, Handler}
    PROVE  CalledFrom(layout, K, p, fn)
  <1> DEFINE k == K[p + 1]
  <1>1. Len(K) \in Nat /\ K \in Seq(Activations)
    BY DEF Chain
  <1>2. p # Len(K)
    BY Zenon DEF Chain, IsLast
  <1>3. p \in 1 .. Len(K) - 1 /\ p + 1 \in 1 .. Len(K)
    BY <1>1, <1>2
  <1>4. Entered(LayoutAt(layout, K[p]), k)
    BY <1>3, Zenon DEF Chain
  <1>5. k.addr \in Int
    <2>1. k \in Activations
      BY <1>1, <1>3
    <2> HIDE DEF k
    <2> QED
      BY <2>1 DEF Activations
  <1> HIDE DEF k
  <1>6. k.after_call /\ k.addr - 1 \in Calls(fn)
    BY <1>4 DEF Entered, Calls
  <1>7. (k.addr - 1) + 1 = k.addr
    BY <1>5
  <1>8. LayoutAt(layout, k) = layout[k.addr - 1]
    BY <1>6, Zenon DEF LayoutAt
  <1> QED
    BY <1>3, <1>6, <1>7, <1>8, Zenon DEF CalledFrom, k

LEMMA RestOfKnown ==
    ASSUME NEW r, NEW c, NEW K, KnownHas(r, c, K), c \in Seq(Activations), Len(c) >= 3
    PROVE  SubSeq(c, 3, Len(c)) = SubSeq(K, 4, Len(K))
  <1> DEFINE s == SubSeq(c, 3, Len(c))
             t == SubSeq(K, 4, Len(K))
  <1>1. /\ K \in Seq(Activations) /\ Len(K) = Len(c) + 1 /\ Len(c) \in Nat
        /\ \A i \in 1 .. Len(c) : K[i + 1] = c[i]
    BY Zenon DEF KnownHas
  <1>2. /\ s \in Seq(Activations) /\ Len(s) = Len(c) - 2
        /\ \A i \in 1 .. Len(c) - 2 : s[i] = c[i + 2]
    BY <1>1
  <1>3. /\ t \in Seq(Activations) /\ Len(t) = Len(c) - 2
        /\ \A i \in 1 .. Len(c) - 2 : t[i] = K[i + 3]
    BY <1>1
  <1>4. ASSUME NEW i \in 1 .. Len(c) - 2 PROVE s[i] = t[i]
    <2>1. i + 2 \in 1 .. Len(c) /\ (i + 2) + 1 = i + 3
      BY <1>1
    <2> QED
      BY <1>1, <1>2, <1>3, <2>1
  <1> HIDE DEF s, t
  <1>5. s = t
    BY <1>2, <1>3, <1>4
  <1> QED
    BY <1>5 DEF s, t

LEMMA BeginCurrentHolds ==
    ASSUME NEW layout, LayoutIsKept(layout), UnwindInv(layout), BeginCurrent
    PROVE  UnwindInv(layout)'
  <1>1. /\ pc = "run" /\ UNCHANGED <<regs, mem, calls, Fdes, trace, strayed>>
    BY Zenon DEF BeginCurrent, machine
  <1>2. trace = <<>> /\ expected = <<>> /\ ret = "EOK" /\ caller = "unwind_walk"
    BY <1>1, Zenon DEF UnwindInv, Outcome
  <1>3. /\ Good(layout, regs, mem, calls) /\ Good(layout, regs, mem, calls)'
        /\ (Fdes \in FdeTables)' /\ trace' = <<>> /\ (~strayed)' /\ IsState(state)
    BY <1>1, <1>2, Zenon DEF UnwindInv
  <1>4. trace' \in Seq(Activations)
    BY <1>3
  <1>5. CASE Unavailable
    <2>1. state' = state /\ expected' = <<>> /\ ret' = "ENODEV" /\ pc' = "stopped"
      BY <1>2, <1>5, Zenon DEF Unavailable
    <2>2. IsState(state)'
      BY <1>3, <2>1, Zenon
    <2>3. expected' \in Seq(Activations) /\ Traced(trace, expected)'
      BY <1>3, <2>1 DEF Traced
    <2>4. Outcome' /\ ~Walking'
      BY <2>1 DEF Outcome, Walking
    <2> QED
      BY <1>3, <1>4, <2>2, <2>3, <2>4, Zenon DEF UnwindInv
  <1>6. CASE ~Unavailable
    <2> DEFINE f == [bp |-> regs["bp"], sp |-> regs["sp"] + 1, pc |-> mem[regs["sp"]]]
               returns == {i \in DOMAIN calls : calls[i].addr = WalkReturns}
               first == CHOOSE i \in returns : \A j \in returns : i <= j
               l == layout[regs["pc"]]
    <2>1. /\ state' = [NoState EXCEPT !.frame = f]
          /\ expected' = SubSeq(calls, first, Len(calls))
          /\ caller' = "unwind_current_begin" /\ pc' = "prepare" /\ ret' = ret
      BY <1>6, Zenon DEF BeginCurrent
    <2>2. StateIs(state', f, FALSE, FALSE)
      BY <2>1, FirstState, StateOfCaller, Zenon
    <2>3. PICK F : F[1] = regs /\ Chain(layout, F, Known, mem)
      BY <1>3, Zenon DEF Good, Known
    <2>4. KnownHas(regs, calls, Known) /\ calls \in Seq(Activations) /\ regs["pc"] \in DOMAIN Code
      BY <1>3, KnownFacts, Zenon DEF Good, Known
    <2>5. /\ Len(calls) \in Nat /\ Len(Known) = Len(calls) + 1 /\ Known \in Seq(Activations)
          /\ Known[1] = Frame(regs["pc"], FALSE) /\ Len(F) = Len(Known)
          /\ \A i \in 1 .. Len(calls) : Known[i + 1] = calls[i]
      BY <2>3, <2>4, Zenon DEF KnownHas, Chain
    <2>6. LayoutAt(layout, Known[1]) = l
      BY <2>5, HeadLayout, Zenon
    <2>7. l.depth = 1 /\ l.saved = 0
      <3>1. KeepsLayout(layout, regs["pc"])
        BY <2>4, LayoutFacts, Zenon
      <3> QED
        BY <3>1 DEF KeepsLayout, BeginCurrent, Op
    <2>8. PICK unwind_begin, unwind_walk \in DOMAIN Code :
            /\ {l.fn, unwind_begin, unwind_walk} \cap {Entry, Handler} = {}
            /\ \A b \in Calls(l.fn) : layout[b].fn = unwind_begin /\ b + 1 # WalkReturns
            /\ \A b \in Calls(unwind_begin) : layout[b].fn = unwind_walk /\ b + 1 # WalkReturns
            /\ \A b \in Calls(unwind_walk) : b + 1 = WalkReturns
      BY <2>4 DEF LayoutIsKept, CapturesInWalk, BeginCurrent, Op
    <2> HIDE DEF l, f, first, returns
    <2>9. {l.fn, unwind_begin, unwind_walk} \cap {Entry, Handler} = {}
      BY <2>8
    <2>10. l.fn \notin {Entry, Handler} /\ unwind_begin \notin {Entry, Handler}
           /\ unwind_walk \notin {Entry, Handler}
      BY <2>9
    <2>11. /\ 2 \in 1 .. Len(Known) /\ Known[2].addr # WalkReturns
           /\ LayoutAt(layout, Known[2]).fn = unwind_begin
      <3>1. 1 \in 1 .. Len(Known) /\ 1 + 1 = 2
        BY <2>5
      <3>2. CalledFrom(layout, Known, 1, l.fn)
        BY <2>3, <2>6, <2>10, <3>1, FunctionIsCalled, Zenon
      <3> QED
        BY <2>8, <3>1, <3>2, Zenon DEF CalledFrom
    <2>12. /\ 3 \in 1 .. Len(Known) /\ Known[3].addr # WalkReturns
           /\ LayoutAt(layout, Known[3]).fn = unwind_walk
      <3>1. 2 + 1 = 3
        OBVIOUS
      <3>2. CalledFrom(layout, Known, 2, unwind_begin)
        BY <2>3, <2>10, <2>11, FunctionIsCalled, Zenon
      <3> QED
        BY <2>8, <3>1, <3>2, Zenon DEF CalledFrom
    <2>13. 4 \in 1 .. Len(Known) /\ Known[4].addr = WalkReturns
      <3>1. 3 + 1 = 4
        OBVIOUS
      <3>2. CalledFrom(layout, Known, 3, unwind_walk)
        BY <2>3, <2>10, <2>12, FunctionIsCalled, Zenon
      <3> QED
        BY <2>8, <3>1, <3>2, Zenon DEF CalledFrom
    <2>14. first = 3
      <3>1. /\ 3 \in DOMAIN calls /\ DOMAIN calls = 1 .. Len(calls) /\ calls[3] = Known[4]
            /\ calls[1] = Known[2] /\ calls[2] = Known[3]
        BY <2>4, <2>5, <2>13
      <3>2. 3 \in returns /\ \A j \in returns : j \in 1 .. Len(calls) /\ j # 1 /\ j # 2
        BY <2>11, <2>12, <2>13, <3>1, Zenon DEF returns
      <3>3. \A j \in returns : 3 <= j
        BY <2>5, <3>2
      <3>4. first \in returns /\ \A j \in returns : first <= j
        BY <3>2, <3>3, Zenon DEF first
      <3>5. first <= 3 /\ 3 <= first /\ first \in 1 .. Len(calls)
        BY <3>2, <3>3, <3>4, Zenon
      <3> QED
        BY <2>5, <3>5
    <2>15. expected' = SubSeq(Known, 4, Len(Known))
      <3>1. Len(calls) >= 3
        BY <2>5, <2>13
      <3> QED
        BY <2>1, <2>4, <2>14, <3>1, RestOfKnown, Zenon
    <2>16. Begins(Known, 4, expected')
      <3>1. \A j \in 2 .. 4 - 1 : j = 2 \/ j = 3
        OBVIOUS
      <3>2. 4 > 2
        OBVIOUS
      <3> QED
        BY <2>11, <2>12, <2>13, <2>15, <3>1, <3>2, Zenon DEF Begins
    <2>17. f = F[2]
      <3>1. F[2] = CallerOf(regs, l, mem)
        <4>1. 1 \in 1 .. Len(Known) - 1 /\ 1 + 1 = 2
          BY <2>5, <2>13
        <4> QED
          BY <2>3, <2>6, <4>1, Zenon DEF Chain
      <3>2. regs["sp"] \in Int
        <4>1. HeadNumbers(regs, l, mem)
          BY <1>3, NumbersOfHead, Zenon DEF l
        <4> QED
          BY <4>1, Zenon DEF HeadNumbers
      <3>3. Given(l.fn) = 1
        BY <2>10 DEF Given
      <3>4. Cfa(regs, l) = regs["sp"] + 1 /\ (regs["sp"] + 1) - 1 = regs["sp"]
        BY <2>7, <3>2 DEF Cfa
      <3> QED
        BY <2>7, <3>1, <3>3, <3>4, Zenon DEF CallerOf, f
    <2>18. AtPrepare(F, 4, 2, state', ret', caller', trace')
      <3>1. 2 \in 2 .. 4 - 1 /\ 2 # 1 /\ 2 \in 1 .. Len(F)
        BY <2>5, <2>11
      <3>2. Behind(4, 2, caller', trace')
        BY <1>3, <2>1, <3>1, Zenon DEF Behind
      <3>3. /\ state'.frame = F[2] /\ state'.end = FALSE /\ state'.signal_frame = FALSE
            /\ ret' = "EOK"
        BY <1>2, <2>1, <2>2, <2>17, Zenon DEF StateIs
      <3> QED
        BY <3>1, <3>2, <3>3 DEF AtPrepare, At
    <2>19. Known' = Known
      BY <1>1, Zenon DEF Known
    <2>20. Walk(layout, F, 4)'
      <3>1. 4 \in 1 .. Len(F)
        BY <2>5, <2>13
      <3> QED
        BY <1>1, <2>1, <2>3, <2>16, <2>18, <2>19, <3>1 DEF Walk
    <2>21. Outcome'
      BY <1>2, <2>1 DEF Outcome
    <2>22. expected' \in Seq(Activations)
      BY <2>5, <2>13, <2>15
    <2>23. Traced(trace, expected)'
      BY <1>3, <2>22 DEF Traced
    <2>24. IsState(state)'
      BY <2>2, Zenon DEF StateIs
    <2> QED
      BY <1>3, <1>4, <2>20, <2>21, <2>22, <2>23, <2>24, Zenon DEF UnwindInv
  <1> QED
    BY <1>5, <1>6

-----------------------------------------------------------------------------
(***************************************************************************)
(* The steps of a walk that only look at the state.                        *)
(***************************************************************************)

\* While a walk goes on, nothing of the machine changes.
LEMMA WalkContinues ==
    ASSUME NEW layout, UnwindInv(layout), NEW F, NEW q, Walk(layout, F, q),
           UNCHANGED <<machine, Fdes, expected>>, pc' \in {"report", "prepare", "exec", "return"},
           IsState(state'), trace' \in Seq(Activations), ~strayed',
           Traced(trace', expected), Fdes \in FullTables => ret' = "EOK",
           pc' = "report" => AtReport(F, q, state', ret', caller', trace'),
           pc' = "prepare" => \E p : AtPrepare(F, q, p, state', ret', caller', trace'),
           pc' = "exec" => \E p, i, k : AtExec(layout, F, Known, Fdes, q, p, i, k, state', ret',
                                               caller', trace', loc', rules', program'),
           pc' = "return" => \/ HasFailed(state', ret', caller')
                             \/ \E p : AtReturn(F, q, p, state', ret', caller', trace')
    PROVE  UnwindInv(layout)'
  <1>1. UNCHANGED <<regs, mem, calls, Fdes, expected>> /\ Known' = Known
    BY Zenon DEF machine, Known
  <1>2. /\ Good(layout, regs, mem, calls)' /\ (Fdes \in FdeTables)'
        /\ (expected \in Seq(Activations))'
    BY <1>1, Zenon DEF UnwindInv
  <1>3. Outcome'
    BY <1>1 DEF Outcome
  <1>4. Walk(layout, F, q)'
    BY <1>1, Zenon DEF Walk
  <1>5. Traced(trace, expected)'
    BY <1>1, Zenon
  <1> QED
    BY <1>2, <1>3, <1>4, <1>5, Zenon DEF UnwindInv

\* A walk is over.
LEMMA WalkStops ==
    ASSUME NEW layout, UnwindInv(layout),
           UNCHANGED <<machine, Fdes, expected, state, strayed>>, pc' \in {"stopped", "done"},
           trace' \in Seq(Activations), Traced(trace', expected),
           Fdes \in FullTables /\ pc' = "done" => ret' = "EOK",
           pc' = "done" => ret' # "EOK" \/ Len(trace') = Len(expected)
    PROVE  UnwindInv(layout)'
  <1>1. UNCHANGED <<regs, mem, calls, Fdes, expected, state, strayed>>
    BY Zenon DEF machine
  <1>2. /\ Good(layout, regs, mem, calls)' /\ (Fdes \in FdeTables)' /\ IsState(state)'
        /\ (expected \in Seq(Activations))' /\ (~strayed)'
    <2>1. /\ Good(layout, regs, mem, calls) /\ Fdes \in FdeTables /\ IsState(state)
          /\ expected \in Seq(Activations) /\ ~strayed
      BY Zenon DEF UnwindInv
    <2> QED
      BY <1>1, <2>1
  <1>3. Outcome' /\ ~Walking'
    BY <1>1 DEF Outcome, Walking
  <1>4. Traced(trace, expected)'
    BY <1>1, Zenon
  <1> QED
    BY <1>2, <1>3, <1>4, Zenon DEF UnwindInv

\* What the invariant has while a walk goes on.
InWalk(layout, F, q) ==
    /\ Walk(layout, F, q) /\ IsState(state) /\ ~strayed
    /\ trace \in Seq(Activations) /\ expected \in Seq(Activations) /\ Traced(trace, expected)
    /\ Fdes \in FullTables => ret = "EOK"
    /\ Known \in Seq(Activations) /\ Len(Known) \in Nat /\ Len(F) = Len(Known)
    /\ q \in 1 .. Len(F) /\ Len(trace) \in Nat
    /\ Len(expected) = (Len(F) - q) + 1
    /\ \A i \in 1 .. (Len(F) - q) + 1 : expected[i] = Known[(q + i) - 1]
    /\ \A p \in 1 .. Len(F) : FrameIs(layout, F, Known, mem, p)

LEMMA WalkFacts ==
    ASSUME NEW layout, UnwindInv(layout), pc \in {"report", "prepare", "exec", "return"}
    PROVE  \E F, q : InWalk(layout, F, q)
  <1>1. PICK F, q : Walk(layout, F, q)
    BY Zenon DEF UnwindInv, Walking
  <1>2. Good(layout, regs, mem, calls)
    BY Zenon DEF UnwindInv
  <1>3. Chain(layout, F, Known, mem) /\ q \in 1 .. Len(F) /\ expected = SubSeq(Known, q, Len(Known))
    BY <1>1, Zenon DEF Walk, Begins
  <1>4. Known \in Seq(Activations) /\ Len(Known) \in Nat /\ Len(F) = Len(Known)
    BY <1>3 DEF Chain
  <1>5. \A p \in 1 .. Len(F) : FrameIs(layout, F, Known, mem, p)
    BY <1>2, <1>3, FramesOfWalk, Zenon DEF Known
  <1>6. /\ Len(expected) = (Len(F) - q) + 1
        /\ \A i \in 1 .. (Len(F) - q) + 1 : expected[i] = Known[(q + i) - 1]
    BY <1>3, <1>4
  <1>7. /\ IsState(state) /\ ~strayed /\ Traced(trace, expected)
        /\ trace \in Seq(Activations) /\ expected \in Seq(Activations)
    BY Zenon DEF UnwindInv
  <1>8. Fdes \in FullTables => ret = "EOK"
    BY DEF UnwindInv, Outcome
  <1>9. Len(trace) \in Nat
    BY <1>7
  <1>10. InWalk(layout, F, q)
    BY <1>1, <1>3, <1>4, <1>5, <1>6, <1>7, <1>8, <1>9, Zenon DEF InWalk
  <1> QED
    BY <1>10

LEMMA ReportHolds ==
    ASSUME NEW layout, UnwindInv(layout), Report
    PROVE  UnwindInv(layout)'
  <1>1. /\ pc = "report" /\ pc' \in {"prepare", "stopped"}
        /\ UNCHANGED <<machine, Fdes, state, ret, caller, expected, strayed>>
    BY Zenon DEF Report
  <1>2. PICK F, q : InWalk(layout, F, q)
    BY <1>1, WalkFacts
  <1> DEFINE p == q + Len(trace)
             e == Frame(unwind_get_return_address(state), ~state.signal_frame)
  <1>3. /\ p \in 1 .. Len(F) /\ At(F, p, state, ret) /\ caller = "unwind_walk"
        /\ state.signal_frame = (p = 1)
    BY <1>1, <1>2, Zenon DEF InWalk, Walk, AtReport, At
  <1>4. trace' = Append(trace, e)
    BY Zenon DEF Report
  <1>5. FrameIs(layout, F, Known, mem, p)
    BY <1>2, <1>3, Zenon DEF InWalk
  <1>6. e = Frame(Known[p].addr, p # 1)
    BY <1>3, <1>5, Zenon DEF At, unwind_get_return_address, FrameIs
  <1>7. Known[p].addr \in Int
    BY <1>5, Zenon DEF FrameIs
  <1>8. p = 1 => ~Known[p].after_call
    BY <1>2 DEF InWalk, Known, KnownOf, Walk, Chain, Frame
  <1> HIDE DEF p, e
  <1>9. e \in Activations /\ e.addr = Known[p].addr /\ (~e.after_call => ~Known[p].after_call)
    BY <1>6, <1>7, <1>8 DEF Activations, Frame
  <1>10. /\ q \in 1 .. Len(F) /\ Len(F) \in Nat /\ Len(trace) \in Nat
         /\ trace \in Seq(Activations) /\ Traced(trace, expected)
         /\ Len(expected) = (Len(F) - q) + 1
         /\ \A i \in 1 .. (Len(F) - q) + 1 : expected[i] = Known[(q + i) - 1]
    BY <1>2, Zenon DEF InWalk
  <1>11. /\ trace' \in Seq(Activations) /\ Len(trace') = Len(trace) + 1 /\ trace' # <<>>
         /\ trace'[Len(trace) + 1] = e
         /\ \A i \in 1 .. Len(trace) : trace'[i] = trace[i]
    BY <1>4, <1>9, <1>10
  <1>12. expected[Len(trace) + 1] = Known[p] /\ Len(trace) + 1 <= Len(expected)
    <2>1. Len(trace) + 1 \in 1 .. (Len(F) - q) + 1 /\ (q + (Len(trace) + 1)) - 1 = p
      BY <1>3, <1>10 DEF p
    <2> QED
      BY <1>10, <2>1
  <1>13. Traced(trace', expected)
    <2>1. ASSUME NEW i \in 1 .. Len(trace) + 1
          PROVE  trace'[i].addr = expected[i].addr /\ (~trace'[i].after_call => ~expected[i].after_call)
      <3>1. CASE i = Len(trace) + 1
        BY <1>9, <1>11, <1>12, <3>1, Zenon
      <3>2. CASE i # Len(trace) + 1
        <4>1. i \in 1 .. Len(trace)
          BY <1>10, <3>2
        <4> QED
          BY <1>10, <1>11, <4>1, Zenon DEF Traced
      <3> QED
        BY <3>1, <3>2
    <2> QED
      BY <1>11, <1>12, <2>1, Zenon DEF Traced
  <1>14. CASE pc' = "stopped"
    BY <1>1, <1>11, <1>13, <1>14, WalkStops
  <1>15. CASE pc' = "prepare"
    <2>1. p = (q + Len(trace')) - 1
      BY <1>10, <1>11 DEF p
    <2>2. AtPrepare(F, q, p, state', ret', caller', trace')
      BY <1>1, <1>3, <1>11, <2>1, Zenon DEF AtPrepare, Behind
    <2>3. Walk(layout, F, q) /\ IsState(state') /\ ~strayed' /\ (Fdes \in FullTables => ret' = "EOK")
      BY <1>1, <1>2, Zenon DEF InWalk
    <2> QED
      BY <1>1, <1>11, <1>13, <1>15, <2>2, <2>3, WalkContinues
  <1> QED
    BY <1>1, <1>14, <1>15

LEMMA WalkNextHolds ==
    ASSUME NEW layout, UnwindInv(layout), WalkNext
    PROVE  UnwindInv(layout)'
  <1>1. /\ pc = "return" /\ caller = "unwind_walk"
        /\ pc' = IF state.end THEN "done" ELSE "report"
        /\ UNCHANGED <<machine, Fdes, state, ret, caller, trace, expected, strayed>>
    BY Zenon DEF WalkNext
  <1>2. PICK F, q : InWalk(layout, F, q)
    BY <1>1, WalkFacts
  <1>3. /\ Traced(trace', expected) /\ trace' \in Seq(Activations)
        /\ (Fdes \in FullTables => ret' = "EOK")
    BY <1>1, <1>2, Zenon DEF InWalk
  <1>4. CASE HasFailed(state, ret, caller)
    <2>1. pc' = "done" /\ ret' # "EOK"
      BY <1>1, <1>4 DEF HasFailed
    <2> QED
      BY <1>1, <1>3, <2>1, WalkStops
  <1>5. CASE \E p : AtReturn(F, q, p, state, ret, caller, trace)
    <2>1. PICK p : AtReturn(F, q, p, state, ret, caller, trace)
      BY <1>5
    <2>2. /\ trace # <<>> /\ p = (q + Len(trace)) - 1 /\ p \in 1 .. Len(F)
          /\ ~state.signal_frame
          /\ IF p = Len(F) THEN state.end /\ ret = "EOK" ELSE At(F, p + 1, state, ret)
      BY <1>1, <2>1 DEF AtReturn, Behind
    <2>3. /\ q \in 1 .. Len(F) /\ Len(F) \in Nat /\ Len(trace) \in Nat
          /\ Len(expected) = (Len(F) - q) + 1
      BY <1>2, Zenon DEF InWalk
    <2>4. CASE p = Len(F)
      <3>1. pc' = "done"
        BY <1>1, <2>2, <2>4
      <3>2. Len(trace') = Len(expected)
        BY <1>1, <2>2, <2>3, <2>4
      <3> QED
        BY <1>1, <1>3, <3>1, <3>2, WalkStops
    <2>5. CASE p # Len(F)
      <3>1. pc' = "report" /\ At(F, p + 1, state, ret)
        BY <1>1, <2>2, <2>5 DEF At
      <3>2. p + 1 = q + Len(trace) /\ p + 1 # 1
        BY <2>2, <2>3
      <3>3. state.signal_frame = (p + 1 = 1)
        <4>1. state.signal_frame \in BOOLEAN
          BY <1>2, Zenon DEF InWalk, IsState
        <4> QED
          BY <2>2, <3>2, <4>1
      <3>4. AtReport(F, q, state', ret', caller', trace')
        BY <1>1, <3>1, <3>2, <3>3, Zenon DEF AtReport
      <3>5. Walk(layout, F, q) /\ IsState(state') /\ ~strayed'
        BY <1>1, <1>2, Zenon DEF InWalk
      <3> QED
        BY <1>1, <1>3, <3>1, <3>4, <3>5, WalkContinues
    <2> QED
      BY <2>4, <2>5
  <1> QED
    BY <1>1, <1>2, <1>4, <1>5, Zenon DEF InWalk, Walk

LEMMA BeginNextHolds ==
    ASSUME NEW layout, UnwindInv(layout), BeginNext
    PROVE  UnwindInv(layout)'
  <1>1. /\ pc = "return" /\ caller = "unwind_current_begin"
        /\ UNCHANGED <<machine, Fdes, state, ret, trace, expected, strayed>>
    BY Zenon DEF BeginNext
  <1>2. IF ~state.end /\ unwind_get_return_address(state) # WalkReturns
        THEN pc' = "prepare" /\ UNCHANGED caller
        ELSE /\ pc' = IF ret # "EOK" THEN "done" ELSE "report"
             /\ caller' = "unwind_walk"
    BY DEF BeginNext
  <1>3. PICK F, q : InWalk(layout, F, q)
    BY <1>1, WalkFacts
  <1>4. /\ Traced(trace', expected) /\ trace' \in Seq(Activations)
        /\ (Fdes \in FullTables => ret' = "EOK")
        /\ Walk(layout, F, q) /\ IsState(state') /\ ~strayed'
    BY <1>1, <1>3, Zenon DEF InWalk
  <1>5. CASE HasFailed(state, ret, caller)
    <2>1. pc' = "done" /\ ret' # "EOK"
      BY <1>1, <1>2, <1>5 DEF HasFailed
    <2> QED
      BY <1>1, <1>4, <2>1, WalkStops
  <1>6. CASE \E p : AtReturn(F, q, p, state, ret, caller, trace)
    <2>1. PICK p : AtReturn(F, q, p, state, ret, caller, trace)
      BY <1>6
    <2>2. /\ trace = <<>> /\ p \in 2 .. q - 1 /\ p \in 1 .. Len(F) /\ ~state.signal_frame
          /\ IF p = Len(F) THEN state.end /\ ret = "EOK" ELSE At(F, p + 1, state, ret)
      BY <1>1, <2>1 DEF AtReturn, Behind
    <2>3. q \in 1 .. Len(F) /\ Len(F) \in Nat
      BY <1>3, Zenon DEF InWalk
    <2>4. /\ p # Len(F) /\ q # 1 /\ p + 1 # 1 /\ p + 1 \in 1 .. Len(F) /\ p + 1 \in 2 .. q
          /\ (p + 1 = q \/ p + 1 \in 2 .. q - 1)
      BY <2>2, <2>3
    <2>5. At(F, p + 1, state, ret)
      BY <2>2, <2>4, Zenon
    <2>6. FrameIs(layout, F, Known, mem, p + 1)
      BY <1>3, <2>4, Zenon DEF InWalk
    <2>7. unwind_get_return_address(state) = Known[p + 1].addr /\ ret = "EOK"
      BY <2>5, <2>6, Zenon DEF unwind_get_return_address, At, FrameIs
    <2>8. /\ Known[q].addr = WalkReturns
          /\ \A j \in 2 .. q - 1 : Known[j].addr # WalkReturns
      BY <1>4, <2>4, Zenon DEF Walk, Begins
    <2>9. state.signal_frame = (p + 1 = 1)
      <3>1. state.signal_frame \in BOOLEAN
        BY <1>3, Zenon DEF InWalk, IsState
      <3> QED
        BY <2>2, <2>4, <3>1
    <2>10. CASE Known[p + 1].addr = WalkReturns
      <3>1. p + 1 = q
        BY <2>4, <2>8, <2>10, Zenon
      <3>2. pc' = "report" /\ caller' = "unwind_walk"
        BY <1>2, <2>7, <2>10
      <3>3. q + Len(trace') = q
        BY <1>1, <2>2, <2>3
      <3>4. AtReport(F, q, state', ret', caller', trace')
        BY <1>1, <2>5, <2>9, <3>1, <3>2, <3>3, Zenon DEF AtReport
      <3> QED
        BY <1>1, <1>4, <3>2, <3>4, WalkContinues
    <2>11. CASE Known[p + 1].addr # WalkReturns
      <3>1. p + 1 \in 2 .. q - 1
        BY <2>4, <2>8, <2>11, Zenon
      <3>2. pc' = "prepare" /\ caller' = caller
        BY <1>2, <2>5, <2>7, <2>11 DEF At
      <3>3. Behind(q, p + 1, caller', trace')
        BY <1>1, <2>2, <3>1, <3>2, Zenon DEF Behind
      <3>4. AtPrepare(F, q, p + 1, state', ret', caller', trace')
        BY <1>1, <2>5, <2>9, <3>3, Zenon DEF AtPrepare
      <3> QED
        BY <1>1, <1>4, <3>2, <3>4, WalkContinues
    <2> QED
      BY <2>10, <2>11
  <1> QED
    BY <1>1, <1>3, <1>5, <1>6, Zenon DEF InWalk, Walk

-----------------------------------------------------------------------------
(***************************************************************************)
(* What right information says of a view.                                  *)
(***************************************************************************)
EntryIsRight(layout, t, i, v) ==
    /\ i \in DOMAIN t => FdeIsTyped(t[i])
    /\ Found(t, LookedUp(v), i) /\ t \in FullTables => MayTake(t, i, v)
    /\ i \in DOMAIN t /\ MayTake(t, i, v) =>
          /\ t \in FullTables => ~Row(t[i], v.addr).failed
          /\ Row(t[i], v.addr).failed \/ Describes(Row(t[i], v.addr), v.frame)
          /\ Program(t[i]) \in Seq(ToSet(Program(t[i]))) /\ Program(t[i]) # <<>>
          /\ Program(t[i])[1][1] = "def_cfa" /\ Program(t[i])[1][2] \in Registers

LEMMA RightEntries ==
    ASSUME NEW layout, InformationIsRight(layout), NEW t \in FdeTables,
           NEW v \in Views(layout), v.addr \in Int, NEW i
    PROVE  EntryIsRight(layout, t, i, v)
  <1>1. IsRight(t, layout) /\ (t \in FullTables => IsFull(t, layout))
    BY Zenon DEF InformationIsRight
  <1>2. \A j \in DOMAIN t : FdeIsTyped(t[j])
    BY <1>1, Zenon DEF IsRight, FdeIsTyped
  <1>3. /\ Len(t) \in Nat /\ 1 \in DOMAIN t /\ DOMAIN t = 1 .. Len(t)
        /\ \A a, b \in DOMAIN t : a < b => t[a].begin < t[b].begin
    BY TableFacts
  <1>4. DOMAIN t \subseteq Int /\ \A j \in DOMAIN t : 1 <= j
    BY <1>3
  <1>5. ASSUME Found(t, LookedUp(v), i), t \in FullTables PROVE MayTake(t, i, v)
    <2>1. /\ i \in DOMAIN t /\ (i = 1 \/ t[i].begin <= LookedUp(v))
          /\ \A j \in DOMAIN t : t[j].begin <= LookedUp(v) => j <= i
      BY <1>5, Zenon DEF Found
    <2> QED
      BY <1>1, <1>2, <1>4, <1>5, <2>1, FullTakes, Zenon
  <1>6. ASSUME i \in DOMAIN t, MayTake(t, i, v), t \in FullTables
        PROVE  ~Row(t[i], v.addr).failed
    BY <1>1, <1>2, <1>3, <1>4, <1>6, FullKnows, Zenon
  <1>7. ASSUME i \in DOMAIN t, MayTake(t, i, v)
        PROVE  /\ Row(t[i], v.addr).failed \/ Describes(Row(t[i], v.addr), v.frame)
               /\ Program(t[i]) \in Seq(ToSet(Program(t[i]))) /\ Program(t[i]) # <<>>
               /\ Program(t[i])[1][1] = "def_cfa" /\ Program(t[i])[1][2] \in Registers
    BY <1>1, <1>7, Zenon DEF IsRight
  <1> QED
    BY <1>2, <1>5, <1>6, <1>7, Zenon DEF EntryIsRight

LEMMA RowIsFirstEnd ==
    ASSUME NEW fde, NEW addr, Len(Program(fde)) \in Nat, NEW k \in 0 .. Len(Program(fde)),
           IsEnd(fde, addr, k), \A j \in 0 .. k - 1 : ~IsEnd(fde, addr, j)
    PROVE  Row(fde, addr) = Rows(fde)[k]
  <1> DEFINE ends  == {e \in 0 .. Len(Program(fde)) : IsEnd(fde, addr, e)}
             least == CHOOSE e \in ends : \A j \in ends : e <= j
  <1>1. k \in ends
    BY Zenon
  <1>2. \A j \in ends : j \in 0 .. Len(Program(fde)) /\ IsEnd(fde, addr, j)
    BY Zenon
  <1>3. Row(fde, addr) = Rows(fde)[least]
    BY Zenon DEF Row
  <1> HIDE DEF ends
  <1>4. \A j \in ends : k <= j
    <2> SUFFICES ASSUME NEW j \in ends PROVE k <= j
      OBVIOUS
    <2>1. j \in 0 .. Len(Program(fde)) /\ ~(j \in 0 .. k - 1)
      BY <1>2
    <2> QED
      BY <2>1
  <1>5. least \in ends /\ \A j \in ends : least <= j
    BY <1>1, <1>4, Zenon
  <1> HIDE DEF least
  <1>6. least <= k /\ k <= least /\ least \in 0 .. Len(Program(fde))
    BY <1>1, <1>2, <1>4, <1>5, Zenon
  <1>7. least = k
    BY <1>6
  <1> QED
    BY <1>3, <1>7

-----------------------------------------------------------------------------
(***************************************************************************)
(* The steps of unwind_next_frame.                                         *)
(***************************************************************************)
LEMMA ErrorHolds ==
    ASSUME NEW layout, UnwindInv(layout), NEW F, NEW q, InWalk(layout, F, q),
           UNCHANGED <<machine, Fdes, expected, trace, strayed, caller>>,
           NEW p, Behind(q, p, caller, trace), Fdes \notin FullTables,
           state' = [state EXCEPT !.end = TRUE], ret' # "EOK", pc' = "return"
    PROVE  UnwindInv(layout)'
  <1>1. StateIs(state', state.frame, state.signal_frame, TRUE)
    BY StateThatEnds, Zenon DEF InWalk
  <1>2. HasFailed(state', ret', caller')
    <2>1. state'.end = TRUE
      BY <1>1, Zenon DEF StateIs
    <2>2. caller' \in {"unwind_walk", "unwind_current_begin"}
      BY DEF Behind
    <2> QED
      BY <2>1, <2>2 DEF HasFailed
  <1>3. /\ Walk(layout, F, q) /\ trace' \in Seq(Activations) /\ ~strayed'
        /\ Traced(trace', expected)
    BY Zenon DEF InWalk
  <1>4. IsState(state')
    BY <1>1, Zenon DEF StateIs
  <1> QED
    BY <1>2, <1>3, <1>4, WalkContinues

LEMMA PrepareFrameHolds ==
    ASSUME NEW layout, InformationIsRight(layout), UnwindInv(layout), PrepareFrame
    PROVE  UnwindInv(layout)'
  <1>1. /\ pc = "prepare"
        /\ UNCHANGED <<machine, Fdes, expected, trace, strayed, caller>>
    BY Zenon DEF PrepareFrame
  <1>2. PICK F, q : InWalk(layout, F, q)
    BY <1>1, WalkFacts
  <1>3. PICK p : AtPrepare(F, q, p, state, ret, caller, trace)
    BY <1>1, <1>2, Zenon DEF InWalk, Walk
  <1> DEFINE v == ViewOf(layout, Known, p)
             addr == Known[p].addr
             e == find_fde(get_reliable_pc(state))
             t == [state EXCEPT !.signal_frame = @ \/ e.signal]
  <1>4. /\ Behind(q, p, caller, trace) /\ p \in 1 .. Len(F) /\ state.frame = F[p]
        /\ ~state.end /\ ret = "EOK" /\ state.signal_frame = (p = 1)
    BY <1>3, Zenon DEF AtPrepare, At
  <1>5. /\ state.frame["pc"] = addr /\ addr \in Int
        /\ v \in Views(layout)
    BY <1>2, <1>4, Zenon DEF InWalk, FrameIs
  <1>6. v.addr = addr /\ v.exact = (p = 1)
    BY DEF ViewOf, View
  <1> HIDE DEF v
  <1> DEFINE first == p = 1
  <1> HIDE DEF addr
  <1>22. v.exact = first /\ v.addr = addr /\ addr \in Int /\ state.signal_frame = first
    BY <1>4, <1>5, <1>6
  <1> HIDE DEF first
  <1>7. get_reliable_pc(state) = LookedUp(v)
    <2>1. unwind_get_return_address(state) = addr
      BY <1>4, <1>5, Zenon DEF unwind_get_return_address
    <2>2. addr - 0 = addr
      BY <1>22
    <2> QED
      BY <1>22, <2>1, <2>2, Zenon DEF LookedUp, get_reliable_pc
  <1>8. Fdes \in FdeTables
    BY Zenon DEF UnwindInv
  <1>9. PICK i : Found(Fdes, LookedUp(v), i) /\ find_fde(LookedUp(v)) = Fdes[i]
    BY <1>8, FindsOne, Zenon
  <1>10. e = Fdes[i] /\ i \in DOMAIN Fdes /\ (i = 1 \/ Fdes[i].begin <= LookedUp(v))
    BY <1>7, <1>9, Zenon DEF Found
  <1>11. EntryIsRight(layout, Fdes, i, v)
    BY <1>5, <1>6, <1>8, RightEntries, Zenon
  <1> HIDE DEF e
  <1>12. FdeIsTyped(e)
    BY <1>10, <1>11, Zenon DEF EntryIsRight
  <1>13. /\ t.frame = state.frame /\ t.end = state.end
         /\ t.signal_frame = (state.signal_frame \/ e.signal)
    <2>1. IsState(state)
      BY <1>2, Zenon DEF InWalk
    <2> QED
      BY <2>1 DEF IsState
  <1> HIDE DEF t
  <1>14. get_reliable_pc(t) = ComparedWith(e, v)
    <2>1. unwind_get_return_address(t) = addr
      BY <1>4, <1>5, <1>13, Zenon DEF unwind_get_return_address
    <2>2. addr - 0 = addr
      BY <1>22
    <2>3. CASE first \/ e.signal
      <3>1. t.signal_frame /\ (v.exact \/ e.signal)
        BY <1>13, <1>22, <2>3, Zenon
      <3> QED
        BY <1>22, <2>1, <2>2, <3>1, Zenon DEF ComparedWith, get_reliable_pc
    <2>4. CASE ~(first \/ e.signal)
      <3>1. ~t.signal_frame /\ ~(v.exact \/ e.signal)
        BY <1>13, <1>22, <2>4, Zenon
      <3> QED
        BY <1>22, <2>1, <3>1, Zenon DEF ComparedWith, get_reliable_pc
    <2> QED
      BY <2>3, <2>4, Zenon
  <1> DEFINE pf == parse_fde(state, e)
  <1>15. /\ pf.state = t
         /\ pf.ret = IF ComparedWith(e, v) < e.begin \/ ComparedWith(e, v) >= e.begin + e.size
                     THEN "EINVAL" ELSE "EOK"
    <2>1. pf = [state |-> t,
                ret |-> IF get_reliable_pc(t) < e.begin \/ get_reliable_pc(t) >= e.begin + e.size
                        THEN "EINVAL" ELSE "EOK"]
      BY DEF parse_fde, t
    <2> HIDE DEF pf
    <2> QED
      BY <1>14, <2>1
  <1>16. \/ /\ state.end \/ pf.ret # "EOK"
            /\ OutError("EINVAL")
         \/ /\ ~state.end /\ pf.ret = "EOK"
            /\ state' = [pf.state EXCEPT !.signal_frame = FALSE]
            /\ loc' = e.begin /\ rules' = NoRules /\ program' = Program(e)
            /\ pc' = "exec" /\ UNCHANGED ret
    BY Zenon DEF PrepareFrame, e, Program
  <1> HIDE DEF pf
  <1>17. ComparedWith(e, v) \in Int /\ e.begin \in Int /\ e.size \in Int
    BY <1>5, <1>6, <1>12 DEF ComparedWith, FdeIsTyped
  <1>18. MayTake(Fdes, i, v) <=> e.begin <= ComparedWith(e, v) /\ ComparedWith(e, v) < e.begin + e.size
    BY <1>10, Zenon DEF MayTake, ComparedWith
  <1>19. pf.ret = "EOK" <=> MayTake(Fdes, i, v)
    BY <1>15, <1>17, <1>18
  <1>20. CASE /\ state.end \/ pf.ret # "EOK"
              /\ OutError("EINVAL")
    <2>1. Fdes \notin FullTables
      BY <1>4, <1>9, <1>11, <1>19, <1>20, Zenon DEF EntryIsRight
    <2>2. state' = [state EXCEPT !.end = TRUE] /\ ret' # "EOK" /\ pc' = "return"
      BY <1>20 DEF OutError
    <2> QED
      BY <1>1, <1>2, <1>4, <2>1, <2>2, ErrorHolds, Zenon
  <1>21. CASE /\ ~state.end /\ pf.ret = "EOK"
              /\ state' = [pf.state EXCEPT !.signal_frame = FALSE]
              /\ loc' = e.begin /\ rules' = NoRules /\ program' = Program(e)
              /\ pc' = "exec" /\ UNCHANGED ret
    <2>1. MayTake(Fdes, i, v)
      BY <1>19, <1>21
    <2>2. StateIs(state', state.frame, FALSE, state.end)
      <3>1. state' = [[state EXCEPT !.signal_frame = @ \/ e.signal] EXCEPT !.signal_frame = FALSE]
        BY <1>15, <1>21, Zenon DEF t
      <3>2. IsState(state)
        BY <1>2, Zenon DEF InWalk
      <3> QED
        BY <3>1, <3>2, StateThatPrepared, Zenon
    <2>3. Program(e) \in Seq(ToSet(Program(e)))
      BY <1>10, <1>11, <2>1, Zenon DEF EntryIsRight
    <2>4. Executing(e, addr, 0, state', loc', rules', program')
      <3>1. Len(Program(e)) \in Nat /\ 0 \in 0 .. Len(Program(e))
        BY <2>3
      <3>2. Rows(e)[0] = FirstRow(e)
        BY <3>1, RowsAreRun, Zenon DEF IsRun, RowAfter
      <3>3. /\ IsRow(FirstRow(e)) /\ FirstRow(e).loc = e.begin /\ FirstRow(e).rules = NoRules
            /\ ~FirstRow(e).failed
        BY DEF FirstRow, IsRow
      <3>4. Program(e) = SubSeq(Program(e), 0 + 1, Len(Program(e)))
        BY <2>3
      <3>5. ~(0 > 0) /\ \A j \in 0 .. 0 - 1 : FALSE
        OBVIOUS
      <3> QED
        BY <1>21, <3>1, <3>2, <3>3, <3>4, <3>5, Zenon DEF Executing
    <2>5. AtExec(layout, F, Known, Fdes, q, p, i, 0, state', ret', caller', trace', loc', rules',
                 program')
      <3>1. At(F, p, state', ret') /\ state'.signal_frame = FALSE
        BY <1>4, <1>21, <2>2, Zenon DEF At, StateIs
      <3> QED
        BY <1>1, <1>4, <1>10, <2>1, <2>4, <3>1, Zenon DEF AtExec, v, addr
    <2>6. /\ Walk(layout, F, q) /\ IsState(state') /\ trace' \in Seq(Activations) /\ ~strayed'
          /\ Traced(trace', expected) /\ (Fdes \in FullTables => ret' = "EOK")
      BY <1>1, <1>2, <1>21, <2>2, Zenon DEF InWalk, StateIs
    <2> QED
      BY <1>1, <1>21, <2>5, <2>6, WalkContinues
  <1> QED
    BY <1>16, <1>20, <1>21

\* One operation, and what it makes of a row.
DoneTo(row) ==
    /\ IsRow(row)
    /\ \/ /\ ~row.failed
          /\ StateIs(state', state.frame, state.signal_frame, state.end)
          /\ state'.cfa_reg_idx = row.cfa_reg /\ state'.cfa_offset = row.cfa_offset
          /\ loc' = row.loc /\ rules' = row.rules /\ UNCHANGED <<ret, pc>>
       \/ /\ row.failed
          /\ state' = [state EXCEPT !.end = TRUE] /\ ret' # "EOK" /\ pc' = "return"

LEMMA RowFails ==
    ASSUME NEW row, IsRow(row), NEW error, error # "EOK", OutError(error)
    PROVE  DoneTo([row EXCEPT !.failed = TRUE])
  <1> SUFFICES ASSUME NEW row2, row2 = [row EXCEPT !.failed = TRUE]
               PROVE  DoneTo(row2)
    BY Zenon
  <1>1. IsRow(row2) /\ row2.failed
    BY DEF IsRow
  <1>2. state' = [state EXCEPT !.end = TRUE] /\ ret' # "EOK" /\ pc' = "return"
    BY Zenon DEF OutError
  <1> QED
    BY <1>1, <1>2, Zenon DEF DoneTo

LEMMA RuleIsSet ==
    ASSUME NEW row, IsRow(row), ~row.failed, IsState(state), loc = row.loc, rules = row.rules,
           state.cfa_reg_idx = row.cfa_reg, state.cfa_offset = row.cfa_offset,
           NEW reg, NEW rule, NEW offset, SetRule(reg, rule, offset),
           UNCHANGED <<state, ret, loc, pc>>
    PROVE  DoneTo(RowWithRule(row, reg, rule, offset))
  <1>1. StateIs(state', state.frame, state.signal_frame, state.end)
    BY Zenon DEF StateIs
  <1>2. CASE reg \in Registers
    <2> SUFFICES ASSUME NEW row2, row2 = [row EXCEPT !.rules =
                            [@ EXCEPT ![reg] = [rule |-> rule, offset |-> offset]]]
                 PROVE  DoneTo(row2)
      BY <1>2, Zenon DEF RowWithRule
    <2>1. /\ IsRow(row2) /\ ~row2.failed /\ row2.loc = row.loc /\ row2.cfa_reg = row.cfa_reg
          /\ row2.cfa_offset = row.cfa_offset
          /\ row2.rules = [row.rules EXCEPT ![reg] = [rule |-> rule, offset |-> offset]]
      BY DEF IsRow
    <2>2. rules' = row2.rules
      BY <1>2, <2>1, Zenon DEF SetRule
    <2> QED
      BY <1>1, <2>1, <2>2, Zenon DEF DoneTo
  <1>3. CASE reg \notin Registers
    <2>1. rules' = row.rules /\ RowWithRule(row, reg, rule, offset) = row
      BY <1>3, Zenon DEF SetRule, RowWithRule
    <2> QED
      BY <1>1, <2>1, Zenon DEF DoneTo
  <1> QED
    BY <1>2, <1>3

LEMMA CfaIsSet ==
    ASSUME NEW row, IsRow(row), ~row.failed, IsState(state), loc = row.loc, rules = row.rules,
           NEW reg, NEW offset, SetCfa(reg, offset), UNCHANGED <<loc, rules>>
    PROVE  DoneTo(RowWithCfa(row, reg, offset))
  <1>1. CASE reg \in Registers
    <2> SUFFICES ASSUME NEW row2, row2 = [row EXCEPT !.cfa_reg = reg, !.cfa_offset = offset]
                 PROVE  DoneTo(row2)
      BY <1>1, Zenon DEF RowWithCfa
    <2>1. /\ IsRow(row2) /\ ~row2.failed /\ row2.loc = row.loc /\ row2.cfa_reg = reg
          /\ row2.cfa_offset = offset /\ row2.rules = row.rules
      BY DEF IsRow
    <2>2. /\ state' = [state EXCEPT !.cfa_reg_idx = reg, !.cfa_offset = offset]
          /\ UNCHANGED <<ret, pc>>
      BY <1>1, Zenon DEF SetCfa
    <2>3. /\ StateIs(state', state.frame, state.signal_frame, state.end)
          /\ state'.cfa_reg_idx = reg /\ state'.cfa_offset = offset
      <3> SUFFICES ASSUME NEW s2, s2 = [state EXCEPT !.cfa_reg_idx = reg, !.cfa_offset = offset]
                   PROVE  /\ StateIs(s2, state.frame, state.signal_frame, state.end)
                          /\ s2.cfa_reg_idx = reg /\ s2.cfa_offset = offset
        BY <2>2, Zenon
      <3>1. StateIs(s2, state.frame, state.signal_frame, state.end)
        BY DEF IsState, StateIs
      <3>2. s2.cfa_reg_idx = reg /\ s2.cfa_offset = offset
        BY DEF IsState
      <3> QED
        BY <3>1, <3>2
    <2> QED
      BY <2>1, <2>2, <2>3, Zenon DEF DoneTo
  <1>2. CASE reg \notin Registers
    <2>1. OutError("EINVAL") /\ RowWithCfa(row, reg, offset) = [row EXCEPT !.failed = TRUE]
      BY <1>2, Zenon DEF SetCfa, RowWithCfa
    <2>2. "EINVAL" # "EOK"
      OBVIOUS
    <2> QED
      BY <2>1, <2>2, RowFails, Zenon
  <1> QED
    BY <1>1, <1>2

LEMMA OperationIsDone ==
    ASSUME NEW row, IsRow(row), ~row.failed, IsState(state), loc = row.loc, rules = row.rules,
           NEW op, ExecOp(op),
           \/ op[1] = "def_cfa"
           \/ state.cfa_reg_idx = row.cfa_reg /\ state.cfa_offset = row.cfa_offset
    PROVE  DoneTo(Executed(row, op))
  <1>1. CASE op[1] = "nop"
    <2>1. Executed(row, op) = row /\ UNCHANGED <<state, ret, loc, rules, pc>>
      BY <1>1 DEF Executed, ExecOp, Operations
    <2>2. StateIs(state', state.frame, state.signal_frame, state.end)
      BY <2>1, Zenon DEF StateIs
    <2>3. state.cfa_reg_idx = row.cfa_reg /\ state.cfa_offset = row.cfa_offset
      BY <1>1
    <2> QED
      BY <2>1, <2>2, <2>3, Zenon DEF DoneTo
  <1>2. CASE op[1] = "advance_loc"
    <2>1. /\ Executed(row, op) = [row EXCEPT !.loc = @ + op[2]]
          /\ loc' = loc + op[2] /\ UNCHANGED <<state, ret, rules, pc>>
      BY <1>2 DEF Executed, ExecOp, Operations
    <2> SUFFICES ASSUME NEW row2, row2 = [row EXCEPT !.loc = @ + op[2]]
                 PROVE  DoneTo(row2)
      BY <2>1, Zenon
    <2>2. /\ IsRow(row2) /\ ~row2.failed /\ row2.cfa_reg = row.cfa_reg
          /\ row2.cfa_offset = row.cfa_offset /\ row2.rules = row.rules
          /\ row2.loc = row.loc + op[2]
      BY DEF IsRow
    <2>3. StateIs(state', state.frame, state.signal_frame, state.end)
      BY <2>1, Zenon DEF StateIs
    <2>4. state.cfa_reg_idx = row.cfa_reg /\ state.cfa_offset = row.cfa_offset
      BY <1>2
    <2> QED
      BY <2>1, <2>2, <2>3, <2>4, Zenon DEF DoneTo
  <1>3. CASE op[1] = "offset"
    <2>1. /\ Executed(row, op) = RowWithRule(row, op[2], "offset", op[3])
          /\ SetRule(op[2], "offset", op[3]) /\ UNCHANGED <<state, ret, loc, pc>>
      BY <1>3 DEF Executed, ExecOp, Operations
    <2>2. state.cfa_reg_idx = row.cfa_reg /\ state.cfa_offset = row.cfa_offset
      BY <1>3
    <2> QED
      BY <2>1, <2>2, RuleIsSet, Zenon
  <1>4. CASE op[1] = "restore"
    <2>1. /\ Executed(row, op) = RowWithRule(row, op[2], "same_value", 0)
          /\ SetRule(op[2], "same_value", 0) /\ UNCHANGED <<state, ret, loc, pc>>
      BY <1>4 DEF Executed, ExecOp, Operations
    <2>2. state.cfa_reg_idx = row.cfa_reg /\ state.cfa_offset = row.cfa_offset
      BY <1>4
    <2> QED
      BY <2>1, <2>2, RuleIsSet, Zenon
  <1>5. CASE op[1] = "def_cfa"
    <2>1. /\ Executed(row, op) = RowWithCfa(row, op[2], op[3])
          /\ SetCfa(op[2], op[3]) /\ UNCHANGED <<loc, rules>>
      BY <1>5 DEF Executed, ExecOp, Operations
    <2> QED
      BY <2>1, CfaIsSet, Zenon
  <1>6. CASE op[1] = "def_cfa_register"
    <2>1. /\ Executed(row, op) = RowWithCfa(row, op[2], row.cfa_offset)
          /\ SetCfa(op[2], state.cfa_offset) /\ UNCHANGED <<loc, rules>>
      BY <1>6 DEF Executed, ExecOp, Operations
    <2>2. state.cfa_offset = row.cfa_offset
      BY <1>6
    <2> QED
      BY <2>1, <2>2, CfaIsSet, Zenon
  <1>7. CASE op[1] = "def_cfa_offset"
    <2>1. /\ Executed(row, op) = [row EXCEPT !.cfa_offset = op[2]]
          /\ state' = [state EXCEPT !.cfa_offset = op[2]] /\ UNCHANGED <<ret, loc, rules, pc>>
      BY <1>7 DEF Executed, ExecOp, Operations
    <2> SUFFICES ASSUME NEW row2, row2 = [row EXCEPT !.cfa_offset = op[2]]
                 PROVE  DoneTo(row2)
      BY <2>1, Zenon
    <2>2. /\ IsRow(row2) /\ ~row2.failed /\ row2.loc = row.loc /\ row2.cfa_reg = row.cfa_reg
          /\ row2.cfa_offset = op[2] /\ row2.rules = row.rules
      BY DEF IsRow
    <2>3. /\ StateIs(state', state.frame, state.signal_frame, state.end)
          /\ state'.cfa_reg_idx = state.cfa_reg_idx /\ state'.cfa_offset = op[2]
      BY <2>1, StateWithOffset, ZenonT(40)
    <2>4. state.cfa_reg_idx = row.cfa_reg
      BY <1>7
    <2> QED
      BY <2>1, <2>2, <2>3, <2>4, Zenon DEF DoneTo
  <1>8. CASE op[1] \notin Operations
    <2>1. Executed(row, op) = [row EXCEPT !.failed = TRUE] /\ OutError("ENOSYS")
      BY <1>8 DEF Executed, ExecOp, Operations
    <2>2. "ENOSYS" # "EOK"
      OBVIOUS
    <2> QED
      BY <2>1, <2>2, RowFails, Zenon
  <1> QED
    BY <1>1, <1>2, <1>3, <1>4, <1>5, <1>6, <1>7, <1>8 DEF Operations

LEMMA ProgramGoesOn ==
    ASSUME NEW S, NEW P \in Seq(S), NEW k \in 0 .. Len(P),
           SubSeq(P, k + 1, Len(P)) # <<>>
    PROVE  /\ k + 1 \in 0 .. Len(P) /\ (k + 1) - 1 = k /\ k + 1 > 0 /\ k + 1 # 0
           /\ Head(SubSeq(P, k + 1, Len(P))) = P[k + 1]
           /\ Tail(SubSeq(P, k + 1, Len(P))) = SubSeq(P, (k + 1) + 1, Len(P))
  <1>1. k + 1 <= Len(P)
    OBVIOUS
  <1>2. Head(SubSeq(P, k + 1, Len(P))) = P[k + 1]
    BY <1>1
  <1>3. Tail(SubSeq(P, k + 1, Len(P))) = SubSeq(P, (k + 1) + 1, Len(P))
    BY <1>1
  <1> QED
    BY <1>1, <1>2, <1>3

\* What is known while a program is executed.
ExecIs(layout, F, q, p, i, k) ==
    /\ InWalk(layout, F, q) /\ Behind(q, p, caller, trace) /\ p \in 1 .. Len(F)
    /\ state.frame = F[p] /\ ~state.end /\ ret = "EOK" /\ ~state.signal_frame /\ IsState(state)
    /\ i \in DOMAIN Fdes /\ MayTake(Fdes, i, ViewOf(layout, Known, p))
    /\ EntryIsRight(layout, Fdes, i, ViewOf(layout, Known, p))
    /\ Known[p].addr \in Int /\ ViewOf(layout, Known, p).addr = Known[p].addr
    /\ unwind_get_return_address(state) = Known[p].addr
    /\ Executing(Fdes[i], Known[p].addr, k, state, loc, rules, program)

LEMMA ExecFacts ==
    ASSUME NEW layout, InformationIsRight(layout), UnwindInv(layout), pc = "exec"
    PROVE  \E F, q, p, i, k : ExecIs(layout, F, q, p, i, k)
  <1>1. PICK F, q : InWalk(layout, F, q)
    BY WalkFacts
  <1>2. PICK p, i, k : AtExec(layout, F, Known, Fdes, q, p, i, k, state, ret, caller, trace,
                              loc, rules, program)
    BY <1>1, Zenon DEF InWalk, Walk
  <1> DEFINE v == ViewOf(layout, Known, p)
             addr == Known[p].addr
  <1>3. /\ Behind(q, p, caller, trace) /\ p \in 1 .. Len(F) /\ state.frame = F[p]
        /\ ~state.end /\ ret = "EOK" /\ ~state.signal_frame
        /\ i \in DOMAIN Fdes /\ MayTake(Fdes, i, v)
        /\ Executing(Fdes[i], addr, k, state, loc, rules, program)
    BY <1>2, Zenon DEF AtExec, At
  <1>4. /\ state.frame["pc"] = addr /\ addr \in Int /\ v \in Views(layout)
    BY <1>1, <1>3, Zenon DEF InWalk, FrameIs
  <1>5. v.addr = addr
    BY DEF ViewOf, View
  <1>6. Fdes \in FdeTables /\ IsState(state)
    BY Zenon DEF UnwindInv
  <1>7. EntryIsRight(layout, Fdes, i, v)
    <2> HIDE DEF v, addr
    <2> QED
      BY <1>4, <1>5, <1>6, RightEntries, Zenon
  <1>8. unwind_get_return_address(state) = addr
    BY <1>3, <1>4, Zenon DEF unwind_get_return_address
  <1>9. ExecIs(layout, F, q, p, i, k)
    BY <1>1, <1>3, <1>4, <1>5, <1>6, <1>7, <1>8, Zenon DEF ExecIs
  <1> QED
    BY <1>9

LEMMA DwarfExecHolds ==
    ASSUME NEW layout, InformationIsRight(layout), UnwindInv(layout), DwarfExec
    PROVE  UnwindInv(layout)'
  <1>1. /\ pc = "exec" /\ program # <<>> /\ ~Reached
        /\ ExecOp(Head(program)) /\ program' = Tail(program)
        /\ UNCHANGED <<machine, Fdes, expected, trace, strayed, caller>>
    BY Zenon DEF DwarfExec
  <1>2. PICK F, q, p, i, k : ExecIs(layout, F, q, p, i, k)
    BY <1>1, ExecFacts
  <1> DEFINE addr == Known[p].addr
             fde  == Fdes[i]
             P    == Program(fde)
             row  == Rows(fde)[k]
             row2 == Rows(fde)[k + 1]
  <1>4. /\ InWalk(layout, F, q) /\ Behind(q, p, caller, trace) /\ p \in 1 .. Len(F)
        /\ state.frame = F[p] /\ ~state.end /\ ret = "EOK" /\ ~state.signal_frame
        /\ IsState(state) /\ unwind_get_return_address(state) = addr
        /\ i \in DOMAIN Fdes /\ MayTake(Fdes, i, ViewOf(layout, Known, p))
        /\ Executing(fde, addr, k, state, loc, rules, program)
    BY <1>2, Zenon DEF ExecIs
  <1>10. /\ P \in Seq(ToSet(P)) /\ P # <<>> /\ P[1][1] = "def_cfa" /\ P[1][2] \in Registers
         /\ Fdes \in FullTables => ~Row(fde, addr).failed
    BY <1>2, Zenon DEF ExecIs, EntryIsRight
  <1> HIDE DEF addr
  <1>11. /\ k \in 0 .. Len(P) /\ program = SubSeq(P, k + 1, Len(P))
         /\ IsRow(row) /\ loc = row.loc /\ rules = row.rules /\ ~row.failed
         /\ k > 0 => state.cfa_reg_idx = row.cfa_reg /\ state.cfa_offset = row.cfa_offset
         /\ \A j \in 0 .. k - 1 : ~IsEnd(fde, addr, j)
    BY <1>4, Zenon DEF Executing
  <1> HIDE DEF fde
  <1>12. /\ k + 1 \in 0 .. Len(P) /\ (k + 1) - 1 = k /\ k + 1 > 0 /\ k + 1 # 0
         /\ Head(program) = P[k + 1] /\ program' = SubSeq(P, (k + 1) + 1, Len(P))
         /\ Len(P) \in Nat
    <2> HIDE DEF P
    <2>1. /\ k + 1 \in 0 .. Len(P) /\ (k + 1) - 1 = k /\ k + 1 > 0 /\ k + 1 # 0
          /\ Head(SubSeq(P, k + 1, Len(P))) = P[k + 1]
          /\ Tail(SubSeq(P, k + 1, Len(P))) = SubSeq(P, (k + 1) + 1, Len(P))
      <3>1. SubSeq(P, k + 1, Len(P)) # <<>>
        BY <1>1, <1>11, Zenon
      <3> QED
        BY <1>10, <1>11, <3>1, ProgramGoesOn
    <2>2. Len(P) \in Nat
      BY <1>10
    <2> QED
      BY <1>1, <1>11, <2>1, <2>2, Zenon
  <1>13. row2 = Executed(row, P[k + 1])
    <2>1. IsRun(fde, Rows(fde), Len(P))
      BY <1>12, RowsAreRun, Zenon
    <2>2. row2 = RowAfter(fde, Rows(fde), k + 1)
      BY <1>12, <2>1, Zenon DEF IsRun
    <2>3. RowAfter(fde, Rows(fde), k + 1) = Executed(Rows(fde)[(k + 1) - 1], P[k + 1])
      BY <1>12, Zenon DEF RowAfter
    <2> QED
      BY <1>12, <2>2, <2>3, Zenon
  <1>14. ~IsEnd(fde, addr, k)
    <2>2. ~(row.loc > addr)
      BY <1>1, <1>4, <1>11, Zenon DEF Reached
    <2>3. k # Len(P)
      <3> HIDE DEF P
      <3> QED
        BY <1>11, <1>12
    <2> QED
      BY <1>11, <2>2, <2>3, Zenon DEF IsEnd
  <1>15. \A j \in 0 .. (k + 1) - 1 : ~IsEnd(fde, addr, j)
    <2> SUFFICES ASSUME NEW j \in 0 .. (k + 1) - 1 PROVE ~IsEnd(fde, addr, j)
      OBVIOUS
    <2>1. j = k \/ j \in 0 .. k - 1
      BY <1>12
    <2> QED
      BY <1>11, <1>14, <2>1, Zenon
  <1>16. DoneTo(row2)
    <2>1. \/ P[k + 1][1] = "def_cfa"
          \/ state.cfa_reg_idx = row.cfa_reg /\ state.cfa_offset = row.cfa_offset
      <3>1. CASE k > 0
        BY <1>11, <3>1, Zenon
      <3>2. CASE ~(k > 0)
        <4>1. k + 1 = 1
          BY <1>11, <1>12, <3>2
        <4> QED
          BY <1>10, <4>1, Zenon
      <3> QED
        BY <3>1, <3>2
    <2>2. ExecOp(P[k + 1])
      BY <1>1, <1>12, Zenon
    <2> HIDE DEF row, P
    <2> QED
      BY <1>4, <1>11, <1>13, <2>1, <2>2, OperationIsDone, Zenon
  <1> HIDE DEF row
  <1>17. CASE row2.failed
    <2>1. IsEnd(fde, addr, k + 1)
      BY <1>17, Zenon DEF IsEnd
    <2>2. Row(fde, addr) = row2
      BY <1>12, <1>15, <2>1, RowIsFirstEnd, Zenon
    <2>3. Fdes \notin FullTables
      BY <1>10, <1>17, <2>2, Zenon
    <2>4. state' = [state EXCEPT !.end = TRUE] /\ ret' # "EOK" /\ pc' = "return"
      BY <1>16, <1>17, Zenon DEF DoneTo
    <2> QED
      BY <1>1, <1>4, <2>3, <2>4, ErrorHolds, Zenon
  <1>18. CASE ~row2.failed
    <2>1. /\ StateIs(state', state.frame, state.signal_frame, state.end)
          /\ state'.cfa_reg_idx = row2.cfa_reg /\ state'.cfa_offset = row2.cfa_offset
          /\ loc' = row2.loc /\ rules' = row2.rules /\ UNCHANGED <<ret, pc>> /\ IsRow(row2)
      BY <1>16, <1>18, Zenon DEF DoneTo
    <2>2. Executing(fde, addr, k + 1, state', loc', rules', program')
      BY <1>12, <1>15, <1>18, <2>1, Zenon DEF Executing
    <2>3. At(F, p, state', ret') /\ ~state'.signal_frame
      BY <1>4, <2>1, Zenon DEF At, StateIs
    <2>4. AtExec(layout, F, Known, Fdes, q, p, i, k + 1, state', ret', caller', trace', loc',
                 rules', program')
      BY <1>1, <1>4, <2>2, <2>3, Zenon DEF AtExec, addr, fde
    <2>5. /\ Walk(layout, F, q) /\ IsState(state') /\ trace' \in Seq(Activations) /\ ~strayed'
          /\ Traced(trace', expected) /\ (Fdes \in FullTables => ret' = "EOK") /\ pc' = "exec"
      BY <1>1, <1>4, <2>1, Zenon DEF InWalk, StateIs
    <2> QED
      BY <1>1, <2>4, <2>5, WalkContinues
  <1> QED
    BY <1>17, <1>18

-----------------------------------------------------------------------------
(***************************************************************************)
(* apply_reg_rules: a row that describes a frame leads to its caller.      *)
(***************************************************************************)
NewFrame(f, cfa, rs) ==
    [r \in Registers |->
        CASE rs[r].rule = "same_value" -> f[r]
          [] rs[r].rule = "offset"     -> Read(cfa - rs[r].offset)
          [] rs[r].rule = "def_cfa"    -> cfa]

Strays(cfa, rs) ==
    \E r \in Registers : rs[r].rule = "offset" /\ ~OnStack(cfa - rs[r].offset)

\* The words that the rules may name.
InUse(a) == OnStack(a) /\ a \in DOMAIN mem

FindsCaller(f, l, row) ==
    /\ f[row.cfa_reg] + row.cfa_offset = Cfa(f, l)
    /\ NewFrame(f, Cfa(f, l), row.rules) = CallerOf(f, l, mem)
    /\ ~Strays(Cfa(f, l), row.rules)

LEMMA WordsOfFrame ==
    ASSUME NEW f, NEW l, NEW k, Sits(f, l, mem, k), Spans(f, l),
           DOMAIN mem = 1 .. StackSize, StackSize \in Nat, Cfa(f, l) <= StackSize + 1,
           regs["sp"] \in Int, regs["sp"] <= f["sp"], regs["sp"] > 0
    PROVE  /\ InUse(Cfa(f, l) - Given(l.fn)) /\ InUse(Cfa(f, l) - 1)
           /\ l.saved # 0 => InUse(Cfa(f, l) - l.saved)
  <1> DEFINE c == Cfa(f, l)
             g == c - Given(l.fn)
             s == c - l.saved
  <1>1. /\ f["sp"] \in Int /\ c \in Int /\ f["sp"] < c /\ g \in Int /\ f["sp"] <= g /\ g < c
        /\ s \in Int /\ f["sp"] <= s /\ (l.saved # 0 => s < c)
    BY Zenon DEF Spans
  <1> HIDE DEF c, g, s
  <1>2. c <= StackSize + 1
    BY Zenon DEF c
  <1>3. ASSUME NEW a \in Int, f["sp"] <= a, a < c PROVE InUse(a)
    <2>1. regs["sp"] <= a /\ a <= StackSize /\ a > 0
      BY <1>1, <1>2, <1>3
    <2> QED
      BY <2>1 DEF InUse, OnStack
  <1>4. c - 1 \in Int /\ f["sp"] <= c - 1 /\ c - 1 < c
    BY <1>1
  <1>5. InUse(g) /\ InUse(c - 1) /\ (l.saved # 0 => InUse(s))
    BY <1>1, <1>3, <1>4, Zenon
  <1> QED
    BY <1>5, Zenon DEF c, g, s

LEMMA CallerIsFound ==
    ASSUME NEW f, NEW l, NEW k, Sits(f, l, mem, k), Spans(f, l),
           DOMAIN mem = 1 .. StackSize, StackSize \in Nat, Cfa(f, l) <= StackSize + 1,
           regs["sp"] \in Int, regs["sp"] <= f["sp"], regs["sp"] > 0,
           NEW row, Describes(row, l)
    PROVE  FindsCaller(f, l, row)
  <1> DEFINE c  == Cfa(f, l)
             rs == row.rules
             n  == NewFrame(f, c, rs)
             m  == CallerOf(f, l, mem)
  <1>1. /\ InUse(c - Given(l.fn)) /\ InUse(c - 1)
        /\ l.saved # 0 => InUse(c - l.saved)
    BY WordsOfFrame, Zenon
  <1>2. \A a : InUse(a) => Read(a) = mem[a] /\ OnStack(a)
    BY Zenon DEF InUse, Read
  <1>3. f[row.cfa_reg] + row.cfa_offset = c
    <2>1. /\ f["sp"] \in Int /\ f["bp"] \in Int /\ l.depth \in Nat /\ l.base \in Nat /\ c \in Int
          /\ c = f["sp"] + l.depth
      BY Zenon DEF Spans
    <2>2. l.base # 0 => f["bp"] = c - l.base
      BY Zenon DEF Sits
    <2> HIDE DEF c
    <2>3. CASE row.cfa_reg = "sp" /\ row.cfa_offset = l.depth
      BY <2>1, <2>3, Zenon
    <2>4. CASE row.cfa_reg = "bp" /\ l.base # 0 /\ row.cfa_offset = l.base
      <3>1. f["bp"] + l.base = c
        BY <2>1, <2>2, <2>4
      <3> QED
        BY <2>4, <3>1, Zenon
    <2> QED
      BY <2>3, <2>4, Zenon DEF Describes
  <1>4. rs["pc"].rule = "offset" /\ rs["pc"].offset = Given(l.fn)
    BY DEF Describes
  <1>5. \/ rs["sp"].rule = "def_cfa"
        \/ l.fn = Handler /\ rs["sp"].rule = "offset" /\ rs["sp"].offset = 1
    BY DEF Describes
  <1>6. \/ l.saved = 0 /\ rs["bp"].rule = "same_value"
        \/ l.saved # 0 /\ rs["bp"].rule = "offset" /\ rs["bp"].offset = l.saved
    BY DEF Describes
  <1> HIDE DEF c, rs
  <1>7. n = m
    <2>1. m["bp"] = (IF l.saved = 0 THEN f["bp"] ELSE mem[c - l.saved])
          /\ m["sp"] = c /\ m["pc"] = mem[c - Given(l.fn)]
      BY DEF CallerOf, c
    <2>2. /\ n["pc"] = Read(c - rs["pc"].offset)
          /\ rs["sp"].rule = "def_cfa" => n["sp"] = c
          /\ rs["sp"].rule = "offset" => n["sp"] = Read(c - rs["sp"].offset)
          /\ rs["bp"].rule = "same_value" => n["bp"] = f["bp"]
          /\ rs["bp"].rule = "offset" => n["bp"] = Read(c - rs["bp"].offset)
      BY <1>4 DEF NewFrame, Registers
    <2>3. n["pc"] = m["pc"]
      BY <1>1, <1>2, <1>4, <2>1, <2>2, Zenon
    <2>4. n["sp"] = m["sp"]
      <3>1. l.fn = Handler => mem[c - 1] = c
        BY Zenon DEF Sits, c
      <3> QED
        BY <1>1, <1>2, <1>5, <2>1, <2>2, <3>1, Zenon
    <2>5. n["bp"] = m["bp"]
      BY <1>1, <1>2, <1>6, <2>1, <2>2, Zenon
    <2>6. n = [r \in Registers |-> n[r]]
      <3> DEFINE word(r) == CASE rs[r].rule = "same_value" -> f[r]
                              [] rs[r].rule = "offset"     -> Read(c - rs[r].offset)
                              [] rs[r].rule = "def_cfa"    -> c
      <3>1. n = [r \in Registers |-> word(r)]
        BY Zenon DEF NewFrame
      <3> HIDE DEF n, word
      <3> QED
        BY <3>1
    <2>7. m = [r \in Registers |-> m[r]]
      BY DEF CallerOf, Registers
    <2>8. \A r \in Registers : n[r] = m[r]
      <3> HIDE DEF n, m
      <3> QED
        BY <2>3, <2>4, <2>5 DEF Registers
    <2> HIDE DEF n, m
    <2> QED
      BY <2>6, <2>7, <2>8
  <1>8. ~Strays(c, rs)
    <2>1. \A r \in Registers : rs[r].rule = "offset" => OnStack(c - rs[r].offset)
      <3>1. OnStack(c - rs["pc"].offset)
        BY <1>1, <1>2, <1>4, Zenon
      <3>2. rs["sp"].rule = "offset" => OnStack(c - rs["sp"].offset)
        <4>1. "def_cfa" # "offset"
          OBVIOUS
        <4> QED
          BY <1>1, <1>2, <1>5, <4>1, Zenon
      <3>3. rs["bp"].rule = "offset" => OnStack(c - rs["bp"].offset)
        <4>1. "same_value" # "offset"
          OBVIOUS
        <4> QED
          BY <1>1, <1>2, <1>6, <4>1, Zenon
      <3> QED
        BY <3>1, <3>2, <3>3, Zenon DEF Registers
    <2> QED
      BY <2>1, Zenon DEF Strays
  <1> QED
    BY <1>3, <1>7, <1>8, Zenon DEF FindsCaller, c, rs

LEMMA ProgramIsDone ==
    ASSUME NEW S, NEW P \in Seq(S), NEW k \in 0 .. Len(P), SubSeq(P, k + 1, Len(P)) = <<>>
    PROVE  k = Len(P)
  OBVIOUS

LEMMA ApplyRulesHolds ==
    ASSUME NEW layout, InformationIsRight(layout), UnwindInv(layout), ApplyRules
    PROVE  UnwindInv(layout)'
  <1>1. /\ pc = "exec" /\ (program = <<>> \/ Reached) /\ ret' = "EOK" /\ pc' = "return"
        /\ UNCHANGED <<machine, Fdes, expected, trace, caller>>
    BY Zenon DEF ApplyRules
  <1>2. PICK F, q, p, i, k : ExecIs(layout, F, q, p, i, k)
    BY <1>1, ExecFacts
  <1> DEFINE v    == ViewOf(layout, Known, p)
             addr == Known[p].addr
             fde  == Fdes[i]
             P    == Program(fde)
             row  == Rows(fde)[k]
             l    == LayoutAt(layout, Known[p])
             m    == CallerOf(F[p], l, mem)
  <1>3. /\ InWalk(layout, F, q) /\ Behind(q, p, caller, trace) /\ p \in 1 .. Len(F)
        /\ state.frame = F[p] /\ ~state.end /\ ret = "EOK" /\ ~state.signal_frame
        /\ IsState(state) /\ unwind_get_return_address(state) = addr
        /\ i \in DOMAIN Fdes /\ MayTake(Fdes, i, v) /\ v.addr = addr /\ addr \in Int
        /\ Executing(fde, addr, k, state, loc, rules, program)
    BY <1>2, Zenon DEF ExecIs
  <1>4. /\ P \in Seq(ToSet(P)) /\ P # <<>> /\ FdeIsTyped(fde)
        /\ Row(fde, addr).failed \/ Describes(Row(fde, addr), v.frame)
    BY <1>2, Zenon DEF ExecIs, EntryIsRight
  <1>5. v.frame = l
    BY DEF ViewOf, View
  <1>6. /\ k \in 0 .. Len(P) /\ program = SubSeq(P, k + 1, Len(P))
        /\ loc = row.loc /\ rules = row.rules /\ ~row.failed
        /\ k > 0 => state.cfa_reg_idx = row.cfa_reg /\ state.cfa_offset = row.cfa_offset
        /\ \A j \in 0 .. k - 1 : ~IsEnd(fde, addr, j)
    BY <1>3, Zenon DEF Executing
  <1>7. FrameIs(layout, F, Known, mem, p)
    BY <1>3, Zenon DEF InWalk
  <1> HIDE DEF addr, fde, l, v
  <1>8. Len(P) \in Nat /\ Len(P) # 0
    <2> HIDE DEF P
    <2> QED
      BY <1>4
  <1>9. k = Len(P) \/ row.loc > addr
    <2>1. CASE program = <<>>
      <3> HIDE DEF P
      <3>1. SubSeq(P, k + 1, Len(P)) = <<>>
        BY <1>6, <2>1, Zenon
      <3> QED
        BY <1>4, <1>6, <3>1, ProgramIsDone
    <2>2. CASE Reached
      BY <1>3, <1>6, <2>2, Zenon DEF Reached
    <2> QED
      BY <1>1, <2>1, <2>2
  <1>10. IsEnd(fde, addr, k)
    BY <1>9, Zenon DEF IsEnd
  <1>11. Row(fde, addr) = row
    <2> HIDE DEF row
    <2> QED
      BY <1>6, <1>8, <1>10, RowIsFirstEnd, Zenon DEF row
  <1>12. k > 0
    <2> SUFFICES ASSUME k = 0 PROVE FALSE
      BY <1>6, <1>8
    <2>1. row = FirstRow(fde)
      <3>1. IsRun(fde, Rows(fde), Len(P))
        BY <1>8, RowsAreRun, Zenon
      <3>2. row = RowAfter(fde, Rows(fde), k)
        BY <1>6, <3>1, Zenon DEF IsRun
      <3> QED
        BY <3>2, Zenon DEF RowAfter
    <2>2. row.loc = fde.begin
      BY <2>1 DEF FirstRow
    <2>3. fde.begin > addr
      BY <1>8, <1>9, <2>2, Zenon
    <2>4. fde.begin <= ComparedWith(fde, v)
      BY <1>3, Zenon DEF MayTake, ComparedWith, fde
    <2>5. ComparedWith(fde, v) <= addr /\ ComparedWith(fde, v) \in Int
      BY <1>3 DEF ComparedWith
    <2>6. fde.begin \in Int
      BY <1>4, Zenon DEF FdeIsTyped
    <2> QED
      BY <1>3, <2>3, <2>4, <2>5, <2>6
  <1>13. Describes(row, l)
    BY <1>4, <1>5, <1>6, <1>11, Zenon
  <1> HIDE DEF P
  <1>14. FindsCaller(F[p], l, row)
    <2>1. /\ Sits(F[p], l, mem, Known[p]) /\ Spans(F[p], l) /\ Cfa(F[p], l) <= StackSize + 1
          /\ F[1]["sp"] \in Int /\ F[1]["sp"] <= F[p]["sp"] /\ F[1]["sp"] > 0
      BY <1>7, Zenon DEF FrameIs, l
    <2>2. F[1] = regs
      BY <1>3, Zenon DEF InWalk, Walk
    <2>3. DOMAIN mem = 1 .. StackSize /\ StackSize \in Nat
      <3>1. mem \in [1 .. StackSize -> Int]
        BY Zenon DEF UnwindInv, Good
      <3> QED
        BY <3>1, CodeFacts
    <2> HIDE DEF row
    <2> QED
      BY <1>13, <2>1, <2>2, <2>3, CallerIsFound, Zenon
  <1>15. /\ state' = [state EXCEPT !.frame = m, !.cfa_reg_idx = "sp", !.cfa_offset = 0,
                                   !.end = (m["pc"] = 0)]
         /\ ~strayed'
    <2> DEFINE c == state.frame[state.cfa_reg_idx] + state.cfa_offset
               n == NewFrame(state.frame, c, rules)
    <2>1. /\ state' = [state EXCEPT !.frame = n, !.cfa_reg_idx = "sp", !.cfa_offset = 0,
                                    !.end = (n["pc"] = 0)]
          /\ strayed' = (strayed \/ Strays(c, rules))
      BY Zenon DEF ApplyRules, NewFrame, Strays
    <2>2. c = Cfa(F[p], l)
      BY <1>3, <1>6, <1>12, <1>14, Zenon DEF FindsCaller
    <2> HIDE DEF c
    <2>3. n = m /\ ~Strays(c, rules)
      BY <1>3, <1>6, <1>14, <2>2, Zenon DEF FindsCaller
    <2>4. ~strayed
      BY <1>3, Zenon DEF InWalk
    <2> HIDE DEF n, m
    <2>5. ~strayed'
      BY <2>1, <2>3, <2>4, Zenon
    <2> QED
      BY <2>1, <2>3, <2>4, <2>5
  <1>16. StateIs(state', m, FALSE, m["pc"] = 0)
    <2> HIDE DEF m
    <2>1. StateIs(state', m, state.signal_frame, m["pc"] = 0)
      BY <1>3, <1>15, StateWithFrame, Zenon
    <2>2. state.signal_frame = FALSE
      BY <1>3 DEF IsState
    <2> QED
      BY <2>1, <2>2, Zenon
  <1>17. AtReturn(F, q, p, state', ret', caller', trace')
    <2>1. /\ p # Len(F) => /\ F[p + 1] = m /\ p + 1 \in 1 .. Len(F) /\ m["pc"] # 0
          /\ p = Len(F) => m["pc"] = 0
      BY <1>7, Zenon DEF FrameIs, l
    <2> HIDE DEF m
    <2>2. state'.frame = m /\ ~state'.signal_frame /\ (state'.end <=> m["pc"] = 0)
      BY <1>16 DEF StateIs
    <2>3. CASE p = Len(F)
      BY <1>1, <1>3, <2>1, <2>2, <2>3, Zenon DEF AtReturn
    <2>4. CASE p # Len(F)
      <3>1. At(F, p + 1, state', ret')
        BY <1>1, <2>1, <2>2, <2>4, Zenon DEF At
      <3> QED
        BY <1>1, <1>3, <2>2, <2>4, <3>1, Zenon DEF AtReturn
    <2> QED
      BY <2>3, <2>4
  <1>18. /\ Walk(layout, F, q) /\ IsState(state') /\ trace' \in Seq(Activations) /\ ~strayed'
         /\ Traced(trace', expected) /\ (Fdes \in FullTables => ret' = "EOK")
    BY <1>1, <1>3, <1>15, <1>16, Zenon DEF InWalk, StateIs
  <1> QED
    BY <1>1, <1>17, <1>18, WalkContinues

-----------------------------------------------------------------------------
(***************************************************************************)
(* The invariant and what follows from it.                                 *)
(***************************************************************************)
LEMMA StutterHolds ==
    ASSUME NEW layout, UnwindInv(layout), UNCHANGED vars
    PROVE  UnwindInv(layout)'
  <1>1. /\ regs' = regs /\ mem' = mem /\ calls' = calls /\ Fdes' = Fdes /\ state' = state
        /\ ret' = ret /\ loc' = loc /\ rules' = rules /\ program' = program
        /\ caller' = caller /\ trace' = trace /\ expected' = expected
        /\ strayed' = strayed /\ pc' = pc
    BY DEF vars
  <1>2. Good(layout, regs, mem, calls)'
    BY <1>1, Zenon DEF UnwindInv
  <1>3. Outcome'
    BY <1>1, Zenon DEF UnwindInv, Outcome
  <1>4. \A F, q : Walk(layout, F, q) => Walk(layout, F, q)'
    <2>1. Known' = Known
      BY <1>1, Zenon DEF Known
    <2> QED
      BY <1>1, <2>1, SMTT(30) DEF Walk
  <1>5. (Walking => \E F, q : Walk(layout, F, q))'
    BY <1>1, <1>4, Zenon DEF UnwindInv, Walking
  <1> QED
    BY <1>1, <1>2, <1>3, <1>5, Zenon DEF UnwindInv

LEMMA NextHolds ==
    ASSUME NEW layout, InformationIsRight(layout), UnwindInv(layout), [Next]_vars
    PROVE  UnwindInv(layout)'
  <1>1. LayoutIsKept(layout)
    BY Zenon DEF InformationIsRight
  <1>2. CASE Step \/ Interrupt
    BY <1>1, <1>2, MachineHolds, Zenon
  <1>3. CASE BeginWithRegs
    BY <1>3, BeginWithRegsHolds, Zenon
  <1>4. CASE BeginCurrent
    BY <1>1, <1>4, BeginCurrentHolds, Zenon
  <1>5. CASE PrepareFrame
    BY <1>5, PrepareFrameHolds, Zenon
  <1>6. CASE DwarfExec
    BY <1>6, DwarfExecHolds, Zenon
  <1>7. CASE ApplyRules
    BY <1>7, ApplyRulesHolds, Zenon
  <1>8. CASE BeginNext
    BY <1>8, BeginNextHolds, Zenon
  <1>9. CASE Report
    BY <1>9, ReportHolds, Zenon
  <1>10. CASE WalkNext
    BY <1>10, WalkNextHolds, Zenon
  <1>11. CASE UNCHANGED vars
    BY <1>11, StutterHolds, Zenon
  <1> QED
    BY <1>2, <1>3, <1>4, <1>5, <1>6, <1>7, <1>8, <1>9, <1>10, <1>11, Zenon DEF Next, Unwinding

LEMMA AddressesOf ==
    ASSUME NEW tr \in Seq(Activations)
    PROVE  /\ Addresses(tr) \in Seq(Int) /\ Len(Addresses(tr)) = Len(tr)
           /\ \A i \in 1 .. Len(tr) : Addresses(tr)[i] = tr[i].addr
  <1> DEFINE addr(i) == tr[i].addr
             s == [i \in 1 .. Len(tr) |-> addr(i)]
  <1>1. Len(tr) \in Nat /\ DOMAIN tr = 1 .. Len(tr)
    OBVIOUS
  <1>2. \A i \in 1 .. Len(tr) : addr(i) \in Int
    <2> SUFFICES ASSUME NEW i \in 1 .. Len(tr) PROVE tr[i].addr \in Int
      OBVIOUS
    <2> DEFINE k == tr[i]
    <2>1. k \in Activations
      OBVIOUS
    <2> HIDE DEF k
    <2>2. k.addr \in Int
      BY <2>1 DEF Activations
    <2> QED
      BY <2>2 DEF k
  <1>3. Addresses(tr) = s
    BY <1>1, Zenon DEF Addresses
  <1> HIDE DEF addr
  <1>4. s \in Seq(Int) /\ Len(s) = Len(tr) /\ \A i \in 1 .. Len(tr) : s[i] = addr(i)
    BY <1>1, <1>2
  <1> QED
    BY <1>3, <1>4, Zenon DEF addr

LEMMA AddressesArePrefix ==
    ASSUME NEW tr \in Seq(Activations), NEW ex \in Seq(Activations), Traced(tr, ex)
    PROVE  IsPrefix(Addresses(tr), Addresses(ex))
  <1> DEFINE s == Addresses(tr)
             t == Addresses(ex)
  <1>1. /\ s \in Seq(Int) /\ Len(s) = Len(tr) /\ \A i \in 1 .. Len(tr) : s[i] = tr[i].addr
    BY AddressesOf, Zenon
  <1>2. /\ t \in Seq(Int) /\ Len(t) = Len(ex) /\ \A i \in 1 .. Len(ex) : t[i] = ex[i].addr
    BY AddressesOf, Zenon
  <1>3. Len(tr) <= Len(ex) /\ \A i \in 1 .. Len(tr) : tr[i].addr = ex[i].addr
    BY DEF Traced
  <1>4. Len(tr) \in Nat /\ Len(ex) \in Nat
    OBVIOUS
  <1> HIDE DEF s, t
  <1>5. \A i \in 1 .. Len(s) : s[i] = t[i]
    BY <1>1, <1>2, <1>3, <1>4
  <1>6. Len(s) <= Len(t)
    BY <1>1, <1>2, <1>3
  <1>7. SubSeq(s, 1, Len(s)) = SubSeq(t, 1, Len(s))
    BY <1>1, <1>2, <1>5, <1>6
  <1> QED
    BY <1>6, <1>7, Zenon DEF IsPrefix, s, t

LEMMA InvariantSays ==
    ASSUME NEW layout, UnwindInv(layout)
    PROVE  FramesAreReal /\ ReadsOnlyTheStack /\ WalkReportsCallStack
  <1>1. /\ trace \in Seq(Activations) /\ expected \in Seq(Activations)
        /\ Traced(trace, expected) /\ Outcome /\ ~strayed
    BY Zenon DEF UnwindInv
  <1>2. FramesAreReal
    <2>1. IsPrefix(Addresses(trace), Addresses(expected))
      BY <1>1, AddressesArePrefix
    <2>2. DOMAIN trace = 1 .. Len(trace)
      BY <1>1
    <2> QED
      BY <1>1, <2>1, <2>2, Zenon DEF FramesAreReal, Traced
  <1>3. ReadsOnlyTheStack
    BY <1>1, Zenon DEF ReadsOnlyTheStack
  <1>4. WalkReportsCallStack
    <2> SUFFICES ASSUME Fdes \in FullTables
                 PROVE  pc = "done" => Len(trace) = Len(expected) /\ ret = "EOK"
      BY <1>2, Zenon DEF WalkReportsCallStack
    <2>1. "done" # "stopped"
      OBVIOUS
    <2> QED
      BY <1>1, <2>1, Zenon DEF Outcome
  <1> QED
    BY <1>2, <1>3, <1>4

LEMMA UnwindInvAlways ==
    ASSUME NEW layout, InformationIsRight(layout)
    PROVE  Spec => []UnwindInv(layout)
  <1>1. Init => UnwindInv(layout)
    <2>1. LayoutIsKept(layout)
      BY Zenon DEF InformationIsRight
    <2> QED
      BY <2>1, InitHolds
  <1>2. UnwindInv(layout) /\ [Next]_vars => UnwindInv(layout)'
    BY NextHolds
  <1> QED
    BY <1>1, <1>2, PTL DEF Spec

(***************************************************************************)
(* Whatever the code, its layout and the table of .eh_frame_hdr are, as    *)
(* long as each row says what the layout is or nothing the unwinder        *)
(* understands: unwind_walk gives its callback addresses that are really   *)
(* on the stack, innermost first and without a gap, however the walk       *)
(* began and wherever the machine was interrupted, and calls none exact    *)
(* that is behind a call.                                                  *)
(***************************************************************************)
THEOREM WalkShowsRealFrames ==
    ASSUME NEW layout, InformationIsRight(layout)
    PROVE  Spec => []FramesAreReal
  <1>1. UnwindInv(layout) => FramesAreReal
    BY InvariantSays
  <1> QED
    BY <1>1, UnwindInvAlways, PTL

(***************************************************************************)
(* Under the same hypothesis apply_reg_rules reads no word but those       *)
(* between the stack pointer and the end of the stack: no row that is      *)
(* applied is that of another address.                                     *)
(***************************************************************************)
THEOREM WalkReadsLiveStack ==
    ASSUME NEW layout, InformationIsRight(layout)
    PROVE  Spec => []ReadsOnlyTheStack
  <1>1. UnwindInv(layout) => ReadsOnlyTheStack
    BY InvariantSays
  <1> QED
    BY <1>1, UnwindInvAlways, PTL

(***************************************************************************)
(* When moreover the table leaves out nothing, unwind_next_frame never     *)
(* fails, and a walk that its callback does not stop is over only when all *)
(* frames, down to the one whose return address is 0, have been reported.  *)
(***************************************************************************)
THEOREM WalkIsComplete ==
    ASSUME NEW layout, InformationIsRight(layout)
    PROVE  Spec => []WalkReportsCallStack
  <1>1. UnwindInv(layout) => WalkReportsCallStack
    BY InvariantSays
  <1> QED
    BY <1>1, UnwindInvAlways, PTL
=============================================================================
