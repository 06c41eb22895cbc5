------------------------------ MODULE MCEhFrame -------------------------------
(***************************************************************************)
(* What a linker writes, with the encodings that linkers use, for one to   *)
(* four functions: .eh_frame_hdr at 600 and .eh_frame at 700.              *)
(***************************************************************************)
EXTENDS EhFrame

CONSTANT CodeFactor     \* the code alignment factor of all CIEs

TextBegin == 10
HdrBegin == 600
FrameBegin == 700

LittleEndian(v, n) == [i \in 1 .. n |-> (v \div Byte ^ (i - 1)) % Byte]

\* n bytes of a LEB128 number.
Leb(v, n) == [i \in 1 .. n |->
    ((v \div HasNext ^ (i - 1)) % HasNext) + (IF i < n THEN HasNext ELSE 0)]

Uleb(v) == Leb(v, CHOOSE n \in 1 .. 6 : v < HasNext ^ n /\ \A k \in 1 .. (n - 1) : v >= HasNext ^ k)

Relative(e, at) ==
    CASE scaling(e) = 0 -> 0 [] scaling(e) = 16 -> at
      [] scaling(e) = 32 -> TextBegin [] OTHER -> HdrBegin

\* The bytes of value v, with encoding e, at an address.
Written(e, v, at) ==
    LET x == (v - Relative(e, at) + Word) % Word
    IN  IF format(e) = Uleb128 THEN Uleb(x) ELSE LittleEndian(x, Width[format(e)])

\* A CIE: its augmentation string, the factors, and code of a size.
Factors == <<CodeFactor, Word - 2>>

Cie(aug, fde_encoding, code) ==
    LET rest == LittleEndian(0, 4) \o <<1>> \o aug \o Uleb(Factors[1]) \o Leb(Factors[2], 2)
                \o Uleb(16) \o Uleb(1) \o <<fde_encoding>> \o [i \in 1 .. code |-> 0]
    IN  LittleEndian(Len(rest), 4) \o rest

\* An FDE at an address.
FdeBytes(f, at, cie_at, e) ==
    LET first == Written(e, f.begin, at + 8)
        rest  == LittleEndian(at + 4 - cie_at, 4) \o first \o Written(format(e), f.size, 0)
                 \o <<0>> \o [i \in 1 .. f.code |-> 0]
    IN  LittleEndian(Len(rest), 4) \o rest

zR == <<122, 82, 0>>
zRS == <<122, 82, 83, 0>>
zP == <<122, 80, 0>>

\* A description: the functions, the encodings, and the header's faults.
Describe(fs, ptr, count, table, fde, version, shift) ==
    [functions |-> fs, ptr |-> ptr, count |-> count, table |-> table, fde |-> fde,
     version |-> version, shift |-> shift]

Fn(b, size, aug, code) == [begin |-> b, size |-> size, aug |-> aug, code |-> code]

Written_frame(d) ==
    LET n == Len(d.functions)
        cies == [i \in 1 .. n |-> Cie(d.functions[i].aug, d.fde, 2)]
        size(i) == Len(cies[i]) + Len(FdeBytes(d.functions[i], 0, 0, d.fde))
        at[i \in 1 .. (n + 1)] == IF i = 1 THEN FrameBegin ELSE at[i - 1] + size(i - 1)
        cie_end(i) == at[i] + Len(cies[i])
    IN  [bytes |-> FoldLeft(LAMBDA a, b : a \o b, << >>,
                      [i \in 1 .. n |-> cies[i] \o FdeBytes(d.functions[i], cie_end(i), at[i], d.fde)]),
         fdes  |-> [i \in 1 .. n |->
             LET f == d.functions[i]
             IN  [begin |-> f.begin, size |-> f.size, signal |-> f.aug = zRS,
                  known |-> f.aug # zP, factors |-> Factors, at |-> cie_end(i),
                  cie_code |-> Data(cie_end(i) - 2, 2),
                  fde_code |-> Data(at[i + 1] - f.code, f.code)]]]

\* The image of a description whose header is cut off by some bytes.
ImageOf(d, cut) ==
    LET frm  == Written_frame(d)
        n    == Len(d.functions)
        ptr  == Written(d.ptr, FrameBegin + d.shift, HdrBegin + 4)
        cnt  == Written(d.count, n, HdrBegin + 4 + Len(ptr))
        table_at == HdrBegin + 4 + Len(ptr) + Len(cnt)
        half == Width[format(d.table)]
        row(i) == LET a == table_at + (i - 1) * 2 * half
                  IN  Written(d.table, frm.fdes[i].begin, a)
                      \o Written(d.table, frm.fdes[i].at, a + half)
        hdr  == <<d.version, d.ptr, d.count, d.table>> \o ptr \o cnt
                \o FoldLeft(LAMBDA a, b : a \o b, << >>, [i \in 1 .. n |-> row(i)])
    IN  [bytes |-> [a \in 600 .. 1000 |->
            IF a - HdrBegin + 1 \in DOMAIN hdr THEN hdr[a - HdrBegin + 1]
            ELSE IF a - FrameBegin + 1 \in DOMAIN frm.bytes THEN frm.bytes[a - FrameBegin + 1]
            ELSE 1],
         hdr_begin |-> HdrBegin, hdr_size |-> IF cut < Len(hdr) THEN Len(hdr) - cut ELSE 0,
         text_begin |-> TextBegin, eh_frame_begin |-> FrameBegin,
         table_at |-> table_at, entry_width |-> 2 * half, fdes |-> frm.fdes,
         valid |-> /\ d.version = 1 /\ d.shift = 0
                   /\ Len(hdr) - cut >= table_at + half - HdrBegin]

\* DW_EH_PE_*: pcrel | sdata4, datarel | sdata4, and so on.
Pcrel4 == 27
Datarel4 == 59
Textrel2 == 34

OneFunction == <<Fn(12, 5, zR, 3)>>
FourFunctions == <<Fn(10, 4, zR, 1), Fn(14, 3, zRS, 2), Fn(20, 1, zR, 0), Fn(21, 6, zP, 2)>>

Whole ==
    {Describe(FourFunctions, p, c, t, f, 1, 0) :
        p \in {Pcrel4, 4}, c \in {Uleb128, 2, 3, 4, 10, 12}, t \in {Datarel4, Pcrel4, 0}, f \in {Pcrel4, Textrel2}}
    \cup {Describe(OneFunction, Pcrel4, 3, Datarel4, Pcrel4, 1, 0)}

Faulty == {Describe(OneFunction, p, c, Datarel4, Pcrel4, v, s) :
    p \in {Pcrel4, 0}, c \in {3, Uleb128}, v \in {1, 2}, s \in {0, 1}}

LinkedImages ==
    {ImageOf(d, 0) : d \in Whole} \cup {ImageOf(d, cut) : d \in Faulty, cut \in 0 .. 20}

LookedUp == 9 .. 28
=============================================================================
