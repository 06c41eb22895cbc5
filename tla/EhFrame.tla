------------------------------- MODULE EhFrame --------------------------------
(***************************************************************************)
(* How kernel/unwind.c reads the call frame information: the bytes of      *)
(* .eh_frame_hdr and .eh_frame, from unwind_init to the FDE and the CIE of *)
(* an address.  Module Unwind starts where this one ends, with decoded     *)
(* operations.                                                             *)
(*                                                                         *)
(* Memory is a function from addresses to bytes.  A byte of a number has   *)
(* ByteBits bits, one of them the continuation bit of a LEB128 number;     *)
(* widths in bytes are those of the code.  Bytes that are an encoding or a *)
(* character have a value of their own.                                    *)
(***************************************************************************)
EXTENDS Integers, Sequences, SequencesExt

CONSTANTS
    ByteBits,       \* the bits of a byte
    Images,         \* what the linker may have written
    Pcs             \* the addresses that are looked up

ASSUME BitsAssumption == ByteBits \in Nat /\ ByteBits >= 2

Byte == 2 ^ ByteBits
LebBits == ByteBits - 1
HasNext == 2 ^ LebBits              \* LEB128_HAS_NEXT_BYTE
IntLimit == 2 ^ (4 * ByteBits - 1)  \* INT_MAX + 1
Word == 2 ^ (8 * ByteBits)          \* u64 counts modulo this

(***************************************************************************)
(* An image: bytes is the memory, hdr_begin, hdr_size, text_begin and      *)
(* eh_frame_begin are the linker's symbols.  The other fields are what the *)
(* linker meant: valid, table_at and entry_width of the header, and fdes,  *)
(* the FDEs by ascending begin, with signal for a CIE that has an 'S',     *)
(* known for one that parse_cie understands, and the bytes of the code.    *)
(***************************************************************************)
VARIABLES
    image,                      \* this kernel's, constant
    g_unwinder_available,
    g_fde_binary_search_table,
    g_fde_table_encoding,
    g_fde_table_entry_width,
    g_num_fdes,
    data,                       \* struct eh_data of unwind_init
    encodings,                  \* its local variables
    pc,                         \* what runs
    ret,
    begin, end,                 \* find_fde
    frame,                      \* the return address and signal_frame
    state                       \* struct unwind_state, as far as parsed

globals == <<g_unwinder_available, g_fde_binary_search_table, g_fde_table_encoding,
             g_fde_table_entry_width, g_num_fdes>>
vars == <<image, globals, data, encodings, pc, ret, begin, end, frame, state>>

mem == image.bytes

-----------------------------------------------------------------------------
(* Consuming bytes *)

Data(cursor, left) == [cursor |-> cursor, bytes_left |-> left]

Skip(d, n) == Data(d.cursor + n, d.bytes_left - n)

\* The number in the next n bytes, lowest first.
Number(d, n) ==
    LET sum[i \in 0 .. n] == IF i = 0 THEN 0
                             ELSE sum[i - 1] + mem[d.cursor + i - 1] * Byte ^ (i - 1)
    IN  sum[n]

\* What a function that consumes returns.
Result(err, value, d) == [ret |-> err, value |-> value, data |-> d]

\* Mutant: one byte too many is let through.
eh_consume_one_more(d, n) ==
    IF n <= d.bytes_left + 1 THEN Result("EOK", Number(d, n), Skip(d, n))
                             ELSE Result("ERANGE", 0, d)

eh_consume(d, n) ==
    IF n <= d.bytes_left THEN Result("EOK", Number(d, n), Skip(d, n))
                         ELSE Result("ERANGE", 0, d)

\* The length comes first; a length of all ones says that a longer one follows.
eh_data_init(cursor) ==
    LET short == Number(Data(cursor, 4), 4)
    IN  IF short = Byte ^ 4 - 1 THEN Data(cursor + 12, Number(Data(cursor + 4, 8), 8))
                                ELSE Data(cursor + 4, short)

-----------------------------------------------------------------------------
(* Decoding values *)

\* An encoding: the format in its lower half, the scaling in its upper half.
format(e) == e % 16
scaling(e) == 16 * (e \div 16)

IsSigned(fmt) == fmt >= 8

\* The bytes of the formats of a fixed width; 0 is absptr.
Width == [f \in {0, 2, 3, 4, 10, 11, 12} |->
    IF f \in {2, 10} THEN 2 ELSE IF f \in {3, 11} THEN 4 ELSE 8]

\* The lengths at which a LEB128 number could end.
LebLengths(d) ==
    {n \in 1 .. d.bytes_left :
        /\ mem[d.cursor + n - 1] < HasNext
        /\ \A i \in 1 .. (n - 1) : mem[d.cursor + i - 1] >= HasNext}

\* The bits of one byte: the shift is done in int and its result extended.
LebPart(byte, i) ==
    LET shifted == (byte % HasNext) * HasNext ^ i
    IN  IF shifted >= IntLimit THEN Word + shifted - 2 * IntLimit ELSE shifted

LebNumber(d, n) ==
    LET sum[i \in 0 .. n] == IF i = 0 THEN 0
                             ELSE sum[i - 1] + LebPart(mem[d.cursor + i - 1], i - 1)
    IN  sum[n]

\* Mutant: the sign is taken to be in the bit above the number.
SignExtended_above(value, bits) ==
    IF (value \div 2 ^ bits) % 2 = 1 THEN Word - 2 ^ bits + (value % 2 ^ bits) ELSE value

SignExtended(value, bits) ==
    LET sign == 2 ^ (bits - 1)
    IN  IF (value \div sign) % 2 = 1 THEN Word - sign + (value % sign) ELSE value

decode_format(d, fmt) ==
    IF fmt \in {1, 9}
    THEN IF LebLengths(d) = {} THEN Result("ERANGE", 0, d)
         ELSE LET n == CHOOSE n \in LebLengths(d) : TRUE
                  v == LebNumber(d, n)
              IN  Result("EOK", IF IsSigned(fmt) THEN SignExtended(v, n * LebBits) ELSE v,
                         Skip(d, n))
    ELSE IF fmt \notin DOMAIN Width THEN Result("ENOSYS", 0, d)
    ELSE IF d.bytes_left < Width[fmt] THEN Result("EINVAL", 0, d)
    ELSE LET v == Number(d, Width[fmt])
         IN  Result("EOK", IF IsSigned(fmt) THEN SignExtended(v, Width[fmt] * ByteBits) ELSE v,
                    Skip(d, Width[fmt]))

\* What a value is relative to: nothing, itself, the text or the header.
Bases(d) == [s \in {0, 16, 32, 48} |->
    IF s = 0 THEN 0 ELSE IF s = 16 THEN d.cursor
    ELSE IF s = 32 THEN image.text_begin ELSE image.hdr_begin]

decode_value(d, e) ==
    IF scaling(e) \notin DOMAIN Bases(d) THEN Result("ENOSYS", 0, d)
    ELSE LET r == decode_format(d, format(e))
         IN  [r EXCEPT !.value = (@ + Bases(d)[scaling(e)]) % Word]

-----------------------------------------------------------------------------
(* unwind_init *)

Init ==
    /\ image \in Images
    /\ g_unwinder_available = FALSE
    /\ g_fde_binary_search_table = 0 /\ g_fde_table_encoding = 0
    /\ g_fde_table_entry_width = 0 /\ g_num_fdes = 0
    /\ data = Data(image.hdr_begin, image.hdr_size)
    /\ encodings = <<0, 0>>
    /\ pc = "version"
    /\ ret = "EOK"
    /\ begin = 0 /\ end = 0
    /\ frame = [addr |-> 0, signal |-> FALSE]
    /\ state = << >>

searching == <<begin, end, frame, state>>

\* Go on to a step, or return an error.
Continue(err, next) ==
    /\ ret' = err
    /\ pc' = IF err = "EOK" THEN next ELSE "unavailable"

ReadVersion ==
    /\ pc = "version"
    /\ LET r == eh_consume(data, 1)
       IN  /\ Continue(IF r.ret = "EOK" /\ r.value # 1 THEN "EINVAL" ELSE r.ret, "encodings")
           /\ data' = r.data
    /\ UNCHANGED <<image, globals, encodings, searching>>

ReadEncodings ==
    /\ pc = "encodings"
    /\ LET eh_frame_ptr == eh_consume(data, 1)
           fde_count    == eh_consume(eh_frame_ptr.data, 1)
           table        == eh_consume(fde_count.data, 1)
       IN  /\ Continue(table.ret, "eh_frame_ptr")
           /\ data' = table.data
           /\ encodings' = <<eh_frame_ptr.value, fde_count.value>>
           /\ g_fde_table_encoding' = table.value
    /\ UNCHANGED <<image, g_unwinder_available, g_fde_binary_search_table,
                   g_fde_table_entry_width, g_num_fdes, searching>>

\* Mutant: whose header this is, is not looked at.
ReadEhFramePtr_any ==
    /\ pc = "eh_frame_ptr"
    /\ LET r == decode_value(data, encodings[1])
       IN  Continue(r.ret, "fde_count") /\ data' = r.data
    /\ UNCHANGED <<image, globals, encodings, searching>>

ReadEhFramePtr ==
    /\ pc = "eh_frame_ptr"
    /\ LET r == decode_value(data, encodings[1])
       IN  /\ Continue(IF r.ret = "EOK" /\ r.value # image.eh_frame_begin
                       THEN "EINVAL" ELSE r.ret, "fde_count")
           /\ data' = r.data
    /\ UNCHANGED <<image, globals, encodings, searching>>

ReadFdeCount ==
    /\ pc = "fde_count"
    /\ LET r == decode_value(data, encodings[2])
       IN  /\ Continue(r.ret, "table")
           /\ data' = r.data
           /\ g_num_fdes' = r.value
    /\ UNCHANGED <<image, g_unwinder_available, g_fde_binary_search_table,
                   g_fde_table_encoding, g_fde_table_entry_width, encodings, searching>>

\* The first value of the table tells the width of them all.
ReadTable ==
    /\ pc = "table"
    /\ LET r == decode_value(data, g_fde_table_encoding)
       IN  /\ Continue(r.ret, "available")
           /\ data' = r.data
           /\ g_fde_binary_search_table' = data.cursor
           /\ IF r.ret = "EOK"
              THEN /\ g_fde_table_entry_width' = 2 * (r.data.cursor - data.cursor)
                   /\ g_unwinder_available' = TRUE
              ELSE UNCHANGED <<g_fde_table_entry_width, g_unwinder_available>>
    /\ UNCHANGED <<image, g_fde_table_encoding, g_num_fdes, encodings, searching>>

-----------------------------------------------------------------------------
(* prepare_unwind_state: find_fde and parse_fde *)

get_reliable_pc(f) == IF f.signal THEN f.addr ELSE f.addr - 1

\* Value j, 0 or 1, of entry i of the table.
TableValue(i, j) ==
    LET half == g_fde_table_entry_width \div 2
    IN  decode_value(Data(g_fde_binary_search_table + i * g_fde_table_entry_width + j * half,
                          IF j = 0 THEN g_fde_table_entry_width ELSE half),
                     g_fde_table_encoding)

FindFde(f) ==
    /\ pc = "available"
    /\ frame' = f
    /\ begin' = 0 /\ end' = g_num_fdes
    /\ pc' = "find_fde"
    /\ UNCHANGED <<image, globals, data, encodings, ret, state>>

\* The encoding has decoded a value of the table before: there is no error.
Search ==
    /\ pc = "find_fde" /\ end - begin > 1
    /\ LET i == begin + (end - begin) \div 2
       IN  IF TableValue(i, 0).value <= get_reliable_pc(frame)
           THEN begin' = i /\ UNCHANGED end
           ELSE end' = i /\ UNCHANGED begin
    /\ UNCHANGED <<image, globals, data, encodings, pc, ret, frame, state>>

(***************************************************************************)
(* Reading fields one after the other, each of so many bytes or, with 0    *)
(* bytes, of an encoding, until there is an error or a value that is not   *)
(* among those allowed.                                                    *)
(***************************************************************************)
Raw(n, allowed) == [bytes |-> n, encoding |-> 0, allowed |-> allowed]
Encoded(e, allowed) == [bytes |-> 0, encoding |-> e, allowed |-> allowed]
AnyValue == 0 .. (Word - 1)

ReadField(r, f) ==
    IF r.ret # "EOK" THEN r
    ELSE LET v == IF f.bytes > 0 THEN eh_consume(r.data, f.bytes)
                                 ELSE decode_value(r.data, f.encoding)
         IN  Result(IF v.ret = "EOK" /\ v.value \notin f.allowed THEN "EINVAL" ELSE v.ret,
                    Append(r.value, v.value), v.data)

ReadFields(r, fields) == FoldLeft(ReadField, r, fields)

(***************************************************************************)
(* The augmentation string: "zR" and its terminator, with an 'S' anywhere  *)
(* in between.                                                             *)
(***************************************************************************)
EXPECTED_AUG_STRING == <<122, 82, 0>>
Signal == 83

ReadAugmentation(r) ==
    LET d        == r.data
        chars(n) == [i \in 1 .. n |-> mem[d.cursor + i - 1]]
        seen(n)  == SelectSeq(chars(n), LAMBDA c : c # Signal)
        whole    == {n \in 1 .. d.bytes_left : seen(n) = EXPECTED_AUG_STRING}
        size     == CHOOSE n \in whole : \A k \in whole : n <= k
    IN  IF r.ret # "EOK" THEN r
        ELSE IF whole # {}
        THEN Result("EOK", Append(r.value, Signal \in ToSet(chars(size))), Skip(d, size))
        ELSE IF \A n \in 1 .. d.bytes_left : IsPrefix(seen(n), EXPECTED_AUG_STRING)
        THEN Result("ERANGE", r.value, d)
        ELSE Result("ENOSYS", r.value, d)

Uleb128 == 1
Sleb128 == 9
ARCH_NUM_DWARF_REGISTERS == 17

\* The fields of a CIE: id, version, signal_frame, code_alignment_factor,
\* data_alignment_factor, ret_reg, aug_length and fde_encoding.
parse_cie(d) ==
    ReadFields(
        ReadAugmentation(
            ReadFields(Result("EOK", << >>, d), <<Raw(4, {0}), Raw(1, {1})>>)),
        <<Encoded(Uleb128, AnyValue), Encoded(Sleb128, AnyValue),
          Encoded(Uleb128, 0 .. (ARCH_NUM_DWARF_REGISTERS - 1)),
          Encoded(Uleb128, {1}), Raw(1, AnyValue)>>)

\* Of an FDE: the first address, the size, and no augmentation.
FdeFields(d, fde_encoding) ==
    ReadFields(Result("EOK", << >>, d),
        <<Encoded(fde_encoding, AnyValue), Encoded(format(fde_encoding), AnyValue)>>)

IsCovered(f, signal, fields) ==
    LET current_pc == get_reliable_pc([f EXCEPT !.signal = @ \/ signal])
    IN  fields[1] <= current_pc /\ current_pc < fields[1] + fields[2]

\* The CIE is an offset away from its own field.
parse_fde(f, d) ==
    LET offset == eh_consume(d, 4)
        cie    == parse_cie(eh_data_init(offset.data.cursor - offset.value - 4))
        fde    == FdeFields(offset.data, cie.value[8])
        aug_length == eh_consume(fde.data, 1)
        failed(err) == [ret |-> err, state |-> << >>]
    IN  IF offset.ret # "EOK" THEN failed(offset.ret)
        ELSE IF offset.value = 0 THEN failed("EINVAL")
        ELSE IF cie.ret # "EOK" THEN failed(cie.ret)
        ELSE IF fde.ret # "EOK" THEN failed(fde.ret)
        ELSE IF ~IsCovered(f, cie.value[3], fde.value) THEN failed("EINVAL")
        ELSE IF aug_length.ret # "EOK" THEN failed(aug_length.ret)
        ELSE IF aug_length.value # 0 THEN failed("ENOSYS")
        ELSE [ret |-> "EOK",
              state |-> [pc |-> fde.value[1], factors |-> <<cie.value[4], cie.value[5]>>,
                         cie_code |-> cie.data, fde_code |-> aug_length.data]]

Prepare ==
    /\ pc = "find_fde" /\ end - begin <= 1
    /\ LET parsed == parse_fde(frame, eh_data_init(TableValue(begin, 1).value))
       IN  ret' = parsed.ret /\ state' = parsed.state
    /\ pc' = "prepared"
    /\ UNCHANGED <<image, globals, data, encodings, begin, end, frame>>

\* The unwinder goes on with what it has, and asks again for the next frame.
NextFrame ==
    /\ pc = "prepared"
    /\ pc' = "available" /\ ret' = "EOK" /\ state' = << >>
    /\ begin' = 0 /\ end' = 0
    /\ UNCHANGED <<image, globals, data, encodings, frame>>

Next == \/ ReadVersion \/ ReadEncodings \/ ReadEhFramePtr \/ ReadFdeCount \/ ReadTable
        \/ \E a \in Pcs, s \in BOOLEAN : FindFde([addr |-> a, signal |-> s])
        \/ Search \/ Prepare \/ NextFrame

Spec == Init /\ [][Next]_vars

-----------------------------------------------------------------------------
(***************************************************************************)
(* unwind_init makes the unwinder available exactly for a header of the    *)
(* right version that names the kernel's .eh_frame and is not cut off      *)
(* before its first table value; it then has the table, the number of its  *)
(* entries and their width right.                                          *)
(***************************************************************************)
AvailableIsValid ==
    /\ pc = "unavailable" => ~image.valid /\ ~g_unwinder_available
    /\ g_unwinder_available =>
          /\ image.valid
          /\ g_fde_binary_search_table = image.table_at
          /\ g_num_fdes = Len(image.fdes)
          /\ g_fde_table_entry_width = image.entry_width

\* Nothing behind the end of .eh_frame_hdr is read.
ReadsInside ==
    /\ data.bytes_left >= 0
    /\ data.cursor + data.bytes_left = image.hdr_begin + image.hdr_size

\* The FDE that covers an address, and the address that parse_fde checks: a
\* return address into a signal frame is taken as it is.
Owners ==
    {f \in {image.fdes[i] : i \in DOMAIN image.fdes} :
        LET inside(a) == f.begin <= a /\ a < f.begin + f.size
        IN  /\ inside(get_reliable_pc(frame))
            /\ inside(get_reliable_pc([frame EXCEPT !.signal = @ \/ f.signal]))}

(***************************************************************************)
(* The information that is found for an address is that of the function    *)
(* it is in, with the factors of its CIE and the bytes of both programs    *)
(* and no others; for an address in no function, or in one whose CIE is    *)
(* not understood, there is an error.                                      *)
(***************************************************************************)
FindsTheInformation ==
    pc = "prepared" =>
        IF \E f \in Owners : f.known
        THEN /\ ret = "EOK"
             /\ \E f \in Owners :
                   state = [pc |-> f.begin, factors |-> f.factors,
                            cie_code |-> f.cie_code, fde_code |-> f.fde_code]
        ELSE ret # "EOK"
=============================================================================
