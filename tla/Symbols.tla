------------------------------- MODULE Symbols -------------------------------
(***************************************************************************)
(* From an address to the name of a function: the tables that              *)
(* scripts/generate_symbol_tables.py writes, and the lookup of             *)
(* kernel/symbols.c, which searches the addresses, skips over the names of *)
(* a block, and expands the tokens of the one it wants.                    *)
(***************************************************************************)
EXTENDS TableSearch, Sequences, SequencesExt

CONSTANTS
    SymbolTables,   \* sequences of symbols, as sorted by the generator
    TextBegin, TextEnd,
    Block,          \* 256: the symbols that share an offset
    Leb,            \* 128: the values of one byte of a length
    Wrap,           \* 2^32: the values of a relative address
    TokenText       \* token |-> the characters that it stands for

(***************************************************************************)
(* A symbol.  The order of the generator: by address, weak symbols behind  *)
(* the others.  The first function is at the beginning of .text.           *)
(***************************************************************************)
Symbol == [addr : Nat, weak : BOOLEAN, tokens : Seq(DOMAIN TokenText)]

IsSymbolTable(s) ==
    /\ s \in Seq(Symbol)
    /\ \A i, j \in DOMAIN s : i < j =>
          \/ s[i].addr < s[j].addr
          \/ s[i].addr = s[j].addr /\ (s[i].weak => s[j].weak)
    /\ \A i \in DOMAIN s : Len(s[i].tokens) \in 1 .. (Leb * Leb - 1)
    /\ s # <<>> => s[1].addr = TextBegin

ASSUME SymbolTablesAssumption ==
    /\ Block \in Nat \ {0} /\ Leb \in Nat \ {0}
    /\ TextBegin \in Nat /\ TextEnd \in Nat
    /\ Wrap \in Nat /\ TextEnd - TextBegin < Wrap
    /\ \A t \in DOMAIN TokenText : TokenText[t] \in Seq(STRING)
    /\ \A s \in SymbolTables : IsSymbolTable(s)

VARIABLES
    symbols,        \* the functions of the kernel
    address,        \* what is looked up
    cursor,         \* into g_symbol_compressed_names, from 0
    index,          \* the names of the block that are still to be skipped
    len,            \* the tokens that are left
    out_name_buf, out_offset_within, ret

lookupVars == <<symbols, address, cursor, index, len, out_name_buf,
                out_offset_within, ret>>
vars == <<searchVars, lookupVars>>

-----------------------------------------------------------------------------
(* The generator *)

\* A name: its length in one byte or in two, and its tokens.
Compressed(tokens) ==
    LET n == Len(tokens)
    IN  (IF n < Leb THEN <<n>> ELSE <<Leb + (n % Leb), n \div Leb>>) \o tokens

g_symbol_compressed_names ==
    FlattenSeq([i \in DOMAIN symbols |-> Compressed(symbols[i].tokens)])

\* Where the names of a block, the first being block 0, begin.
g_symbol_name_offsets(block) ==
    Len(FlattenSeq([i \in 1 .. (block * Block) |-> Compressed(symbols[i].tokens)]))

g_symbol_base == symbols[1].addr

g_symbol_relative_addresses ==
    [i \in 0 .. (Len(symbols) - 1) |-> symbols[i + 1].addr - g_symbol_base]

-----------------------------------------------------------------------------
(* The lookup *)

LookupInit ==
    /\ symbols \in SymbolTables
    /\ address \in Keys
    /\ table = << >> /\ count = 0 /\ key = 0 /\ begin = 0 /\ end = 0
    /\ pc = "lookup"
    /\ cursor = 0 /\ index = 0 /\ len = 0
    /\ out_name_buf = <<>> /\ out_offset_within = 0
    /\ ret = "EOK"

address_is_kernel_code(addr) == addr >= TextBegin /\ addr <= TextEnd

\* The guards of symbol_lookup_by_address.
Refuse ==
    /\ pc = "lookup"
    /\ \/ ~address_is_kernel_code(address) /\ ret' = "EINVAL"
       \/ address_is_kernel_code(address) /\ symbols = <<>> /\ ret' = "ENOSYS"
    /\ pc' = "done"
    /\ UNCHANGED <<table, count, key, begin, end, symbols, address, cursor, index,
                   len, out_name_buf, out_offset_within>>

Lookup ==
    /\ pc = "lookup"
    /\ address_is_kernel_code(address) /\ symbols # <<>>
    /\ table' = g_symbol_relative_addresses
    /\ count' = Len(symbols)
    /\ key' = (address - g_symbol_base) % Wrap
    /\ begin' = 0 /\ end' = Len(symbols)
    /\ pc' = "search"
    /\ UNCHANGED lookupVars

SearchStep == Search /\ UNCHANGED lookupVars

Byte(c) == g_symbol_compressed_names[c + 1]

\* Mutant: the first byte is a length of its own.
get_compressed_symbol_length_one_byte(c) == [len |-> Byte(c), next |-> c + 1]

\* The length of the name at a cursor, and where its tokens begin.
get_compressed_symbol_length(c) ==
    IF Byte(c) >= Leb
    THEN [len |-> (Byte(c) % Leb) + Byte(c + 1) * Leb, next |-> c + 2]
    ELSE [len |-> Byte(c), next |-> c + 1]

TakeSymbol ==
    /\ pc = "found"
    /\ out_offset_within' = (key - table[begin]) % Wrap
    /\ cursor' = g_symbol_name_offsets(begin \div Block)
    /\ index' = begin % Block
    /\ pc' = "skip"
    /\ UNCHANGED <<table, count, key, begin, end, symbols, address, len,
                   out_name_buf, ret>>

\* An iteration of get_compressed_symbol_name_cursor.  C leaves open when the
\* old cursor of += is read; the compilers read it behind the call that moves it.
SkipName ==
    /\ pc = "skip" /\ index > 0
    /\ LET l == get_compressed_symbol_length(cursor)
       IN  cursor' = l.next + l.len
    /\ index' = index - 1
    /\ UNCHANGED <<searchVars, symbols, address, len, out_name_buf,
                   out_offset_within, ret>>

\* uncompress_symbol: the length, and then a token at a time.
ReadLength ==
    /\ pc = "skip" /\ index = 0
    /\ LET l == get_compressed_symbol_length(cursor)
       IN  len' = l.len /\ cursor' = l.next
    /\ pc' = "expand"
    /\ UNCHANGED <<table, count, key, begin, end, symbols, address, index,
                   out_name_buf, out_offset_within, ret>>

ExpandToken ==
    /\ pc = "expand" /\ len > 0
    /\ out_name_buf' = out_name_buf \o TokenText[Byte(cursor)]
    /\ cursor' = cursor + 1
    /\ len' = len - 1
    /\ UNCHANGED <<searchVars, symbols, address, index, out_offset_within, ret>>

Return ==
    /\ pc = "expand" /\ len = 0
    /\ pc' = "done"
    /\ UNCHANGED <<table, count, key, begin, end, lookupVars>>

Next ==
    \/ Refuse \/ Lookup \/ SearchStep \/ TakeSymbol \/ SkipName \/ ReadLength
    \/ ExpandToken \/ Return

LookupSpec == LookupInit /\ [][Next]_vars /\ WF_vars(Next)

-----------------------------------------------------------------------------
\* The text of a name.
Text(tokens) == FlattenSeq([i \in DOMAIN tokens |-> TokenText[tokens[i]]])

\* The functions that are last at or below the address.
Candidates ==
    {i \in DOMAIN symbols : symbols[i].addr <= address /\
        \A j \in DOMAIN symbols : symbols[j].addr <= address =>
                                  symbols[j].addr <= symbols[i].addr}

(***************************************************************************)
(* A lookup that succeeds gives the name of the function that the address  *)
(* is in, and how far in it is.                                            *)
(***************************************************************************)
NamesTheFunction ==
    pc = "done" /\ ret = "EOK" => \E i \in Candidates :
        /\ out_name_buf = Text(symbols[i].tokens)
        /\ out_offset_within = address - symbols[i].addr

\* Every lookup returns.
LookupReturns == <>(pc = "done")

(***************************************************************************)
(* scripts/generate_symbol_tables.py puts weak symbols behind the others   *)
(* of the same address so that they do not replace them in a backtrace.    *)
(***************************************************************************)
NamesTheStrongSymbol ==
    pc = "done" /\ ret = "EOK" /\ (\E i \in Candidates : ~symbols[i].weak) =>
        \E i \in Candidates : ~symbols[i].weak /\ out_name_buf = Text(symbols[i].tokens)
=============================================================================
