SPECIFICATION LookupSpec
CONSTANTS
    Tables <- NoTables
    Keys <- SmallKeys
    SymbolTables <- SmallSymbolTables
    TextBegin = 10
    TextEnd = 21
    Block = 2
    Leb = 2
    Wrap = 16
    TokenText <- Texts
    MaxSymbols = 4
    Weak = {FALSE}
INVARIANTS
    FindsLast
    NamesTheFunction
PROPERTY
    LookupReturns
CHECK_DEADLOCK FALSE
