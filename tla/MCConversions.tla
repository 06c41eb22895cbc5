---------------------------- MODULE MCConversions ----------------------------
(***************************************************************************)
(* All strings up to a length over signs, prefixes, digits at the borders  *)
(* of the bases and a character that is none of these; eight and four bits *)
(* stand for 64 and the narrower widths.                                   *)
(***************************************************************************)
EXTENDS Conversions

CONSTANT MaxLength      \* bound: the length of a string

Characters == {"+", "-", "0", "1", "2", "7", "8", "b", "f", "x"}

ShortStrings == UNION {[1 .. n -> Characters] : n \in 0 .. MaxLength}
=============================================================================
