-------------------------------- MODULE MCBoot --------------------------------
(***************************************************************************)
(* Loaders that pass the mandatory attributes and up to two more, also     *)
(* between them, or all but one; command lines with up to three settings   *)
(* of earlycon.                                                            *)
(***************************************************************************)
EXTENDS Boot, SequencesExt

Attribute(t) == [type |-> t, text |-> << >>]

CommandLineOf(text) == [type |-> "COMMAND_LINE", text |-> text]

Basic == <<Attribute("PLATFORM_INFO"), Attribute("KERNEL_INFO"), Attribute("MEMORY_MAP")>>

Others == {Attribute(t) : t \in Single \cup {"MODULE_INFO", "UNKNOWN"}}
          \cup {CommandLineOf(<<"e9">>)}

Texts == UNION {[1 .. n -> Modes] : n \in 0 .. 2} \cup {<<"e9", "none", "e9">>}

Loaders ==
    {Basic \o <<a, b>> : a \in Others, b \in Others}
    \cup {<<a>> \o Basic : a \in Others}
    \cup {RemoveAt(Basic, i) \o <<Attribute("UNKNOWN")>> : i \in 1 .. 3}
    \cup {Basic \o <<CommandLineOf(t)>> : t \in Texts}
=============================================================================
