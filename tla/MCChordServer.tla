--------------------------- MODULE MCChordServer ---------------------------
(***************************************************************************)
(* Small instances of ChordServer: identifiers of three bits, addresses    *)
(* that are their own hash.                                                *)
(***************************************************************************)
EXTENDS ChordServer, TLC

MCAddrId == [a \in Addr |-> a]

MCWellKnown == <<1, 4>>
=============================================================================
