------------------------- MODULE MCFairChordServer -------------------------
(***************************************************************************)
(* Small instances of FairChordServer, as in MCChordServer.                *)
(***************************************************************************)
EXTENDS FairChordServer, TLC

MCAddrId == [a \in Addr |-> a]

MCWellKnown == <<1, 4>>
=============================================================================
