------------------------------- MODULE MCWire -------------------------------
(***************************************************************************)
(* Two servers of one process.  One value for a field is enough to tell    *)
(* the fields of a message apart, if it is the default of none.            *)
(***************************************************************************)
EXTENDS Wire

MCTicket == {"ticket"}
MCAddress == {"address"}
MCPort == {1}
MCTtl == {2}
MCName == {"name"}
=============================================================================
