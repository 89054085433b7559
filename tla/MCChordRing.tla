---------------------------- MODULE MCChordRing ----------------------------
EXTENDS ChordRing, TLC

MCAddrId == [a \in Addr |-> a]

MCSalt == [n \in Node |-> n]

MCWellKnown == <<1>>

\* Everyone has everyone, or all are just started.
MCKnown == {[n \in Node |-> Addr \ {n}], [n \in Node |-> Unspecified]}
=============================================================================
