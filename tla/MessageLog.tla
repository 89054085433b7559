----------------------------- MODULE MessageLog -----------------------------
(***************************************************************************)
(* What logging promises.  Each source file has a log of its own name and  *)
(* writes messages to it one after the other: it opens a message at some   *)
(* level, says things, closes it.  The log holds exactly the messages      *)
(* whose level is high enough, whole and in order.                         *)
(***************************************************************************)
EXTENDS Naturals, Sequences

CONSTANTS
  NULL, Name, Text,
  Level,
  MinLevel

VARIABLES
  open,     \* the level of the message being written, or NULL
  printed   \* the log

vars == <<open, printed>>

Init == open = [n \in Name |-> NULL] /\ printed = [n \in Name |-> <<>>]

Logged(n) == open[n] # NULL /\ open[n] >= MinLevel

Record(n, items) == printed' = [printed EXCEPT ![n] = @ \o items]

Start(n) ==
  /\ open[n] = NULL
  /\ \E level \in Level :
       /\ open' = [open EXCEPT ![n] = level]
       /\ Record(n, IF level >= MinLevel THEN <<"start">> ELSE <<>>)

Say(n) ==
  /\ open[n] # NULL
  /\ UNCHANGED open
  /\ \E t \in Text : Record(n, IF Logged(n) THEN <<t>> ELSE <<>>)

End(n) ==
  /\ open[n] # NULL
  /\ open' = [open EXCEPT ![n] = NULL]
  /\ Record(n, IF Logged(n) THEN <<"end">> ELSE <<>>)

Message(n) ==
  /\ open[n] = NULL
  /\ UNCHANGED open
  /\ \E t \in Text : Record(n, <<"start", t, "end">>)

Next == \E n \in Name : Start(n) \/ Say(n) \/ End(n) \/ Message(n)

Spec == Init /\ [][Next]_vars
=============================================================================
