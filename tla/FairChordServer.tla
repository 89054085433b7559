-------------------------- MODULE FairChordServer --------------------------
(***************************************************************************)
(* A Chord server whose timers fire.  The discovery and the stabilization  *)
(* timer are persistent events of libevent: whichever is added fires again *)
(* and again, however many datagrams arrive in between, because the event  *)
(* loop runs expired timers in every iteration.  Nothing else is fair: any *)
(* peer may be silent for ever, any datagram may be lost.                  *)
(*                                                                         *)
(* One run of the process: nothing is kept when it is restarted.           *)
(*                                                                         *)
(* A bit that flips when a timer fires tells its firing from other steps.  *)
(***************************************************************************)
EXTENDS ChordServer

VARIABLE ticks

TickInit == Init /\ ticks = 0

TickNext ==
  \/ Receive /\ UNCHANGED ticks
  \/ Timer /\ ticks' = 1 - ticks

\* One of the timers is always added, until the process ends.
TimerFires == srv.fault = "none" /\ ticks' = 1 - ticks

FairSpec == TickInit /\ [][TickNext]_<<vars, ticks>> /\ WF_ticks(TimerFires)

(***************************************************************************)
(* If the process lives and its set of fingers settles, the round-robin of *)
(* ping() gives every one of them its turn over and over, and every one of *)
(* them answers over and over: a finger that has stopped answering does    *)
(* not stay in the table.                                                  *)
(***************************************************************************)
SettledFingersKeepAnswering ==
  <>[](srv.fault = "none") /\ <>[][fingers(srv)' = fingers(srv)]_vars =>
    \A p \in Peer :
      LET x == get_address_id(p)
      IN  /\ []<>(x \in fingers(srv) => srv.flist[x].npings > 0)
          /\ []<>(x \in fingers(srv) => srv.flist[x].npings = 0)
=============================================================================
