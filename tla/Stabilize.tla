----------------------------- MODULE Stabilize -----------------------------
(***************************************************************************)
(* What a Chord server does when a timer fires: stabilization              *)
(* (src/stabilize.c) and address discovery (src/join.c).                   *)
(*                                                                         *)
(* The loops of the code walk the finger list; here they are written with  *)
(* the position of a finger in the list, counted from 0 at the head.       *)
(***************************************************************************)
EXTENDS Process, Sequences

CONSTANTS
  WellKnown,            \* the list of well known nodes in the configuration
  NFINGERS,
  NSUCCESSORS,
  NPREDECESSORS,
  DEF_TTL,
  PERIOD_PING_PRED,
  CHORD_CLEAN_PERIOD

ASSUME StabilizeAssumption ==
  /\ WellKnown \in Seq(Addr)
  /\ NFINGERS \in 1 .. CHORD_ID_BITS
  /\ NSUCCESSORS \in Nat \ {0}
  /\ NPREDECESSORS \in Nat \ {0}
  /\ DEF_TTL \in Nat \ {0}
  /\ PERIOD_PING_PRED \in Nat \ {0}
  /\ CHORD_CLEAN_PERIOD \in Nat \ {0, 1}
  /\ CHORD_CLEAN_PERIOD % PERIOD_PING_PRED = 0

-----------------------------------------------------------------------------
\* Mutant: positions are counted from 1.
position_from_1(s, x) == 1 + Cardinality({y \in fingers(s) : id_is_between(y, s.id, x)})

\* The position of finger x in the list.
position(s, x) == Cardinality({y \in fingers(s) : id_is_between(y, s.id, x)})

list_length(s) == Cardinality(fingers(s))

finger_at(s, i) == CHOOSE x \in fingers(s) : position(s, x) = i

WellKnownAddrs == {WellKnown[i] : i \in 1 .. Len(WellKnown)}

-----------------------------------------------------------------------------
discover_addr(s) ==
  IF s.addr # Unspecified THEN Dropped(s)
  ELSE Result(s, {send_addr_discover(s, a) : a \in WellKnownAddrs})

(***************************************************************************)
(* Drop the fingers that have left PING_THRESH pings unanswered; ping the  *)
(* others that owe an answer, and the to_ping-th of the list.  Positions   *)
(* are those before the drops; whether the finger pinged in turn is the    *)
(* last is asked after them.                                               *)
(***************************************************************************)
ping(s) ==
  LET dead   == {x \in fingers(s) : s.flist[x].npings >= PING_THRESH}
      turn   == {x \in fingers(s) \ dead : position(s, x) = s.to_ping}
      pinged == turn \cup {x \in fingers(s) \ dead : s.flist[x].npings > 0}
      t      == remove_fingers(s, dead)
      more   == \E x \in turn : \E y \in fingers(t) : id_is_between(x, s.id, y)
  IN  Result([t EXCEPT !.flist = [x \in fingers(t) |->
                          IF x \in pinged
                          THEN [t.flist[x] EXCEPT !.npings = @ + 1]
                          ELSE t.flist[x]],
                       !.to_ping = IF more THEN @ + 1 ELSE 0],
             {send_ping(s, s.flist[x].addr) : x \in pinged})

\* Mutant: the index wraps around one too late.
next_backup_late(n) == IF n + 1 > NSUCCESSORS THEN 0 ELSE n + 1

\* The backup successor to be fixed after the n-th.
next_backup(n) == IF n + 1 >= NSUCCESSORS THEN 0 ELSE n + 1

(***************************************************************************)
(* Ask the to_fix_backup-th finger after our successor, and the            *)
(* to_fix_backup-th before our predecessor.  The walk back stops at the    *)
(* head of the list, at the NPREDECESSORS-th finger and at the finger just *)
(* asked, and does not ask the tail.  Called only when there is an active  *)
(* finger.                                                                 *)
(***************************************************************************)
fix_succs_preds(s) ==
  LET last == list_length(s) - 1
      i    == position(s, succ_finger(s)) + s.to_fix_backup
      p    == position(s, pred_finger(s))
      j    == p - s.to_fix_backup
      ask(n) == send_fs(s, DEF_TTL, s.flist[finger_at(s, n)].addr)
      fix_pred == /\ s.to_fix_backup < NPREDECESSORS
                  /\ 1 <= j /\ j < last
                  /\ ~(j <= i /\ i <= p)
  IN  IF i >= last THEN Result([s EXCEPT !.to_fix_backup = 0], {})
      ELSE Result([s EXCEPT !.to_fix_backup = next_backup(@)],
                  {ask(i)} \cup IF fix_pred THEN {ask(j)} ELSE {})

(***************************************************************************)
(* Ask the active finger closest to the opposite side of the circle, and,  *)
(* each time the index wraps around, the rnd-th well known node counted    *)
(* from 1, where rnd is random() % num_well_known: when it is 0, none.     *)
(* Called only when there is an active finger.                             *)
(***************************************************************************)
fix_fingers(s, rnd) ==
  LET succ  == succ_finger(s)
      wraps == \/ id_is_between(chord_id_successor(s.id, s.to_fix_finger), s.id, succ)
               \/ s.to_fix_finger = 0
      prec  == closest_preceding_finger(s, chord_id_successor(s.id, NFINGERS - 1), FALSE)
      f     == IF prec = NULL THEN succ ELSE prec
  IN  Result([s EXCEPT !.to_fix_finger = IF wraps THEN NFINGERS - 1 ELSE @ - 1],
             {send_fs(s, DEF_TTL, s.flist[f].addr)}
               \cup IF wraps /\ rnd \in 1 .. Len(WellKnown)
                    THEN {send_fs(s, DEF_TTL, WellKnown[rnd])} ELSE {})

(***************************************************************************)
(* The fingers clean_finger_list removes.  Only fingers strictly between   *)
(* the last backup successor and the first backup predecessor are looked   *)
(* at, from the tail down, while k goes from NFINGERS-1 down to 0: a       *)
(* finger is compared with the greatest id + 2^k that does not come after  *)
(* it.  It goes if another finger lies between that target and it; the     *)
(* walk ends at the first target that comes before the last backup         *)
(* successor.  A finger that is such a target itself goes too, with every  *)
(* one before it: its predecessor is looked for between two equal ids,     *)
(* where id_is_between finds every other id.                               *)
(***************************************************************************)
disposable_fingers(s) ==
  {x \in fingers(s) : /\ position(s, x) > NSUCCESSORS - 1
                      /\ position(s, x) < list_length(s) - NPREDECESSORS}

improper_fingers(s) ==
  LET lastsucc == finger_at(s, NSUCCESSORS - 1)
      target(k) == chord_id_successor(s.id, k)
      follows(x, k) == ~id_is_between(x, s.id, target(k))
  IN  {x \in disposable_fingers(s) :
         \E k \in 0 .. NFINGERS - 1 :
           \/ /\ follows(x, k)
              /\ k < NFINGERS - 1 => ~follows(x, k + 1)
              /\ ~id_is_between(target(k), s.id, lastsucc)
              /\ \E y \in fingers(s) : id_is_between(y, s.id, x) /\ follows(y, k)
           \/ /\ target(k) \in disposable_fingers(s)
              /\ x = target(k) \/ id_is_between(x, s.id, target(k))}

clean_finger_list(s) == remove_fingers(s, improper_fingers(s))

(***************************************************************************)
(* One firing of the stabilization timer.  idx counts the firings that got *)
(* past the test for a successor; the code asks for it only modulo the two *)
(* periods, so it is kept modulo the longer.                               *)
(***************************************************************************)
stabilize(s, idx, rnd) ==
  LET p    == ping(s)
      succ == succ_finger(p.srv)
      pred == pred_finger(p.srv)
      b    == fix_succs_preds(p.srv)
      f    == fix_fingers(b.srv, rnd)
      pings_pred == idx % PERIOD_PING_PRED = 0
  IN  IF fingers(s) = {}
      THEN [srv |-> s, idx |-> idx,
            out |-> UNION {{send_fs(s, DEF_TTL, a), send_ping(s, a)} : a \in WellKnownAddrs}]
      ELSE IF succ = NULL
      THEN [srv |-> p.srv, idx |-> idx, out |-> p.out]
      ELSE IF pings_pred /\ pred = NULL
      THEN [srv |-> assert_fails(p.srv), idx |-> idx,
            out |-> p.out \cup {send_stab(s, p.srv.flist[succ].addr)}]
      ELSE [srv |-> IF idx = 0 THEN clean_finger_list(f.srv) ELSE f.srv,
            idx |-> (idx + 1) % CHORD_CLEAN_PERIOD,
            out |-> p.out \cup {send_stab(s, p.srv.flist[succ].addr)}
                      \cup (IF pings_pred THEN {send_ping(s, p.srv.flist[pred].addr)} ELSE {})
                      \cup b.out \cup f.out]
=============================================================================
