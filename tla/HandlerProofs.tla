--------------------------- MODULE HandlerProofs ---------------------------
(***************************************************************************)
(* What each packet handler and timer callback does to the server, for     *)
(* identifiers of any length, any number of peers, and any values of the   *)
(* table's limits.  ChordServerProofs puts these lemmas together.          *)
(***************************************************************************)
EXTENDS ChordServer, FingerTableProofs

\* What is sent and answered to us has the type of a request.
Sendable(m) == IsRequest(m) => Request(m) \in RequestType

\* A server that can handle a datagram or a timer.
Ready(s) ==
  /\ Consistent(s)
  /\ s.fault = "none"
  /\ s.to_fix_finger \in 0 .. NFINGERS - 1
  /\ s.to_fix_backup \in 0 .. NSUCCESSORS - 1
  /\ s.addr # Unspecified => s.id = get_address_id(s.addr)

(***************************************************************************)
(* What every handler but process_pong, and every timer callback, does to  *)
(* a server: the table stays consistent, no assertion fails, who and where *)
(* the server is does not change, and no finger becomes active or changes  *)
(* its address.                                                            *)
(***************************************************************************)
Follows(s, t) ==
  /\ Consistent(t)
  /\ t.fault \notin {"assert", "freed"}
  /\ t.to_fix_finger \in 0 .. NFINGERS - 1
  /\ t.to_fix_backup \in 0 .. NSUCCESSORS - 1
  /\ t.addr = s.addr /\ t.id = s.id /\ t.sock = s.sock
  /\ t.discover_addr_event = s.discover_addr_event /\ t.stab_event = s.stab_event
  /\ t.ticket_salt = s.ticket_salt
  /\ active_fingers(t) \subseteq active_fingers(s)
  /\ \A x \in active_fingers(t) : t.flist[x].addr = s.flist[x].addr

\* What a handler other than process_pong does.
Outcome(s, r) ==
  /\ Follows(s, r.srv)
  /\ active_fingers(r.srv) = active_fingers(s)
  /\ s.addr = Unspecified => r.srv = s
  /\ \A m \in r.out : Sendable(m)

-----------------------------------------------------------------------------
\* Requests have the type of requests.
LEMMA RequestsSendable ==
  ASSUME NEW s, s.ticket_salt \in Nat, NEW a \in Addr
  PROVE  /\ Sendable(send_addr_discover(s, a))
         /\ Sendable(send_stab(s, a))
         /\ Sendable(send_ping(s, a))
<1>1. \A type \in {"ADDR_DISCOVER", "PING"} : pack_ticket(s, type, a) \in Ticket
  BY DEF pack_ticket, Ticket
<1>2. Sendable(send_addr_discover(s, a))
  BY <1>1 DEF Sendable, send_addr_discover, Request, RequestType
<1>3. Sendable(send_stab(s, a))
  BY DEF Sendable, send_stab, Request, RequestType
<1>4. Sendable(send_ping(s, a))
  BY <1>1 DEF Sendable, send_ping, Request, RequestType
<1> QED
  BY <1>2, <1>3, <1>4

\* So have find_successor requests, to whomever they are sent.
LEMMA FsSendable ==
  ASSUME NEW s, s.ticket_salt \in Nat, NEW ttl, NEW to
  PROVE  Sendable(send_fs(s, ttl, to))
<1>1. pack_ticket(s, "FS", NULL) \in Ticket
  BY DEF pack_ticket, Ticket
<1> QED
  BY <1>1 DEF Sendable, send_fs, send_fs_forward, Request, RequestType

\* The other messages are not requests.
LEMMA RepliesSendable ==
  ASSUME NEW s, NEW to, NEW x, NEW y
  PROVE  /\ Sendable(send_stab_reply(s, to, x))
         /\ Sendable(send_notify(s, to))
         /\ Sendable(send_pong(s, x, to))
BY DEF Sendable, IsRequest, send_stab_reply, send_notify, send_pong

\* A handler that only drops its packet.
LEMMA DroppedOutcome ==
  ASSUME NEW s, Ready(s)
  PROVE  Outcome(s, Dropped(s))
<1>1. Dropped(s).srv = s /\ Dropped(s).out = {}
  BY DEF Dropped, Result, Ready
<1>2. Follows(s, s)
  BY DEF Follows, Ready
<1> QED
  BY <1>1, <1>2 DEF Outcome

\* insert_finger, as every handler that calls it needs it.
LEMMA InsertFollows ==
  ASSUME NEW s, Ready(s), s.addr # Unspecified, NEW addr \in Addr
  PROVE  LET t == insert_finger(s, addr)
         IN  /\ Follows(s, t)
             /\ Ready(t)
             /\ t.ticket_salt \in Nat
             /\ active_fingers(t) = active_fingers(s)
             /\ addr # s.addr => /\ get_address_id(addr) \in fingers(t)
                                 /\ t.flist[get_address_id(addr)].addr = addr
<1> DEFINE t == insert_finger(s, addr)
<1>1. s.addr \in Addr /\ s.id = get_address_id(s.addr) /\ Consistent(s)
  BY DEF Ready, Consistent, IsServer
<1>2. /\ Consistent(t)
      /\ SameButTable(s, t)
      /\ active_fingers(t) = active_fingers(s)
      /\ \A x \in active_fingers(s) : t.flist[x] = s.flist[x]
      /\ addr # s.addr => /\ get_address_id(addr) \in fingers(t)
                          /\ t.flist[get_address_id(addr)].addr = addr
  BY <1>1, InsertFingerConsistent
<1> HIDE DEF t
<1>3. Follows(s, t) /\ Ready(t)
  BY <1>2 DEF Follows, Ready, SameButTable
<1>4. t.ticket_salt \in Nat
  BY <1>2 DEF Consistent, IsServer
<1> QED
  BY <1>2, <1>3, <1>4 DEF t

-----------------------------------------------------------------------------
\* The handlers.

\* What a handler sends once it has inserted a finger without a fault.
LEMMA InsertOutcome ==
  ASSUME NEW s, Ready(s), s.addr # Unspecified, NEW addr \in Addr,
         NEW out, \A m \in out : Sendable(m)
  PROVE  Outcome(s, Result(insert_finger(s, addr), out))
<1> DEFINE t == insert_finger(s, addr)
<1>1. Follows(s, t) /\ Ready(t) /\ active_fingers(t) = active_fingers(s)
  BY InsertFollows
<1> HIDE DEF t
<1>2. Result(t, out).srv = t /\ Result(t, out).out = out
  BY <1>1 DEF Result, Ready
<1> QED
  BY <1>1, <1>2 DEF Outcome, t

\* process_stab inserts the peer and answers with the predecessor it had before.
LEMMA StabOutcome ==
  ASSUME NEW s, Ready(s), NEW msg, msg.addr \in Addr
  PROVE  Outcome(s, process_stab(s, msg))
<1> DEFINE t == insert_finger(s, msg.addr)
           out == IF pred_finger(s) = NULL THEN {}
                  ELSE {send_stab_reply(s, msg.addr, t.flist[pred_finger(s)].addr)}
<1>1. CASE s.addr = Unspecified
  BY <1>1, DroppedOutcome DEF process_stab
<1>2. CASE s.addr # Unspecified
  <2>1. process_stab(s, msg) = Result(t, out)
    <3>1. active_fingers(t) = active_fingers(s) /\ IsServer(s)
      BY <1>2, InsertFollows DEF Ready, Consistent
    <3>2. pred_finger(s) \in fingers(t) \cup {NULL}
      BY <3>1, SuccAndPred DEF active_fingers
    <3> QED
      BY <1>2, <3>2 DEF process_stab
  <2>2. \A m \in out : Sendable(m)
    BY RepliesSendable
  <2> HIDE DEF out
  <2> QED
    BY <1>2, <2>1, <2>2, InsertOutcome
<1> QED
  BY <1>1, <1>2

\* process_fs answers or sends on, and changes nothing.
LEMMA FsOutcome ==
  ASSUME NEW s, Ready(s), NEW msg, msg.addr # Self
  PROVE  Outcome(s, process_fs(s, msg))
<1> DEFINE r == process_fs(s, msg)
           reply(a) == send_fs_reply(s, msg.ticket, msg.addr, a)
           forward(a) == send_fs_forward(s, msg.ticket, msg.ttl - 1, a, msg.addr)
<1>1. r.srv = s /\ \A m \in r.out : \E a : m = reply(a) \/ m = forward(a)
  BY DEF process_fs, Dropped, Result
<1>2. \A a : Sendable(reply(a)) /\ Sendable(forward(a))
  BY DEF Sendable, IsRequest, send_fs_reply, send_fs_forward
<1> HIDE DEF r
<1>3. Follows(s, s)
  BY DEF Follows, Ready
<1> QED
  BY <1>1, <1>2, <1>3 DEF Outcome, r

\* process_fs_reply inserts the successor found and pings it if it is new.
LEMMA FsReplyOutcome ==
  ASSUME NEW s, Ready(s), NEW msg, msg.addr \in Addr
  PROVE  Outcome(s, process_fs_reply(s, msg))
<1> DEFINE drop == \/ s.addr = Unspecified
                   \/ ~verify_ticket(s, msg.ticket, "FS", NULL)
                   \/ s.addr = msg.addr
           out == IF insert_finger_fnew(s, msg.addr, FALSE)
                  THEN {send_ping(s, msg.addr)} ELSE {}
<1>1. CASE drop
  BY <1>1, DroppedOutcome DEF process_fs_reply
<1>2. CASE ~drop
  <2>1. process_fs_reply(s, msg) = Result(insert_finger(s, msg.addr), out)
    BY <1>2 DEF process_fs_reply
  <2>2. s.ticket_salt \in Nat
    BY DEF Ready, Consistent, IsServer
  <2>3. \A m \in out : Sendable(m)
    BY <2>2, RequestsSendable
  <2> HIDE DEF out
  <2> QED
    BY <1>2, <2>1, <2>3, InsertOutcome
<1> QED
  BY <1>1, <1>2

\* process_notify inserts the peer and pings it if it is new.
LEMMA NotifyOutcome ==
  ASSUME NEW s, Ready(s), NEW msg, msg.from \in Addr, NEW garbage
  PROVE  Outcome(s, process_notify(s, msg, garbage))
<1> DEFINE out == IF insert_finger_fnew(s, msg.from, garbage)
                  THEN {send_ping(s, msg.from)} ELSE {}
<1>1. CASE s.addr = Unspecified
  BY <1>1, DroppedOutcome DEF process_notify
<1>2. CASE s.addr # Unspecified
  <2>1. process_notify(s, msg, garbage) = Result(insert_finger(s, msg.from), out)
    BY <1>2 DEF process_notify
  <2>2. s.ticket_salt \in Nat
    BY DEF Ready, Consistent, IsServer
  <2>3. \A m \in out : Sendable(m)
    BY <2>2, RequestsSendable
  <2> HIDE DEF out
  <2> QED
    BY <1>2, <2>1, <2>3, InsertOutcome
<1> QED
  BY <1>1, <1>2

\* process_ping inserts the peer, answers, and may ping it in turn.
LEMMA PingOutcome ==
  ASSUME NEW s, Ready(s), NEW msg, msg.from \in Addr, NEW garbage
  PROVE  Outcome(s, process_ping(s, msg, garbage))
<1> DEFINE pred == pred_finger(insert_finger(s, msg.from))
           out == {send_pong(s, msg.ticket, msg.from)}
                    \cup IF /\ insert_finger_fnew(s, msg.from, garbage)
                            /\ \/ pred = NULL
                               \/ id_is_between(get_address_id(msg.from), pred, s.id)
                         THEN {send_ping(s, msg.from)} ELSE {}
<1>1. CASE s.addr = Unspecified
  BY <1>1, DroppedOutcome DEF process_ping
<1>2. CASE s.addr # Unspecified
  <2>1. process_ping(s, msg, garbage) = Result(insert_finger(s, msg.from), out)
    BY <1>2 DEF process_ping
  <2>2. s.ticket_salt \in Nat
    BY DEF Ready, Consistent, IsServer
  <2>3. \A m \in out : Sendable(m)
    BY <2>2, RequestsSendable, RepliesSendable
  <2> HIDE DEF out
  <2> QED
    BY <1>2, <2>1, <2>3, InsertOutcome
<1> QED
  BY <1>1, <1>2

\* process_stab_reply: a missing successor ends the process, after the insertion.
LEMMA StabReplyOutcome ==
  ASSUME NEW s, Ready(s), NEW msg, msg.addr \in Addr
  PROVE  Outcome(s, process_stab_reply(s, msg))
<1> DEFINE t == insert_finger(s, msg.addr)
           succ == succ_finger(t)
           out == {send_notify(s, t.flist[succ].addr)}
                    \cup IF insert_finger_fnew(s, msg.addr, FALSE)
                         THEN {send_ping(s, msg.addr)} ELSE {}
           u == [t EXCEPT !.fault = "null"]
<1>1. CASE s.addr = Unspecified \/ s.addr = msg.addr
  BY <1>1, DroppedOutcome DEF process_stab_reply
<1>2. CASE s.addr # Unspecified /\ s.addr # msg.addr
  <2>1. Follows(s, t) /\ Ready(t) /\ active_fingers(t) = active_fingers(s)
    BY <1>2, InsertFollows
  <2>2. CASE succ = NULL
    <3>1. process_stab_reply(s, msg) = Dropped(u)
      BY <1>2, <2>1, <2>2 DEF process_stab_reply, Ready
    <3> HIDE DEF t, succ
    <3>2. /\ u.flist = t.flist /\ u.id = t.id
          /\ u.num_passive_fingers = t.num_passive_fingers
          /\ u.pred_bound = t.pred_bound
          /\ u.addr = t.addr /\ u.sock = t.sock
          /\ u.to_fix_finger = t.to_fix_finger /\ u.to_fix_backup = t.to_fix_backup
          /\ u.discover_addr_event = t.discover_addr_event /\ u.stab_event = t.stab_event
          /\ u.ticket_salt = t.ticket_salt /\ u.fault = "null"
          /\ IsServer(u)
      BY <2>1 DEF Ready, Consistent, IsServer, fingers
    <3> HIDE DEF u
    <3>3. /\ fingers(u) = fingers(t)
          /\ active_fingers(u) = active_fingers(t)
          /\ passive_fingers(u) = passive_fingers(t)
      BY <3>2 DEF fingers, active_fingers, passive_fingers
    <3>4. PredecessorOrSelf(u) = PredecessorOrSelf(t)
      BY <3>2, <3>3, BoundFromActive
    <3>5. Consistent(u)
      BY <2>1, <3>2, <3>3, <3>4 DEF Ready, Consistent
    <3>6. Follows(s, u)
      BY <2>1, <3>2, <3>3, <3>5 DEF Follows
    <3>7. Dropped(u).srv = u /\ Dropped(u).out = {}
      BY <3>2 DEF Dropped, Result
    <3> QED
      BY <1>2, <2>1, <3>1, <3>3, <3>6, <3>7 DEF Outcome
  <2>3. CASE succ # NULL
    <3>1. process_stab_reply(s, msg) = Result(t, out)
      BY <1>2, <2>3 DEF process_stab_reply
    <3>2. s.ticket_salt \in Nat
      BY DEF Ready, Consistent, IsServer
    <3>3. \A m \in out : Sendable(m)
      BY <3>2, RequestsSendable, RepliesSendable
    <3> HIDE DEF out
    <3> QED
      BY <1>2, <3>1, <3>3, InsertOutcome
  <2> QED
    BY <2>2, <2>3
<1> QED
  BY <1>1, <1>2

(***************************************************************************)
(* What process_pong does: as Follows, but the finger whose answer it is,  *)
(* and no other, may become active.                                        *)
(***************************************************************************)
PongOutcome(s, msg, t) ==
  /\ Consistent(t)
  /\ t.fault \notin {"assert", "freed"}
  /\ t.to_fix_finger = s.to_fix_finger /\ t.to_fix_backup = s.to_fix_backup
  /\ t.addr = s.addr /\ t.id = s.id /\ t.sock = s.sock
  /\ t.discover_addr_event = s.discover_addr_event /\ t.stab_event = s.stab_event
  /\ t.ticket_salt = s.ticket_salt
  /\ s.addr = Unspecified => t = s
  /\ active_fingers(s) \subseteq active_fingers(t)
  /\ \A x \in active_fingers(t) :
       \/ x \in active_fingers(s) /\ t.flist[x].addr = s.flist[x].addr
       \/ verify_ticket(s, msg.ticket, "PING", msg.from) /\ t.flist[x].addr = msg.from

\* process_pong activates the peer if the ticket is ours, and moves the range.
LEMMA PongActivates ==
  ASSUME NEW s, Ready(s), NEW msg, msg.from \in Addr
  PROVE  PongOutcome(s, msg, process_pong(s, msg).srv) /\ process_pong(s, msg).out = {}
<1> DEFINE f == get_address_id(msg.from)
           t == insert_finger(s, msg.from)
           u == Answered(t, f)
           v == IF pred_finger(t) = pred_finger(u) THEN u
                ELSE chord_update_range(u, pred_finger(u), t.id)
           drop == \/ s.addr = Unspecified
                   \/ ~verify_ticket(s, msg.ticket, "PING", msg.from)
                   \/ msg.from = s.addr
<1>1. CASE drop
  <2>1. process_pong(s, msg) = Dropped(s)
    BY <1>1 DEF process_pong
  <2>2. Dropped(s).srv = s /\ Dropped(s).out = {}
    BY DEF Dropped, Result, Ready
  <2>3. PongOutcome(s, msg, s)
    BY DEF PongOutcome, Ready
  <2> QED
    BY <2>1, <2>2, <2>3
<1>2. CASE ~drop
  <2>1. /\ Follows(s, t) /\ Ready(t)
        /\ active_fingers(t) = active_fingers(s)
        /\ f \in fingers(t) /\ t.flist[f].addr = msg.from
    BY <1>2, InsertFollows
  <2>2. t.id = s.id /\ t.fault = "none" /\ SameButTable(s, t)
    <3>1. s.addr \in Addr /\ s.id = get_address_id(s.addr) /\ Consistent(s)
      BY <1>2 DEF Ready, Consistent, IsServer
    <3> QED
      BY <2>1, <3>1, InsertFingerConsistent DEF Follows, Ready
  <2>3. /\ pred_finger(u) # NULL
        /\ Consistent(v)
        /\ SameButTable(t, v)
        /\ active_fingers(v) = active_fingers(t) \cup {f}
        /\ \A x \in fingers(t) : v.flist[x].addr = t.flist[x].addr
    BY <2>1, ActivateConsistent DEF Ready
  <2>4. process_pong(s, msg) = Result(v, {})
    <3> HIDE DEF t, f
    <3>1. u = activate_finger([t EXCEPT !.flist[f].npings = 0], f)
      BY DEF Answered
    <3> QED
      BY <1>2, <2>2, <2>3, <3>1 DEF process_pong, t, f
  <2> HIDE DEF v, t, f
  <2>5. Result(v, {}).srv = v /\ Result(v, {}).out = {}
    BY DEF Result
  <2>6. ASSUME NEW x \in active_fingers(v)
        PROVE  \/ x \in active_fingers(s) /\ v.flist[x].addr = s.flist[x].addr
               \/ verify_ticket(s, msg.ticket, "PING", msg.from) /\ v.flist[x].addr = msg.from
    <3>1. x \in active_fingers(t) \/ x = f
      BY <2>3
    <3>2. x \in active_fingers(t) => x \in fingers(t)
      BY DEF active_fingers
    <3> QED
      BY <1>2, <2>1, <2>3, <3>1, <3>2 DEF Follows
  <2>7. PongOutcome(s, msg, v)
    BY <1>2, <2>1, <2>2, <2>3, <2>6 DEF PongOutcome, SameButTable
  <2> QED
    BY <2>4, <2>5, <2>7
<1> QED
  BY <1>1, <1>2

-----------------------------------------------------------------------------
\* The timers.

\* A server whose counters change and whose table does not.
LEMMA SameTable ==
  ASSUME NEW s, Consistent(s), NEW t, IsServer(t), t.flist = s.flist, t.id = s.id,
         t.num_passive_fingers = s.num_passive_fingers, t.pred_bound = s.pred_bound
  PROVE  Consistent(t) /\ active_fingers(t) = active_fingers(s)
<1>1. /\ fingers(t) = fingers(s)
      /\ active_fingers(t) = active_fingers(s)
      /\ passive_fingers(t) = passive_fingers(s)
  BY DEF fingers, active_fingers, passive_fingers
<1>2. PredecessorOrSelf(t) = PredecessorOrSelf(s)
  BY <1>1, BoundFromActive
<1> QED
  BY <1>1, <1>2 DEF Consistent

(***************************************************************************)
(* ping() keeps the table consistent, and drops an active finger only when *)
(* PING_THRESH of its pings are unanswered.                                *)
(***************************************************************************)
LEMMA PingRound ==
  ASSUME NEW s, Ready(s)
  PROVE  LET r == ping(s)
         IN  /\ Ready(r.srv)
             /\ Follows(s, r.srv)
             /\ \A m \in r.out : Sendable(m)
             /\ \A x \in active_fingers(s) :
                  x \in active_fingers(r.srv) \/ s.flist[x].npings >= PING_THRESH
<1> DEFINE dead   == {x \in fingers(s) : s.flist[x].npings >= PING_THRESH}
           turn   == {x \in fingers(s) \ dead : position(s, x) = s.to_ping}
           pinged == turn \cup {x \in fingers(s) \ dead : s.flist[x].npings > 0}
           t      == remove_fingers(s, dead)
           more   == \E x \in turn : \E y \in fingers(t) : id_is_between(x, s.id, y)
           fl     == [x \in fingers(t) |-> IF x \in pinged
                                          THEN [t.flist[x] EXCEPT !.npings = @ + 1]
                                          ELSE t.flist[x]]
           k      == IF more THEN t.to_ping + 1 ELSE 0
           q      == [t EXCEPT !.flist = fl, !.to_ping = k]
           out    == {send_ping(s, s.flist[x].addr) : x \in pinged}
<1>1. /\ IsServer(s) /\ s.ticket_salt \in Nat
      /\ \A x \in fingers(s) : s.flist[x] \in Finger
      /\ \A x \in fingers(s) : s.flist[x].npings \in 0 .. PING_THRESH
      /\ \A x \in fingers(s) : s.flist[x].addr \in Addr
  BY DEF Ready, Consistent, IsServer, fingers, Finger
<1>2. /\ Consistent(t)
      /\ SameButTable(s, t)
      /\ t.flist = [x \in fingers(s) \ dead |-> s.flist[x]]
  BY RemoveFingersConsistent DEF Ready
<1>3. \A m \in out : Sendable(m)
  BY <1>1, RequestsSendable
<1>4. ping(s) = Result(q, out)
  <2>1. IsServer(t)
    BY <1>2 DEF Consistent
  <2> HIDE DEF fl
  <2>2. [t EXCEPT !.flist = fl, !.to_ping = IF more THEN @ + 1 ELSE 0] = q
    BY <2>1 DEF IsServer
  <2> QED
    BY <2>2 DEF ping, fl
<1> HIDE DEF t, pinged, more, out
<1>5. /\ fingers(t) = fingers(s) \ dead
      /\ \A x \in fingers(t) : t.flist[x] = s.flist[x]
  BY <1>2 DEF fingers
<1>6. ASSUME NEW x \in fingers(t)
      PROVE  fl[x] \in Finger /\ fl[x].addr = s.flist[x].addr /\ fl[x].status = s.flist[x].status
  <2>1. /\ t.flist[x] = s.flist[x] /\ s.flist[x] \in Finger
        /\ s.flist[x].npings \in 0 .. PING_THRESH
        /\ ~ (s.flist[x].npings >= PING_THRESH)
    BY <1>1, <1>5
  <2> DEFINE g == s.flist[x]
  <2>2. g \in Finger /\ g.npings + 1 \in 0 .. PING_THRESH
    BY <2>1, FingerAssumption
  <2>3. fl[x] = IF x \in pinged THEN [g EXCEPT !.npings = g.npings + 1] ELSE g
    BY <2>1 DEF Finger
  <2> HIDE DEF g, fl
  <2>4. fl[x] \in Finger /\ fl[x].addr = g.addr /\ fl[x].status = g.status
    BY <2>2, <2>3 DEF Finger
  <2> QED
    BY <2>4 DEF g
<1>7. fl \in [fingers(t) -> Finger]
  BY <1>6
<1>8. \A x \in fingers(t) : fl[x].addr = s.flist[x].addr /\ fl[x].status = s.flist[x].status
  BY <1>6
<1>9. DOMAIN fl = fingers(t)
  OBVIOUS
<1> HIDE DEF fl
<1>10. /\ k \in Nat
       /\ IsServer(t)
  BY <1>2 DEF Consistent, IsServer
<1> HIDE DEF k
<1>11. /\ q.flist = fl /\ q.id = t.id
       /\ q.num_passive_fingers = t.num_passive_fingers
       /\ q.pred_bound = t.pred_bound
       /\ q.addr = t.addr /\ q.sock = t.sock
       /\ q.to_fix_finger = t.to_fix_finger /\ q.to_fix_backup = t.to_fix_backup
       /\ q.discover_addr_event = t.discover_addr_event /\ q.stab_event = t.stab_event
       /\ q.ticket_salt = t.ticket_salt /\ q.fault = t.fault
  BY <1>10 DEF IsServer
<1>12. IsServer(q)
  BY <1>7, <1>9, <1>10 DEF IsServer, fingers
<1> HIDE DEF q
<1>13. /\ fingers(q) = fingers(t)
       /\ active_fingers(q) = active_fingers(t)
       /\ passive_fingers(q) = passive_fingers(t)
  <2>1. fingers(q) = fingers(t)
    BY <1>9, <1>11, Zenon DEF fingers
  <2>2. \A x \in fingers(t) : q.flist[x].status = t.flist[x].status
    BY <1>5, <1>8, <1>11, Zenon
  <2> QED
    BY <2>1, <2>2 DEF active_fingers, passive_fingers
<1>14. PredecessorOrSelf(q) = PredecessorOrSelf(t)
  BY <1>11, <1>13, BoundFromActive
<1>15. Consistent(q)
  <2>1. \A x \in fingers(q) : get_address_id(q.flist[x].addr) = x
    BY <1>2, <1>5, <1>8, <1>11, <1>13 DEF Consistent
  <2> QED
    BY <1>2, <1>11, <1>12, <1>13, <1>14, <2>1 DEF Consistent
<1>16. /\ active_fingers(q) \subseteq active_fingers(s)
       /\ \A x \in active_fingers(q) : q.flist[x].addr = s.flist[x].addr
       /\ \A x \in active_fingers(s) :
            x \in active_fingers(q) \/ s.flist[x].npings >= PING_THRESH
  BY <1>5, <1>8, <1>11, <1>13 DEF active_fingers
<1>17. Ready(q) /\ Follows(s, q)
  BY <1>2, <1>11, <1>15, <1>16 DEF Ready, Follows, SameButTable
<1>18. Result(q, out).srv = q /\ Result(q, out).out = out
  BY <1>17 DEF Result, Ready
<1> QED
  BY <1>3, <1>4, <1>16, <1>17, <1>18

\* The two counters of the fixing functions may change within their bounds.
LEMMA CountersChange ==
  ASSUME NEW s, Ready(s), NEW n \in 0 .. NFINGERS - 1, NEW b \in 0 .. NSUCCESSORS - 1
  PROVE  LET t == [s EXCEPT !.to_fix_finger = n, !.to_fix_backup = b]
         IN  Ready(t) /\ Follows(s, t) /\ active_fingers(t) = active_fingers(s)
<1> DEFINE t == [s EXCEPT !.to_fix_finger = n, !.to_fix_backup = b]
<1>1. IsServer(s) /\ n \in Nat /\ b \in Nat
  BY StabilizeAssumption, IdAssumption DEF Ready, Consistent
<1>2. /\ t.flist = s.flist /\ t.id = s.id
      /\ t.num_passive_fingers = s.num_passive_fingers
      /\ t.pred_bound = s.pred_bound
      /\ t.addr = s.addr /\ t.sock = s.sock
      /\ t.to_fix_finger = n /\ t.to_fix_backup = b
      /\ t.discover_addr_event = s.discover_addr_event /\ t.stab_event = s.stab_event
      /\ t.ticket_salt = s.ticket_salt /\ t.fault = s.fault
  BY <1>1 DEF IsServer
<1>3. IsServer(t)
  BY <1>1, <1>2 DEF IsServer, fingers
<1> HIDE DEF t
<1>4. Consistent(t) /\ active_fingers(t) = active_fingers(s)
  BY <1>2, <1>3, SameTable DEF Ready
<1> QED
  BY <1>2, <1>4 DEF Ready, Follows, t

\* fix_succs_preds only moves its counter and sends find_successor requests.
LEMMA FixSuccsPreds ==
  ASSUME NEW s, Ready(s)
  PROVE  LET r == fix_succs_preds(s)
         IN  /\ Ready(r.srv)
             /\ Follows(s, r.srv)
             /\ active_fingers(r.srv) = active_fingers(s)
             /\ \A m \in r.out : Sendable(m)
<1> DEFINE last == list_length(s) - 1
           i    == position(s, succ_finger(s)) + s.to_fix_backup
           p    == position(s, pred_finger(s))
           j    == p - s.to_fix_backup
           ask(n) == send_fs(s, DEF_TTL, s.flist[finger_at(s, n)].addr)
           fix_pred == /\ s.to_fix_backup < NPREDECESSORS
                       /\ 1 <= j /\ j < last
                       /\ ~(j <= i /\ i <= p)
           out  == IF i >= last THEN {} ELSE {ask(i)} \cup IF fix_pred THEN {ask(j)} ELSE {}
           b    == IF i >= last THEN 0 ELSE next_backup(s.to_fix_backup)
           t    == [s EXCEPT !.to_fix_finger = s.to_fix_finger, !.to_fix_backup = b]
<1>1. /\ s.ticket_salt \in Nat /\ IsServer(s)
      /\ s.to_fix_finger \in 0 .. NFINGERS - 1
      /\ s.to_fix_backup \in 0 .. NSUCCESSORS - 1
  BY DEF Ready, Consistent, IsServer
<1>2. b \in 0 .. NSUCCESSORS - 1
  <2> HIDE DEF i, last
  <2> QED
    BY <1>1, StabilizeAssumption DEF next_backup
<1>3. \A m \in out : Sendable(m)
  BY <1>1, FsSendable
<1>4. [s EXCEPT !.to_fix_backup = b] = t
  <2> HIDE DEF b
  <2> QED
    BY <1>1 DEF IsServer
<1>5. fix_succs_preds(s) = Result([s EXCEPT !.to_fix_backup = b], out)
  BY <1>1 DEF fix_succs_preds
<1> HIDE DEF b, out, t
<1>6. Ready(t) /\ Follows(s, t) /\ active_fingers(t) = active_fingers(s)
  BY <1>1, <1>2, CountersChange DEF t
<1>7. Result(t, out).srv = t /\ Result(t, out).out = out
  BY <1>6 DEF Result, Ready
<1> QED
  BY <1>3, <1>4, <1>5, <1>6, <1>7

\* fix_fingers only moves its counter and sends find_successor requests.
LEMMA FixFingers ==
  ASSUME NEW s, Ready(s), NEW rnd
  PROVE  LET r == fix_fingers(s, rnd)
         IN  /\ Ready(r.srv)
             /\ Follows(s, r.srv)
             /\ active_fingers(r.srv) = active_fingers(s)
             /\ \A m \in r.out : Sendable(m)
<1> DEFINE succ  == succ_finger(s)
           wraps == \/ id_is_between(chord_id_successor(s.id, s.to_fix_finger), s.id, succ)
                    \/ s.to_fix_finger = 0
           prec  == closest_preceding_finger(s, chord_id_successor(s.id, NFINGERS - 1), FALSE)
           f     == IF prec = NULL THEN succ ELSE prec
           out   == {send_fs(s, DEF_TTL, s.flist[f].addr)}
                      \cup IF wraps /\ rnd \in 1 .. Len(WellKnown)
                           THEN {send_fs(s, DEF_TTL, WellKnown[rnd])} ELSE {}
           n     == IF wraps THEN NFINGERS - 1 ELSE s.to_fix_finger - 1
           t     == [s EXCEPT !.to_fix_finger = n, !.to_fix_backup = s.to_fix_backup]
<1>1. /\ s.ticket_salt \in Nat /\ IsServer(s)
      /\ s.to_fix_finger \in 0 .. NFINGERS - 1
      /\ s.to_fix_backup \in 0 .. NSUCCESSORS - 1
  BY DEF Ready, Consistent, IsServer
<1>2. n \in 0 .. NFINGERS - 1
  <2>1. NFINGERS \in Nat \ {0}
    BY StabilizeAssumption, IdAssumption
  <2>2. ~wraps => s.to_fix_finger # 0
    OBVIOUS
  <2> HIDE DEF wraps
  <2> QED
    BY <1>1, <2>1, <2>2
<1>3. \A m \in out : Sendable(m)
  BY <1>1, FsSendable
<1>4. [s EXCEPT !.to_fix_finger = n] = t
  <2> HIDE DEF n
  <2> QED
    BY <1>1 DEF IsServer
<1>5. fix_fingers(s, rnd) = Result([s EXCEPT !.to_fix_finger = n], out)
  BY <1>1 DEF fix_fingers
<1> HIDE DEF n, out, t
<1>6. Ready(t) /\ Follows(s, t) /\ active_fingers(t) = active_fingers(s)
  BY <1>1, <1>2, CountersChange DEF t
<1>7. Result(t, out).srv = t /\ Result(t, out).out = out
  BY <1>6 DEF Result, Ready
<1> QED
  BY <1>3, <1>4, <1>5, <1>6, <1>7

\* clean_finger_list keeps the table consistent, whatever it removes.
LEMMA CleanFollows ==
  ASSUME NEW s, Ready(s)
  PROVE  Follows(s, clean_finger_list(s))
<1> DEFINE R == improper_fingers(s)
           t == remove_fingers(s, R)
<1>1. /\ Consistent(t)
      /\ SameButTable(s, t)
      /\ t.flist = [x \in fingers(s) \ R |-> s.flist[x]]
  BY RemoveFingersConsistent DEF Ready
<1>2. t = clean_finger_list(s)
  BY DEF clean_finger_list
<1> HIDE DEF t, R
<1>3. /\ active_fingers(t) \subseteq active_fingers(s)
      /\ \A x \in active_fingers(t) : t.flist[x].addr = s.flist[x].addr
  BY <1>1 DEF active_fingers, fingers
<1>4. Follows(s, t)
  BY <1>1, <1>3 DEF Ready, Follows, SameButTable
<1> QED
  BY <1>2, <1>4

\* One step after another.
LEMMA FollowsTransitive ==
  ASSUME NEW s, NEW t, NEW u, Follows(s, t), Follows(t, u)
  PROVE  Follows(s, u)
BY DEF Follows

\* The counter of stabilize() counts modulo CHORD_CLEAN_PERIOD, and moves on from 0.
LEMMA NextIdx ==
  ASSUME NEW i \in 0 .. CHORD_CLEAN_PERIOD - 1
  PROVE  /\ (i + 1) % CHORD_CLEAN_PERIOD \in 0 .. CHORD_CLEAN_PERIOD - 1
         /\ i = 0 => (i + 1) % CHORD_CLEAN_PERIOD # i
<1>1. CHORD_CLEAN_PERIOD \in Nat /\ CHORD_CLEAN_PERIOD > 1
  BY StabilizeAssumption
<1> QED
  BY <1>1

\* What a firing of the stabilization timer does to a server.
StabilizationOutcome(s, i, r) ==
  /\ Follows(s, r.srv)
  /\ r.idx \in 0 .. CHORD_CLEAN_PERIOD - 1
  /\ \A m \in r.out : Sendable(m)
  /\ \A x \in active_fingers(s) :
       \/ x \in active_fingers(r.srv)
       \/ s.flist[x].npings >= PING_THRESH
       \/ i = 0 /\ r.idx # i

(***************************************************************************)
(* stabilize keeps the table consistent; a server with a successor has a   *)
(* predecessor, so assert(pred) holds; and it drops an active finger only  *)
(* for unanswered pings or in a clean-up.                                  *)
(***************************************************************************)
LEMMA StabilizeOutcome ==
  ASSUME NEW s, Ready(s), NEW i \in 0 .. CHORD_CLEAN_PERIOD - 1, NEW rnd
  PROVE  StabilizationOutcome(s, i, stabilize(s, i, rnd))
<1> DEFINE p    == ping(s)
           succ == succ_finger(p.srv)
           pred == pred_finger(p.srv)
           b    == fix_succs_preds(p.srv)
           f    == fix_fingers(b.srv, rnd)
           pings_pred == i % PERIOD_PING_PRED = 0
           stab == {send_stab(s, p.srv.flist[succ].addr)}
           png  == IF pings_pred THEN {send_ping(s, p.srv.flist[pred].addr)} ELSE {}
<1>1. s.ticket_salt \in Nat /\ IsServer(s)
  BY DEF Ready, Consistent, IsServer
<1>2. /\ Ready(p.srv) /\ Follows(s, p.srv)
      /\ \A m \in p.out : Sendable(m)
      /\ \A x \in active_fingers(s) :
           x \in active_fingers(p.srv) \/ s.flist[x].npings >= PING_THRESH
  BY PingRound
<1>3. CASE fingers(s) = {}
  <2> DEFINE out == UNION {{send_fs(s, DEF_TTL, a), send_ping(s, a)} : a \in WellKnownAddrs}
  <2>1. stabilize(s, i, rnd) = [srv |-> s, idx |-> i, out |-> out]
    BY <1>3 DEF stabilize
  <2>2. WellKnownAddrs \subseteq Addr
    BY StabilizeAssumption DEF WellKnownAddrs
  <2>3. \A m \in out : Sendable(m)
    BY <1>1, <2>2, RequestsSendable, FsSendable
  <2>4. Follows(s, s)
    BY DEF Follows, Ready
  <2> HIDE DEF out
  <2> QED
    BY <2>1, <2>3, <2>4 DEF StabilizationOutcome
<1>4. CASE fingers(s) # {} /\ succ = NULL
  <2>1. stabilize(s, i, rnd) = [srv |-> p.srv, idx |-> i, out |-> p.out]
    BY <1>4 DEF stabilize
  <2> HIDE DEF p
  <2> QED
    BY <1>2, <2>1 DEF StabilizationOutcome
<1>5. CASE fingers(s) # {} /\ succ # NULL
  <2>1. /\ pred # NULL
        /\ p.srv.flist[succ].addr \in Addr
        /\ p.srv.flist[pred].addr \in Addr
    <3>1. IsServer(p.srv)
      BY <1>2 DEF Ready, Consistent
    <3> HIDE DEF p
    <3>2. active_fingers(p.srv) # {}
      BY <1>5, <3>1, SuccAndPred
    <3>3. succ \in active_fingers(p.srv) /\ pred \in active_fingers(p.srv) /\ pred # NULL
      BY <3>1, <3>2, SuccAndPred
    <3> HIDE DEF succ, pred
    <3> QED
      BY <3>1, <3>3 DEF IsServer, active_fingers, fingers, Finger
  <2>2. \A m \in stab \cup png : Sendable(m)
    <3> HIDE DEF p, succ, pred
    <3> QED
      BY <1>1, <2>1, RequestsSendable
  <2>3. /\ Ready(b.srv) /\ Follows(p.srv, b.srv)
        /\ active_fingers(b.srv) = active_fingers(p.srv)
        /\ \A m \in b.out : Sendable(m)
    BY <1>2, FixSuccsPreds
  <2>4. /\ Ready(f.srv) /\ Follows(b.srv, f.srv)
        /\ active_fingers(f.srv) = active_fingers(b.srv)
        /\ \A m \in f.out : Sendable(m)
    BY <2>3, FixFingers
  <2> DEFINE c == IF i = 0 THEN clean_finger_list(f.srv) ELSE f.srv
             out == p.out \cup stab \cup png \cup b.out \cup f.out
             next == (i + 1) % CHORD_CLEAN_PERIOD
  <2>5. stabilize(s, i, rnd) = [srv |-> c, idx |-> next, out |-> out]
    BY <1>5, <2>1 DEF stabilize
  <2>6. \A m \in out : Sendable(m)
    BY <1>2, <2>2, <2>3, <2>4
  <2>7. Follows(s, f.srv)
    BY <1>2, <2>3, <2>4, FollowsTransitive
  <2>8. Follows(s, c)
    BY <2>4, <2>7, CleanFollows, FollowsTransitive
  <2>9. next \in 0 .. CHORD_CLEAN_PERIOD - 1 /\ (i = 0 => next # i)
    BY NextIdx
  <2>10. \A x \in active_fingers(s) :
           \/ x \in active_fingers(c)
           \/ s.flist[x].npings >= PING_THRESH
           \/ i = 0 /\ next # i
    BY <1>2, <2>3, <2>4, <2>9
  <2> HIDE DEF c, out, next
  <2> QED
    BY <2>5, <2>6, <2>8, <2>9, <2>10 DEF StabilizationOutcome
<1> QED
  BY <1>3, <1>4, <1>5
=============================================================================
