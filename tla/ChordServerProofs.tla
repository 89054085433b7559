------------------------- MODULE ChordServerProofs -------------------------
(***************************************************************************)
(* The safety properties of ChordServer, proved for identifiers of any     *)
(* length, any number of peers and restarts, and any values of the table's *)
(* limits.                                                                 *)
(***************************************************************************)
EXTENDS HandlerProofs

(***************************************************************************)
(* The inductive invariant.  The properties lean on each other: the range  *)
(* is right only if the counter is (eviction would fail its assertion),    *)
(* the counter only if the server is not in its own table, and fingers are *)
(* pinged ones only because a finger is filed under the hash of its        *)
(* address, which makes insert_finger never change the address of one.     *)
(***************************************************************************)
Inv ==
  /\ Consistent(srv)
  /\ srv.to_fix_finger \in 0 .. NFINGERS - 1
  /\ srv.to_fix_backup \in 0 .. NSUCCESSORS - 1
  /\ idx \in 0 .. CHORD_CLEAN_PERIOD - 1
  /\ sent \subseteq RequestType
  /\ AssertionsHold
  /\ PredecessorOutlivesInsertion
  /\ DormantUntilAddressKnown
  /\ AddressWasAskedFor
  /\ ActiveFingersWerePinged

\* A freshly started server is consistent.
LEMMA NewServer ==
  ASSUME NEW salt \in Nat
  PROVE  LET s == new_server(salt)
         IN  /\ Consistent(s) /\ fingers(s) = {} /\ active_fingers(s) = {}
             /\ s.addr = Unspecified /\ s.fault = "none"
             /\ s.discover_addr_event = TRUE /\ s.stab_event = FALSE
             /\ s.to_fix_finger \in 0 .. NFINGERS - 1
             /\ s.to_fix_backup \in 0 .. NSUCCESSORS - 1
<1> DEFINE s == new_server(salt)
<1>1. /\ NFINGERS - 1 \in Nat /\ NSUCCESSORS \in Nat \ {0}
      /\ 0 \in Id /\ Self \in Addr /\ MAX_PASSIVE_FINGERS \in Nat
  BY StabilizeAssumption, IdAssumption, ServerAssumption, FingerAssumption DEF Id
<1>2. /\ s.flist = [x \in {} |-> 0] /\ s.id = 0 /\ s.pred_bound = 0
      /\ s.num_passive_fingers = 0 /\ s.addr = Unspecified /\ s.fault = "none"
      /\ s.discover_addr_event = TRUE /\ s.stab_event = FALSE
      /\ s.to_fix_finger = NFINGERS - 1 /\ s.to_fix_backup = 0
  BY DEF new_server
<1>3. fingers(s) = {} /\ s.flist \in [{} -> Finger]
  BY <1>2 DEF fingers
<1>4. IsServer(s)
  <2>1. s.flist \in [fingers(s) -> Finger]
    BY <1>3
  <2> QED
    BY <1>1, <1>3, <2>1 DEF IsServer, new_server
<1> HIDE DEF s
<1>5. active_fingers(s) = {} /\ passive_fingers(s) = {}
  BY <1>3 DEF active_fingers, passive_fingers
<1>6. PredecessorOrSelf(s) = 0
  BY <1>2, <1>5 DEF PredecessorOrSelf, pred_finger, LastFinger
<1>7. Cardinality(passive_fingers(s)) = 0
  BY <1>5, FS_EmptySet
<1>8. Consistent(s)
  BY <1>1, <1>2, <1>3, <1>4, <1>6, <1>7 DEF Consistent
<1> QED
  BY <1>1, <1>2, <1>3, <1>5, <1>8 DEF s

\* Sending keeps what was sent, and its type.
LEMMA SendType ==
  ASSUME sent \subseteq RequestType, NEW out, \A m \in out : Sendable(m), Send(out)
  PROVE  sent' \subseteq RequestType /\ sent \subseteq sent'
BY DEF Send, Sendable

\* Sending may end the process, and changes nothing else.
LEMMA SendingFollows ==
  ASSUME NEW s, NEW t, Follows(s, t), NEW out
  PROVE  /\ Follows(s, after_sending(t, out))
         /\ fingers(after_sending(t, out)) = fingers(t)
         /\ active_fingers(after_sending(t, out)) = active_fingers(t)
         /\ after_sending(t, {}) = t
<1> DEFINE u == [t EXCEPT !.fault = "family"]
<1>1. IsServer(t)
  BY DEF Follows, Consistent
<1>2. /\ u.flist = t.flist /\ u.id = t.id /\ u.pred_bound = t.pred_bound
      /\ u.num_passive_fingers = t.num_passive_fingers /\ u.addr = t.addr
      /\ u.sock = t.sock /\ u.to_fix_finger = t.to_fix_finger
      /\ u.to_fix_backup = t.to_fix_backup /\ u.to_ping = t.to_ping
      /\ u.discover_addr_event = t.discover_addr_event
      /\ u.stab_event = t.stab_event /\ u.ticket_salt = t.ticket_salt
      /\ u.fault = "family" /\ IsServer(u)
  BY <1>1 DEF IsServer, fingers
<1> HIDE DEF u
<1>3. /\ fingers(u) = fingers(t) /\ active_fingers(u) = active_fingers(t)
      /\ passive_fingers(u) = passive_fingers(t)
      /\ PredecessorOrSelf(u) = PredecessorOrSelf(t)
  BY <1>2 DEF fingers, active_fingers, passive_fingers, PredecessorOrSelf,
              pred_finger, LastFinger
<1>4. Consistent(u)
  BY <1>2, <1>3 DEF Follows, Consistent
<1>5. Follows(s, u)
  BY <1>2, <1>3, <1>4 DEF Follows
<1>6. after_sending(t, {}) = t /\ after_sending(t, out) \in {t, u}
  BY DEF after_sending, u
<1> QED
  BY <1>3, <1>5, <1>6

(***************************************************************************)
(* A step in which no finger becomes active keeps the invariant.           *)
(***************************************************************************)
LEMMA FollowsKeepsInv ==
  ASSUME Inv, Follows(srv, srv'), srv.addr = Unspecified => fingers(srv') = fingers(srv),
         idx' \in 0 .. CHORD_CLEAN_PERIOD - 1,
         NEW out, \A m \in out : Sendable(m), Send(out)
  PROVE  Inv'
<1>1. sent' \subseteq RequestType /\ sent \subseteq sent'
  BY SendType DEF Inv
<1>2. DormantUntilAddressKnown'
  <2>1. CASE srv.addr = Unspecified
    BY <2>1 DEF Inv, DormantUntilAddressKnown, Follows, Consistent
  <2>2. CASE srv.addr # Unspecified
    BY <2>2 DEF Inv, DormantUntilAddressKnown, Follows, Consistent
  <2> QED
    BY <2>1, <2>2
<1>3. ActiveFingersWerePinged'
  <2>1. \A x \in active_fingers(srv') :
          [type |-> "PING", to |-> srv'.flist[x].addr,
           ticket |-> pack_ticket(srv', "PING", srv'.flist[x].addr)] \in sent'
    BY <1>1 DEF Inv, ActiveFingersWerePinged, Follows, pack_ticket
  <2> QED
    BY <2>1 DEF ActiveFingersWerePinged
<1>4. AssertionsHold' /\ PredecessorOutlivesInsertion'
  BY DEF Follows, AssertionsHold, PredecessorOutlivesInsertion
<1>5. AddressWasAskedFor'
  BY <1>1 DEF Inv, AddressWasAskedFor, Asked, Follows, pack_ticket
<1> QED
  BY <1>1, <1>2, <1>3, <1>4, <1>5 DEF Inv, Follows

\* A handler other than process_pong keeps the invariant.
LEMMA OutcomeKeepsInv ==
  ASSUME Inv, NEW r, Outcome(srv, r), Handle(r)
  PROVE  Inv' /\ active_fingers(srv') = active_fingers(srv)
<1>1. /\ Follows(srv, srv')
      /\ srv.addr = Unspecified => fingers(srv') = fingers(srv)
      /\ \A m \in r.out : Sendable(m)
      /\ Send(r.out)
      /\ active_fingers(srv') = active_fingers(srv)
      /\ idx' = idx
  BY SendingFollows DEF Outcome, Handle
<1>2. idx' \in 0 .. CHORD_CLEAN_PERIOD - 1
  BY <1>1 DEF Inv
<1> QED
  BY <1>1, <1>2, FollowsKeepsInv

\* The invariant makes a server that has not failed ready.
LEMMA InvReady ==
  ASSUME Inv, srv.fault = "none"
  PROVE  Ready(srv)
BY DEF Inv, Ready, DormantUntilAddressKnown

\* What a request that was sent looks like.
LEMMA RequestFields ==
  ASSUME sent \subseteq RequestType, NEW m \in sent
  PROVE  /\ m.type # "FS" => m.to \in Addr
         /\ m = [type |-> m.type, to |-> m.to, ticket |-> m.ticket]
<1>1. m \in RequestType
  OBVIOUS
<1>2. CASE m \in [type : {"ADDR_DISCOVER", "PING"}, to : Addr, ticket : Ticket]
  BY <1>2
<1>3. CASE m \in [type : {"STAB"}, to : Addr, ticket : {NULL}]
  BY <1>3
<1>4. CASE m \in [type : {"FS"}, to : {NULL}, ticket : Ticket]
  BY <1>4
<1> QED
  BY <1>1, <1>2, <1>3, <1>4 DEF RequestType

-----------------------------------------------------------------------------
\* The steps, one lemma for each kind.

\* A pong: the finger that becomes active was pinged, by this run of the server.
LEMMA RecvPongKeepsInv ==
  ASSUME Inv, NEW m \in Asked("PING"), RecvPong(m)
  PROVE  Inv' /\ KeepsActiveFingers
<1> DEFINE msg == [type |-> "PONG", from |-> m.to, to |-> Self, ticket |-> m.ticket]
           r == process_pong(srv, msg)
<1>1. /\ m \in sent /\ m.type = "PING" /\ m.to \in Addr
      /\ m = [type |-> "PING", to |-> m.to, ticket |-> m.ticket]
  BY RequestFields DEF Inv, Asked
<1>2. Handle(r) /\ srv.fault = "none"
  BY DEF RecvPong, Handle
<1>3. msg.from = m.to /\ msg.ticket = m.ticket
  OBVIOUS
<1> HIDE DEF msg
<1>4. Ready(srv)
  BY <1>2, InvReady
<1>5. PongOutcome(srv, msg, srv') /\ r.out = {} /\ idx' = idx /\ Send({})
  BY <1>1, <1>2, <1>3, <1>4, PongActivates DEF Handle, after_sending
<1> HIDE DEF r
<1>6. sent' = sent
  BY <1>5 DEF Send
<1>7. DormantUntilAddressKnown'
  <2>1. CASE srv.addr = Unspecified
    BY <1>5, <2>1 DEF Inv, DormantUntilAddressKnown, PongOutcome
  <2>2. CASE srv.addr # Unspecified
    BY <1>5, <2>2 DEF Inv, DormantUntilAddressKnown, PongOutcome, Consistent
  <2> QED
    BY <2>1, <2>2
<1>8. ASSUME NEW x \in active_fingers(srv')
      PROVE  [type |-> "PING", to |-> srv'.flist[x].addr,
              ticket |-> pack_ticket(srv', "PING", srv'.flist[x].addr)] \in sent'
  <2>1. CASE x \in active_fingers(srv) /\ srv'.flist[x].addr = srv.flist[x].addr
    BY <1>5, <1>6, <2>1 DEF Inv, ActiveFingersWerePinged, PongOutcome, pack_ticket
  <2>2. CASE verify_ticket(srv, msg.ticket, "PING", msg.from) /\ srv'.flist[x].addr = msg.from
    <3>1. m.ticket = pack_ticket(srv', "PING", m.to)
      BY <1>3, <1>5, <2>2 DEF verify_ticket, pack_ticket, PongOutcome
    <3> QED
      BY <1>1, <1>3, <1>6, <2>2, <3>1
  <2> QED
    BY <1>5, <2>1, <2>2 DEF PongOutcome
<1>9. ActiveFingersWerePinged'
  BY <1>8 DEF ActiveFingersWerePinged
<1>10. AssertionsHold' /\ PredecessorOutlivesInsertion'
  BY <1>5 DEF AssertionsHold, PredecessorOutlivesInsertion, PongOutcome
<1>11. AddressWasAskedFor'
  BY <1>5, <1>6 DEF Inv, AddressWasAskedFor, Asked, PongOutcome, pack_ticket
<1>12. Inv'
  BY <1>5, <1>6, <1>7, <1>9, <1>10, <1>11 DEF Inv, PongOutcome
<1> QED
  BY <1>5, <1>12 DEF PongOutcome, KeepsActiveFingers

\* The reply that tells us our address: the table is empty, and the range is the circle.
LEMMA RecvAddrDiscoverReplyKeepsInv ==
  ASSUME Inv, NEW m \in Asked("ADDR_DISCOVER"), RecvAddrDiscoverReply(m)
  PROVE  Inv' /\ KeepsActiveFingers
<1> DEFINE msg == [type |-> "ADDR_DISCOVER_REPLY", from |-> m.to, to |-> Self,
                   ticket |-> m.ticket, addr |-> Self]
           r == process_addr_discover_reply(srv, msg)
           known == /\ verify_ticket(srv, msg.ticket, "ADDR_DISCOVER", msg.from)
                    /\ srv.addr = Unspecified
           id == get_address_id(Self)
           v == [srv EXCEPT !.addr = Self, !.discover_addr_event = FALSE,
                            !.stab_event = TRUE]
           t == chord_update_range(v, id, id)
<1>1. Handle(r) /\ srv.fault = "none"
  BY DEF RecvAddrDiscoverReply, Handle
<1>2. Ready(srv) /\ IsServer(srv)
  BY <1>1, InvReady DEF Ready, Consistent
<1>3. CASE ~known
  <2>1. r = Dropped(srv)
    BY <1>3 DEF process_addr_discover_reply
  <2>2. Outcome(srv, r)
    BY <1>2, <2>1, DroppedOutcome
  <2> HIDE DEF r
  <2> QED
    BY <1>1, <2>2, OutcomeKeepsInv DEF KeepsActiveFingers
<1>4. CASE known
  <2>1. r = Result(t, {})
    BY <1>4 DEF process_addr_discover_reply
  <2>2. id \in Id /\ Self \in Addr /\ Self # Unspecified
    BY ServerAssumption, AddrAssumption DEF get_address_id
  <2>3. t = [v EXCEPT !.pred_bound = id, !.id = id]
    BY DEF chord_update_range
  <2> HIDE DEF id
  <2>4. /\ IsServer(v)
        /\ v.flist = srv.flist /\ v.num_passive_fingers = srv.num_passive_fingers
        /\ v.addr = Self /\ v.fault = srv.fault
        /\ v.to_fix_finger = srv.to_fix_finger /\ v.to_fix_backup = srv.to_fix_backup
        /\ v.discover_addr_event = FALSE /\ v.stab_event = TRUE
        /\ v.ticket_salt = srv.ticket_salt
    BY <1>2, <2>2 DEF IsServer, fingers
  <2> HIDE DEF v
  <2>5. /\ IsServer(t)
        /\ t.flist = srv.flist /\ t.num_passive_fingers = srv.num_passive_fingers
        /\ t.addr = Self /\ t.fault = srv.fault /\ t.id = id /\ t.pred_bound = id
        /\ t.to_fix_finger = srv.to_fix_finger /\ t.to_fix_backup = srv.to_fix_backup
        /\ t.discover_addr_event = FALSE /\ t.stab_event = TRUE
        /\ t.ticket_salt = srv.ticket_salt
    BY <2>2, <2>3, <2>4 DEF IsServer, fingers
  <2> HIDE DEF t, r
  <2>6. srv' = t /\ idx' = idx /\ Send({})
    BY <1>1, <2>1, <2>5 DEF Handle, Result, after_sending
  <2>7. sent' = sent
    BY <2>6 DEF Send
  <2>8. fingers(srv) = {}
    BY <1>4 DEF Inv, DormantUntilAddressKnown
  <2>9. /\ fingers(t) = {} /\ active_fingers(t) = {} /\ passive_fingers(t) = passive_fingers(srv)
        /\ active_fingers(srv) = {}
    BY <2>5, <2>8 DEF fingers, active_fingers, passive_fingers
  <2>10. PredecessorOrSelf(t) = id
    BY <2>5, <2>9 DEF PredecessorOrSelf, pred_finger, LastFinger
  <2>11. Consistent(t)
    BY <2>5, <2>9, <2>10 DEF Consistent, Inv
  <2>12. DormantUntilAddressKnown'
    BY <2>2, <2>5, <2>6, <2>9 DEF DormantUntilAddressKnown, id
  <2>13. ActiveFingersWerePinged' /\ AssertionsHold' /\ PredecessorOutlivesInsertion'
    BY <1>1, <2>5, <2>6, <2>9 DEF ActiveFingersWerePinged, AssertionsHold,
                                         PredecessorOutlivesInsertion
  <2>14. AddressWasAskedFor'
    <3>1. m \in Asked("ADDR_DISCOVER")'
      BY <2>7 DEF Asked
    <3>2. m.ticket = pack_ticket(srv', "ADDR_DISCOVER", m.to)
      BY <1>4, <2>5, <2>6 DEF verify_ticket, pack_ticket
    <3> QED
      BY <3>1, <3>2 DEF AddressWasAskedFor
  <2> QED
    BY <2>5, <2>6, <2>7, <2>9, <2>11, <2>12, <2>13, <2>14 DEF Inv, KeepsActiveFingers
<1> QED
  BY <1>3, <1>4

\* Any datagram: the handlers but these two change nothing the invariant is about.
LEMMA ReceiveKeepsInv ==
  ASSUME Inv, Receive
  PROVE  Inv' /\ KeepsActiveFingers
<1>1. ASSUME NEW r, Outcome(srv, r), Handle(r)
      PROVE  Inv' /\ KeepsActiveFingers
  BY <1>1, OutcomeKeepsInv DEF KeepsActiveFingers
<1>2. srv.fault = "none" => Ready(srv)
  BY InvReady
<1>3. ASSUME NEW type \in {"PING", "STAB", "ADDR_DISCOVER"}, NEW m \in Asked(type)
      PROVE  m \in sent /\ m.to \in Addr
  BY RequestFields DEF Inv, Asked
<1>4. Peer \subseteq Addr /\ Self \in Addr
  BY ServerAssumption DEF Peer
<1>5. ASSUME NEW p \in Peer, RecvStab(p)
      PROVE  Inv' /\ KeepsActiveFingers
  <2> DEFINE msg == [type |-> "STAB", from |-> p, to |-> Self, addr |-> p]
  <2>1. Handle(process_stab(srv, msg)) /\ srv.fault = "none"
    BY <1>5 DEF RecvStab, Handle
  <2>2. msg.addr \in Addr
    BY <1>4
  <2> HIDE DEF msg
  <2>3. Outcome(srv, process_stab(srv, msg))
    BY <1>2, <2>1, <2>2, StabOutcome
  <2> QED
    BY <1>1, <2>1, <2>3
<1>6. ASSUME NEW p \in Peer, NEW garbage \in BOOLEAN, RecvNotify(p, garbage)
      PROVE  Inv' /\ KeepsActiveFingers
  <2> DEFINE msg == [type |-> "NOTIFY", from |-> p, to |-> Self]
  <2>1. Handle(process_notify(srv, msg, garbage)) /\ srv.fault = "none"
    BY <1>6 DEF RecvNotify, Handle
  <2>2. msg.from \in Addr
    BY <1>4
  <2> HIDE DEF msg
  <2>3. Outcome(srv, process_notify(srv, msg, garbage))
    BY <1>2, <2>1, <2>2, NotifyOutcome
  <2> QED
    BY <1>1, <2>1, <2>3
<1>7. ASSUME NEW p \in Peer, NEW garbage \in BOOLEAN, RecvPing(p, garbage)
      PROVE  Inv' /\ KeepsActiveFingers
  <2> DEFINE msg == [type |-> "PING", from |-> p, to |-> Self, ticket |-> NULL]
  <2>1. Handle(process_ping(srv, msg, garbage)) /\ srv.fault = "none"
    BY <1>7 DEF RecvPing, Handle
  <2>2. msg.from \in Addr
    BY <1>4
  <2> HIDE DEF msg
  <2>3. Outcome(srv, process_ping(srv, msg, garbage))
    BY <1>2, <2>1, <2>2, PingOutcome
  <2> QED
    BY <1>1, <2>1, <2>3
<1>8. ASSUME NEW m \in Asked("PING"), NEW garbage \in BOOLEAN, RecvOwnPing(m, garbage)
      PROVE  Inv' /\ KeepsActiveFingers
  <2> DEFINE msg == [type |-> "PING", from |-> Self, to |-> Self, ticket |-> m.ticket]
  <2>1. Handle(process_ping(srv, msg, garbage)) /\ srv.fault = "none"
    BY <1>8 DEF RecvOwnPing, Handle
  <2>2. msg.from \in Addr
    BY <1>4
  <2> HIDE DEF msg
  <2>3. Outcome(srv, process_ping(srv, msg, garbage))
    BY <1>2, <2>1, <2>2, PingOutcome
  <2> QED
    BY <1>1, <2>1, <2>3
<1>9. ASSUME NEW m \in Asked("FS"), NEW addr \in Addr, RecvFsReply(m, addr)
      PROVE  Inv' /\ KeepsActiveFingers
  <2> DEFINE msg == [type |-> "FS_REPLY", to |-> Self, ticket |-> m.ticket, addr |-> addr]
  <2>1. Handle(process_fs_reply(srv, msg)) /\ srv.fault = "none"
    BY <1>9 DEF RecvFsReply, Handle
  <2>2. msg.addr \in Addr
    OBVIOUS
  <2> HIDE DEF msg
  <2>3. Outcome(srv, process_fs_reply(srv, msg))
    BY <1>2, <2>1, <2>2, FsReplyOutcome
  <2> QED
    BY <1>1, <2>1, <2>3
<1>10. ASSUME NEW m \in Asked("STAB"), NEW addr \in Addr, RecvStabReply(m, addr)
       PROVE  Inv' /\ KeepsActiveFingers
  <2> DEFINE msg == [type |-> "STAB_REPLY", from |-> m.to, to |-> Self, addr |-> addr]
  <2>1. Handle(process_stab_reply(srv, msg)) /\ srv.fault = "none"
    BY <1>10 DEF RecvStabReply, Handle
  <2>2. msg.addr \in Addr
    OBVIOUS
  <2> HIDE DEF msg
  <2>3. Outcome(srv, process_stab_reply(srv, msg))
    BY <1>2, <2>1, <2>2, StabReplyOutcome
  <2> QED
    BY <1>1, <2>1, <2>3
<1>11. ASSUME NEW addr \in Addr \ {Self}, RecvFs(addr)
       PROVE  Inv' /\ KeepsActiveFingers
  <2> DEFINE msg == [type |-> "FS", to |-> Self, ticket |-> NULL, ttl |-> DEF_TTL, addr |-> addr]
  <2>1. Handle(process_fs(srv, msg)) /\ srv.fault = "none"
    BY <1>11 DEF RecvFs, Handle
  <2>2. msg.addr # Self
    OBVIOUS
  <2> HIDE DEF msg
  <2>3. Outcome(srv, process_fs(srv, msg))
    BY <1>2, <2>1, <2>2, FsOutcome
  <2> QED
    BY <1>1, <2>1, <2>3
<1> QED
  BY <1>5, <1>6, <1>7, <1>8, <1>9, <1>10, <1>11, RecvPongKeepsInv,
     RecvAddrDiscoverReplyKeepsInv DEF Receive

\* The two timers.
LEMMA TimerKeepsInv ==
  ASSUME Inv, Timer
  PROVE  Inv' /\ KeepsActiveFingers
<1>1. srv.fault = "none" => Ready(srv) /\ srv.ticket_salt \in Nat
  BY InvReady DEF Ready, Consistent, IsServer
<1>2. ASSUME DiscoverAddr
      PROVE  Inv' /\ KeepsActiveFingers
  <2> DEFINE r == discover_addr(srv)
             out == {send_addr_discover(srv, a) : a \in WellKnownAddrs}
  <2>1. Handle(r) /\ srv.fault = "none"
    BY <1>2 DEF DiscoverAddr, Handle
  <2>2. r = Dropped(srv) \/ r = Result(srv, out)
    BY DEF discover_addr
  <2>3. WellKnownAddrs \subseteq Addr
    BY StabilizeAssumption DEF WellKnownAddrs
  <2>4. \A m \in out : Sendable(m)
    BY <1>1, <2>1, <2>3, RequestsSendable
  <2> HIDE DEF out, r
  <2>5. Outcome(srv, Result(srv, out))
    <3>1. Result(srv, out).srv = srv /\ Result(srv, out).out = out
      BY <2>1 DEF Result
    <3>2. Follows(srv, srv)
      BY <1>1, <2>1 DEF Follows, Ready
    <3> QED
      BY <2>4, <3>1, <3>2 DEF Outcome
  <2>6. Outcome(srv, r)
    BY <1>1, <2>1, <2>2, <2>5, DroppedOutcome
  <2> QED
    BY <2>1, <2>6, OutcomeKeepsInv DEF KeepsActiveFingers
<1>3. ASSUME NEW rnd \in Random, Stabilization(rnd)
      PROVE  Inv' /\ KeepsActiveFingers
  <2> DEFINE r == stabilize(srv, idx, rnd)
  <2>1. /\ srv.stab_event /\ srv.fault = "none"
        /\ srv' = after_sending(r.srv, r.out) /\ idx' = r.idx /\ Send(r.out)
    BY <1>3 DEF Stabilization
  <2>2. StabilizationOutcome(srv, idx, r)
    BY <1>1, <2>1, StabilizeOutcome DEF Inv
  <2> HIDE DEF r
  <2>3. /\ Follows(srv, srv') /\ idx' \in 0 .. CHORD_CLEAN_PERIOD - 1
        /\ \A m \in r.out : Sendable(m)
        /\ KeepsActiveFingers
    BY <2>1, <2>2, SendingFollows DEF StabilizationOutcome, KeepsActiveFingers
  <2>4. srv.addr # Unspecified
    BY <2>1 DEF Inv, DormantUntilAddressKnown
  <2> QED
    BY <2>1, <2>3, <2>4, FollowsKeepsInv
<1> QED
  BY <1>2, <1>3 DEF Timer

\* A restart.
LEMMA RestartKeepsInv ==
  ASSUME Inv, Restart
  PROVE  Inv' /\ KeepsActiveFingers
<1> DEFINE s == new_server(srv.ticket_salt + 1)
<1>1. srv.ticket_salt \in Nat
  BY DEF Inv, Consistent, IsServer
<1>2. srv' = s /\ idx' = 0 /\ sent' = sent /\ s.ticket_salt = srv.ticket_salt + 1
  BY DEF Restart, new_server
<1>3. /\ Consistent(s) /\ fingers(s) = {} /\ active_fingers(s) = {}
      /\ s.addr = Unspecified /\ s.fault = "none"
      /\ s.discover_addr_event = TRUE /\ s.stab_event = FALSE
      /\ s.to_fix_finger \in 0 .. NFINGERS - 1
      /\ s.to_fix_backup \in 0 .. NSUCCESSORS - 1
  <2> DEFINE k == srv.ticket_salt + 1
  <2>1. k \in Nat
    BY <1>1
  <2> HIDE DEF k
  <2>2. s = new_server(k)
    BY DEF k
  <2> QED
    BY <2>1, <2>2, NewServer
<1> HIDE DEF s
<1>4. 0 \in 0 .. CHORD_CLEAN_PERIOD - 1
  BY StabilizeAssumption
<1>5. /\ DormantUntilAddressKnown' /\ ActiveFingersWerePinged' /\ AssertionsHold'
      /\ PredecessorOutlivesInsertion' /\ AddressWasAskedFor'
  BY <1>2, <1>3 DEF DormantUntilAddressKnown, ActiveFingersWerePinged, AssertionsHold,
                      PredecessorOutlivesInsertion, AddressWasAskedFor
<1>6. KeepsActiveFingers
  BY <1>1, <1>2 DEF KeepsActiveFingers
<1> QED
  BY <1>2, <1>3, <1>4, <1>5, <1>6 DEF Inv

-----------------------------------------------------------------------------
(***************************************************************************)
(* The invariant holds when the server is started, and every step keeps it *)
(* and loses an active finger only for one of the reasons there are.       *)
(***************************************************************************)
THEOREM Invariance ==
  /\ Init => Inv
  /\ Inv /\ [Next]_vars => Inv'
  /\ Inv /\ [Next]_vars => [KeepsActiveFingers]_vars
<1>1. Init => Inv
  <2> SUFFICES ASSUME Init PROVE Inv
    OBVIOUS
  <2> DEFINE s == new_server(1)
  <2>1. srv = s /\ idx = 0 /\ sent = {}
    BY DEF Init
  <2>2. /\ Consistent(s) /\ fingers(s) = {} /\ active_fingers(s) = {}
        /\ s.addr = Unspecified /\ s.fault = "none"
        /\ s.discover_addr_event = TRUE /\ s.stab_event = FALSE
        /\ s.to_fix_finger \in 0 .. NFINGERS - 1
        /\ s.to_fix_backup \in 0 .. NSUCCESSORS - 1
    BY NewServer
  <2> HIDE DEF s
  <2>3. 0 \in 0 .. CHORD_CLEAN_PERIOD - 1
    BY StabilizeAssumption
  <2> QED
    BY <2>1, <2>2, <2>3
       DEF Inv, DormantUntilAddressKnown, ActiveFingersWerePinged, AssertionsHold,
           PredecessorOutlivesInsertion, AddressWasAskedFor
<1>2. Inv /\ UNCHANGED vars => Inv'
  BY DEF Inv, vars, AssertionsHold, PredecessorOutlivesInsertion,
         DormantUntilAddressKnown, ActiveFingersWerePinged, AddressWasAskedFor, Asked
<1>3. Inv /\ Next => Inv' /\ KeepsActiveFingers
  BY ReceiveKeepsInv, TimerKeepsInv, RestartKeepsInv DEF Next
<1> QED
  BY <1>1, <1>2, <1>3

\* The inductive invariant is one.
THEOREM AlwaysInv == Spec => []Inv
BY Invariance, PTL DEF Spec

-----------------------------------------------------------------------------
(***************************************************************************)
(* What process_data and process_fs send on makes progress.                *)
(***************************************************************************)
LEMMA InvForwards ==
  ASSUME Inv
  PROVE  ForwardingMakesProgress
<1> SUFFICES ASSUME srv.addr # Unspecified PROVE ForwardingMakesProgress
  BY DEF ForwardingMakesProgress
<1>1. Consistent(srv) /\ srv.id = get_address_id(srv.addr) /\ srv.id \in Id
  BY DEF Inv, DormantUntilAddressKnown, Consistent, IsServer
<1>2. ASSUME NEW id \in Id, NEW last \in BOOLEAN,
             NEW m \in process_data(srv, [type |-> "DATA", to |-> Self, id |-> id,
                                          ttl |-> DEF_TTL, last |-> last]).out
      PROVE  /\ m.to # srv.addr
             /\ m.last \/ id_is_between(get_address_id(m.to), srv.id, id)
  <2> DEFINE next == next_route_node(srv, id, last)
             msg == [type |-> "DATA", to |-> Self, id |-> id, ttl |-> DEF_TTL, last |-> last]
  <2>1. /\ ~ chord_id_is_local(srv, id)
        /\ m = send_data(srv, next.last, msg.ttl - 1, next.addr, id)
    BY <1>2 DEF process_data, Dropped, Result
  <2>2. m.to = next.addr /\ m.last = next.last
    BY <2>1 DEF send_data
  <2>3. /\ get_address_id(next.addr) # srv.id
        /\ next.last \/ id_is_between(get_address_id(next.addr), srv.id, id)
    BY <1>1, <2>1, NextRouteNode
  <2> HIDE DEF next
  <2> QED
    BY <1>1, <2>2, <2>3
<1>3. ASSUME NEW addr \in Addr,
             NEW m \in process_fs(srv, [type |-> "FS", to |-> Self, ticket |-> NULL,
                                        ttl |-> DEF_TTL, addr |-> addr]).out,
             m.type = "FS"
      PROVE  id_is_between(get_address_id(m.to), srv.id, get_address_id(addr))
  <2> DEFINE id == get_address_id(addr)
             succ == succ_finger(srv)
             a == closest_preceding_node(srv, id, FALSE)
  <2>1. id \in Id
    BY AddrAssumption DEF get_address_id
  <2>2. /\ succ # NULL /\ ~ id_is_between(id, srv.id, succ) /\ id # succ
        /\ m.to = a
    <3> DEFINE msg == [type |-> "FS", to |-> Self, ticket |-> NULL,
                       ttl |-> DEF_TTL, addr |-> addr]
               reply(b) == send_fs_reply(srv, NULL, addr, b)
               fwd == send_fs_forward(srv, NULL, DEF_TTL - 1, a, addr)
    <3>1. \A b : reply(b).type = "FS_REPLY"
      BY DEF send_fs_reply
    <3>2. fwd.to = a
      BY DEF send_fs_forward
    <3>3. m \in process_fs(srv, msg).out
      BY <1>3
    <3>4. process_fs(srv, msg).out \subseteq
            IF succ = NULL THEN {reply(srv.addr)}
            ELSE IF id_is_between(id, srv.id, succ) \/ id = succ
            THEN {reply(srv.flist[succ].addr)}
            ELSE {fwd}
      BY DEF process_fs, Dropped, Result
    <3> HIDE DEF fwd, reply, msg
    <3> QED
      BY <1>3, <3>1, <3>2, <3>3, <3>4
  <2> QED
    BY <1>1, <2>1, <2>2, ClosestPrecedingNode
<1> QED
  BY <1>2, <1>3 DEF ForwardingMakesProgress

-----------------------------------------------------------------------------
(***************************************************************************)
(* The properties, for every configuration.                                *)
(*                                                                         *)
(* Every variable of the server has its type, in every execution.          *)
(***************************************************************************)
THEOREM TypeCorrect == Spec => []TypeOK
<1>1. Inv => TypeOK
  BY DEF Inv, TypeOK, Consistent
<1> QED
  BY <1>1, AlwaysInv, PTL

\* The counter of passive fingers that insert, activate and remove adjust is exact.
THEOREM PassiveCount == Spec => []PassiveFingersCounted
<1>1. Inv => PassiveFingersCounted
  BY DEF Inv, PassiveFingersCounted, Consistent
<1> QED
  BY <1>1, AlwaysInv, PTL

\* The range (pred_bound, id] starts at the predecessor, whoever changed the table last.
THEOREM RangeIsCurrent == Spec => []RangeFollowsPredecessor
<1>1. Inv => RangeFollowsPredecessor
  BY DEF Inv, RangeFollowsPredecessor, Consistent
<1> QED
  BY <1>1, AlwaysInv, PTL

\* No assert() of finger.c, process_pong and stabilize ever fails.
THEOREM NoAssertionFails == Spec => []AssertionsHold
<1>1. Inv => AssertionsHold
  BY DEF Inv
<1> QED
  BY <1>1, AlwaysInv, PTL

\* process_stab never reads a predecessor that insert_finger has freed.
THEOREM NoFingerReadAfterFree == Spec => []PredecessorOutlivesInsertion
<1>1. Inv => PredecessorOutlivesInsertion
  BY DEF Inv
<1> QED
  BY <1>1, AlwaysInv, PTL

\* process_pong activates only fingers that this run of the server has pinged.
THEOREM TwoWayConnectivity == Spec => []ActiveFingersWerePinged
<1>1. Inv => ActiveFingersWerePinged
  BY DEF Inv
<1> QED
  BY <1>1, AlwaysInv, PTL

\* No finger and no stabilization until process_addr_discover_reply learns the address.
THEOREM Dormancy == Spec => []DormantUntilAddressKnown
<1>1. Inv => DormantUntilAddressKnown
  BY DEF Inv
<1> QED
  BY <1>1, AlwaysInv, PTL

\* A server knows its address only from an answer to a question of its own run.
THEOREM AddressFromThisRun == Spec => []AddressWasAskedFor
<1>1. Inv => AddressWasAskedFor
  BY DEF Inv
<1> QED
  BY <1>1, AlwaysInv, PTL

\* process_data and process_fs send nothing back to the server, nor past the target.
THEOREM Forwarding == Spec => []ForwardingMakesProgress
BY InvForwards, AlwaysInv, PTL

\* Active fingers are not evicted by insert_finger: pings or a clean-up remove them.
THEOREM ActiveKept == Spec => ActiveFingersAreKept
BY Invariance, AlwaysInv, PTL DEF Spec, ActiveFingersAreKept
=============================================================================
