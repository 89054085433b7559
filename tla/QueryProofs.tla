---------------------------- MODULE QueryProofs ----------------------------
(***************************************************************************)
(* Proofs about the queries of DHash, for any number of nodes and files,   *)
(* any finger tables, any number of requests and any faults: packets,      *)
(* transfers and answers have their types, and a query travels straight to *)
(* its target and straight back.                                           *)
(*                                                                         *)
(* The second rests on the nodes a packet may still visit: each hop leaves *)
(* one less of them ahead, and one that turns the packet round finds them  *)
(* all behind.                                                             *)
(***************************************************************************)
EXTENDS DHashProofs, FingerTableProofs

(***************************************************************************)
(* Types and routes.  A query that is not marked last has, on its way to   *)
(* its target, the nodes Ahead of it; one that is marked last goes back    *)
(* over the nodes Behind it.  Each hop takes at least one from its set.    *)
(***************************************************************************)
Hops(p) == DATA_TTL - p.ttl

Ahead(p) == {a \in Addr : id_is_between(AddrId[a], AddrId[p.to], p.id)}

Behind(p) ==
  {a \in Addr : /\ a # p.to /\ AddrId[p.to] # p.id
                /\ AddrId[a] = p.id \/ id_is_between(AddrId[a], p.id, AddrId[p.to])}

Directed(p) ==
  IF p.payload.type = "QUERY"
  THEN /\ p.id = FileId[p.payload.name]
       /\ p.last => Hops(p) + Cardinality(Behind(p)) < 2 * Cardinality(Addr)
       /\ ~p.last => Hops(p) + Cardinality(Ahead(p)) < Cardinality(Addr)
  ELSE p.ttl = DATA_TTL

Formed(p) ==
  /\ p.from \in Addr /\ p.to \in Addr /\ p.last \in BOOLEAN /\ p.ttl \in 1 .. DATA_TTL
  /\ p.payload.type \in PayloadType /\ p.payload.name \in File
  /\ p.payload.type \in {"QUERY", "PUSH"} => p.payload.reply_addr \in Addr
  /\ Directed(p)

\* A server at rest, with a table that need not be right.
AtRest(n, s) == Consistent(s) /\ s.addr = n /\ s.sock = n /\ s.id = get_address_id(n)

ServersOK == DOMAIN srv = Addr /\ \A n \in Addr : AtRest(n, srv[n])

\* Addresses have different identifiers, and there are finitely many of those.
LEMMA AddrFinite ==
  ASSUME NEW S, S \subseteq Addr
  PROVE  IsFiniteSet(S) /\ Cardinality(S) \in Nat
<1>1. AddrId \in Injection(Addr, Id)
  BY AddrAssumption DEF Injection, IsInjective
<1>2. IsFiniteSet(Id)
  BY FingersFinite
<1>3. IsFiniteSet(Addr)
  BY <1>1, <1>2, FS_Injection
<1> QED
  BY <1>3, FS_Subset, FS_CardinalityType

\* A set of nodes that lacks one of another set's has fewer elements.
LEMMA Fewer ==
  ASSUME NEW S, NEW T, S \subseteq T, T \subseteq Addr, NEW a \in T, a \notin S
  PROVE  /\ Cardinality(S) \in Nat /\ Cardinality(T) \in Nat
         /\ Cardinality(S) + 1 <= Cardinality(T)
<1>1. /\ IsFiniteSet(T) /\ Cardinality(S) \in Nat /\ Cardinality(T) \in Nat
  BY AddrFinite
<1>2. /\ Cardinality(S) <= Cardinality(T)
      /\ Cardinality(T) = Cardinality(S) => T = S
  BY <1>1, FS_Subset
<1> QED
  BY <1>1, <1>2

\* A packet that has just been sent has its whole way before it.
LEMMA FreshDirected ==
  ASSUME NEW p, p.to \in Addr, p.ttl = DATA_TTL,
         p.payload.type = "QUERY" => p.id = FileId[p.payload.name] /\ p.id \in Id
  PROVE  Directed(p)
<1>1. Ahead(p) \subseteq Addr /\ p.to \notin Ahead(p)
  BY AddrAssumption DEF Ahead, id_is_between, Id
<1>2. Behind(p) \subseteq Addr /\ p.to \notin Behind(p)
  BY DEF Behind
<1>3. Hops(p) = 0
  BY DHashAssumption DEF Hops
<1>4. /\ Cardinality(Ahead(p)) \in Nat /\ Cardinality(Addr) \in Nat
      /\ Cardinality(Ahead(p)) + 1 <= Cardinality(Addr)
  BY <1>1, Fewer, Zenon
<1>5. /\ Cardinality(Behind(p)) \in Nat
      /\ Cardinality(Behind(p)) + 1 <= Cardinality(Addr)
  BY <1>2, Fewer
<1> QED
  BY <1>3, <1>4, <1>5 DEF Directed

\* Queries and pushes are sent to some node (SendRouted).
LEMMA RoutedFormed ==
  ASSUME ServersOK, NEW n \in Addr, NEW payload, NEW q \in SendRouted(n, payload),
         payload.type \in {"QUERY", "PUSH"}, payload.name \in File, payload.reply_addr \in Addr
  PROVE  Formed(q)
<1> DEFINE id == FileId[payload.name]
           next == next_route_node(srv[n], id, FALSE)
<1>1. next.addr \in Addr /\ next.last \in BOOLEAN
  BY NextHopType, Zenon DEF ServersOK, AtRest
<1>2. id \in Id
  BY DHashAssumption
<1> HIDE DEF next, id
<1>3. q = Data(send_data(srv[n], next.last, DATA_TTL, next.addr, id), payload)
  BY Zenon DEF SendRouted, next, id
<1>4. /\ q.from = n /\ q.to = next.addr /\ q.last = next.last /\ q.ttl = DATA_TTL
      /\ q.id = id /\ q.payload = payload
  BY <1>3 DEF Data, send_data, ServersOK, AtRest
<1>5. Directed(q)
  BY <1>1, <1>2, <1>4, FreshDirected DEF id
<1> QED
  BY <1>1, <1>4, <1>5, DHashAssumption DEF Formed, PayloadType

\* Replies go straight to the node that asked (send_chord_pkt_directly).
LEMMA DirectFormed ==
  ASSUME ServersOK, NEW n \in Addr, NEW to \in Addr, NEW payload,
         NEW q \in send_chord_pkt_directly(n, to, payload),
         payload.type \in PayloadType \ {"QUERY", "PUSH"}, payload.name \in File
  PROVE  Formed(q)
<1>1. /\ q.from = n /\ q.to = to /\ q.last = FALSE /\ q.ttl = DATA_TTL /\ q.payload = payload
  BY DEF send_chord_pkt_directly, Data, send_data, ServersOK, AtRest
<1>2. Directed(q)
  BY <1>1, FreshDirected
<1>3. q.last \in BOOLEAN
  BY <1>1, Zenon
<1> QED
  BY <1>1, <1>2, <1>3, DHashAssumption DEF Formed

\* A query that travels on makes a hop, and leaves a node of its way for good.
LEMMA OnwardFormed ==
  ASSUME ServersOK, NEW p, Formed(p), p.payload.type = "QUERY",
         ~chord_id_is_local(srv[p.to], FileId[p.payload.name]), NEW q \in Onward(p)
  PROVE  Formed(q)
<1> DEFINE n == p.to
           s == srv[n]
           id == p.id
           next == next_route_node(s, id, p.last)
           x == AddrId[next.addr]
           y == AddrId[n]
<1>1. /\ n \in Addr /\ AtRest(n, s) /\ Consistent(s) /\ s.id = y /\ s.sock = n
      /\ id \in Id /\ y \in Id /\ ~chord_id_is_local(s, id)
      /\ p.last \in BOOLEAN
  BY DHashAssumption, AddrAssumption DEF Formed, ServersOK, AtRest, Directed, get_address_id
<1>2. /\ next.addr \in Addr /\ next.last \in BOOLEAN
      /\ x # y
      /\ next.last \/ id_is_between(x, y, id)
      /\ p.last => next.last /\ (x = id \/ id_is_between(x, id, y))
  BY <1>1, NextRouteNode DEF get_address_id
<1> HIDE DEF next
<1>3. x \in Id /\ y # id
  <2>1. x \in Id
    BY <1>2, AddrAssumption
  <2>2. y # id
    BY <1>1 DEF chord_id_is_local
  <2> QED
    BY <2>1, <2>2
<1>4. /\ p.ttl - 1 # 0
      /\ q = Data(send_data(s, next.last, p.ttl - 1, next.addr, id), p.payload)
  BY DEF Onward, process_data, Result, Dropped, next
<1>5. /\ q.from = n /\ q.to = next.addr /\ q.last = next.last /\ q.ttl = p.ttl - 1
      /\ q.id = id /\ q.payload = p.payload
  BY <1>1, <1>4 DEF Data, send_data
<1>6. /\ p.ttl \in 1 .. DATA_TTL /\ q.ttl \in 1 .. DATA_TTL /\ Hops(q) = Hops(p) + 1
      /\ Hops(p) \in Nat
  BY <1>4, <1>5, DHashAssumption DEF Formed, Hops
<1>7. Cardinality(Addr) \in Nat /\ Cardinality(Ahead(p)) \in Nat /\ Cardinality(Behind(p)) \in Nat
  BY AddrFinite DEF Ahead, Behind
<1>8. CASE p.last
  <2>1. q.last = TRUE /\ (x = id \/ id_is_between(x, id, y))
    BY <1>2, <1>5, <1>8
  <2>2. Behind(p) \subseteq Addr /\ q.to \in Behind(p) /\ q.to \notin Behind(q)
    BY <1>2, <1>3, <1>5, <2>1 DEF Behind
  <2>3. ASSUME NEW a \in Behind(q) PROVE a \in Behind(p)
    <3> DEFINE z == AddrId[a]
    <3>1. /\ a \in Addr /\ a # q.to /\ x # id
          /\ z = id \/ id_is_between(z, id, x)
      BY <2>3, <1>5 DEF Behind
    <3>2. z \in Id
      BY <3>1, AddrAssumption
    <3> HIDE DEF x, y, z
    <3>3. (z = id \/ id_is_between(z, id, y)) /\ z # y
      BY <1>1, <1>3, <2>1, <3>1, <3>2 DEF id_is_between, Id
    <3> QED
      BY <1>3, <3>1, <3>3 DEF Behind, y, z
  <2>4. Cardinality(Behind(q)) \in Nat /\ Cardinality(Behind(q)) + 1 <= Cardinality(Behind(p))
    BY <2>2, <2>3, Fewer
  <2>5. Hops(p) + Cardinality(Behind(p)) < 2 * Cardinality(Addr)
    BY <1>8 DEF Formed, Directed
  <2>6. Hops(q) + Cardinality(Behind(q)) < 2 * Cardinality(Addr)
    BY <1>6, <1>7, <2>4, <2>5
  <2>7. p.id = FileId[p.payload.name]
    BY DEF Formed, Directed
  <2>8. Directed(q)
    BY <1>5, <2>1, <2>6, <2>7 DEF Directed
  <2> QED
    BY <1>1, <1>2, <1>5, <1>6, <2>8 DEF Formed
<1>9. CASE ~p.last
  <2>1. Hops(p) + Cardinality(Ahead(p)) < Cardinality(Addr) /\ p.id = FileId[p.payload.name]
    BY <1>9 DEF Formed, Directed
  <2>2. CASE next.last
    <3>1. Behind(q) \subseteq Addr /\ q.to \in Addr /\ q.to \notin Behind(q)
      BY <1>2, <1>5 DEF Behind
    <3>2. Cardinality(Behind(q)) \in Nat /\ Cardinality(Behind(q)) + 1 <= Cardinality(Addr)
      BY <3>1, Fewer
    <3>3. Hops(q) + Cardinality(Behind(q)) < 2 * Cardinality(Addr)
      BY <1>6, <1>7, <2>1, <3>2
    <3>4. Directed(q)
      BY <1>5, <2>1, <2>2, <3>3 DEF Directed
    <3> QED
      BY <1>1, <1>2, <1>5, <1>6, <3>4 DEF Formed
  <2>3. CASE ~next.last
    <3>1. id_is_between(x, y, id)
      BY <1>2, <2>3
    <3>2. Ahead(p) \subseteq Addr /\ q.to \in Ahead(p)
      BY <1>2, <1>5, <3>1 DEF Ahead
    <3>3. q.to \notin Ahead(q)
      BY <1>1, <1>3, <1>5 DEF Ahead, id_is_between, Id
    <3>4. ASSUME NEW a \in Ahead(q) PROVE a \in Ahead(p)
      <4> DEFINE z == AddrId[a]
      <4>1. a \in Addr /\ id_is_between(z, x, id)
        BY <3>4, <1>5 DEF Ahead
      <4>2. z \in Id
        BY <4>1, AddrAssumption
      <4> HIDE DEF x, y, z
      <4>3. id_is_between(z, y, id)
        BY <1>1, <1>3, <3>1, <4>1, <4>2 DEF id_is_between, Id
      <4> QED
        BY <4>1, <4>3 DEF Ahead, y, z
    <3>5. Cardinality(Ahead(q)) \in Nat /\ Cardinality(Ahead(q)) + 1 <= Cardinality(Ahead(p))
      BY <3>2, <3>3, <3>4, Fewer
    <3>6. Hops(q) + Cardinality(Ahead(q)) < Cardinality(Addr)
      BY <1>6, <1>7, <2>1, <3>5
    <3>7. Directed(q)
      BY <1>5, <2>1, <2>3, <3>6 DEF Directed
    <3> QED
      BY <1>1, <1>2, <1>5, <1>6, <3>7 DEF Formed
  <2> QED
    BY <2>2, <2>3
<1> QED
  BY <1>8, <1>9

\* A handler whose packets and transfer are what they should be.
WellTyped(e) ==
  /\ \A q \in e.out : Formed(q)
  /\ e.started = <<>> \/ \E t : IsTransfer(t, Addr, File) /\ e.started = <<t>>

\* The transfers that handlers start.
LEMMA StartedTyped ==
  ASSUME NEW n \in Addr, NEW peer \in Addr, NEW f \in File
  PROVE  /\ IsTransfer(transfer_start_sending(new_transfer(n, peer)), Addr, File)
         /\ IsTransfer(transfer_start_receiving(new_transfer(n, peer), f), Addr, File)
         /\ IsTransfer(transfer_start_receiving(
              transfer_set_callbacks(new_transfer(n, peer)), f), Addr, File)
<1> DEFINE t == new_transfer(n, peer)
           c == transfer_set_callbacks(t)
<1>1. f # NULL
  BY DHashAssumption
<1>2. IsTransfer(t, Addr, File)
  BY DEF IsTransfer, Thread, new_transfer
<1>3. ASSUME NEW u, IsTransfer(u, Addr, File)
      PROVE  IsTransfer(transfer_set_callbacks(u), Addr, File)
  BY <1>3, Zenon DEF IsTransfer, transfer_set_callbacks
<1>a. {"SEND", "RECEIVE"} \subseteq {"IDLE", "SEND", "RECEIVE"} /\ "connecting" \in Thread
  BY DEF Thread
<1>4. ASSUME NEW u, IsTransfer(u, Addr, File)
      PROVE  IsTransfer(transfer_start_sending(u), Addr, File)
  BY <1>a, <1>4, Zenon DEF IsTransfer, transfer_start_sending
<1>5. ASSUME NEW u, IsTransfer(u, Addr, File)
      PROVE  IsTransfer(transfer_start_receiving(u, f), Addr, File)
  BY <1>1, <1>a, <1>5, Zenon DEF IsTransfer, transfer_start_receiving
<1> QED
  BY <1>2, <1>3, <1>4, <1>5

\* The replies have their types.
LEMMA RepliesFormed ==
  ASSUME ServersOK, NEW n \in Addr, NEW to \in Addr, NEW f \in File
  PROVE  /\ \A q \in dhash_send_query_reply_success(n, to, f) : Formed(q)
         /\ \A q \in dhash_send_query_reply_failure(n, to, f) : Formed(q)
         /\ \A q \in dhash_send_push_reply(n, to, f) : Formed(q)
<1>1. \A type : LET l == Payload(type, f, NULL) IN l.type = type /\ l.name = f
  BY DEF Payload
<1>2. \A type \in PayloadType \ {"QUERY", "PUSH"} :
        \A q \in send_chord_pkt_directly(n, to, Payload(type, f, NULL)) : Formed(q)
  BY <1>1, DirectFormed
<1> QED
  BY <1>2 DEF dhash_send_query_reply_success, dhash_send_query_reply_failure,
              dhash_send_push_reply, PayloadType

\* Queries and pushes have theirs.
LEMMA RequestsFormed ==
  ASSUME ServersOK, NEW n \in Addr, NEW f \in File
  PROVE  /\ \A q \in dhash_send_query(n, f) : Formed(q)
         /\ \A q \in dhash_send_push(n, f) : Formed(q)
<1>1. \A type : LET l == Payload(type, f, n) IN l.type = type /\ l.name = f /\ l.reply_addr = n
  BY DEF Payload
<1>2. \A type \in {"QUERY", "PUSH"} :
        \A q \in SendRouted(n, Payload(type, f, n)) : Formed(q)
  BY <1>1, RoutedFormed
<1> QED
  BY <1>2 DEF dhash_send_query, dhash_send_push

\* Every handler of DHash keeps to the types, given a packet that does.
LEMMA HandlersTyped ==
  ASSUME ServersOK, NEW p, Formed(p)
  PROVE  WellTyped(dhash_unpack_chord_data(p.to, p))
<1>1. /\ p.to \in Addr /\ p.from \in Addr /\ p.payload.name \in File
      /\ p.payload.type \in PayloadType
      /\ p.payload.type \in {"QUERY", "PUSH"} => p.payload.reply_addr \in Addr
  BY DEF Formed
<1>2. CASE QueryFound(p)
  BY <1>1, <1>2, RepliesFormed, StartedTyped DEF QueryFound, HandledAs, WellTyped, Effect
<1>3. CASE QueryMissing(p)
  BY <1>1, <1>3, RepliesFormed DEF QueryMissing, HandledAs, WellTyped, Effect
<1>4. CASE QueryOnward(p)
  BY <1>4, OnwardFormed DEF QueryOnward, HandledAs, WellTyped, Effect
<1>5. CASE ReplyFound(p)
  BY <1>1, <1>5, StartedTyped DEF ReplyFound, HandledAs, WellTyped, Effect
<1>6. CASE ReplyMissing(p)
  BY <1>6 DEF ReplyMissing, HandledAs, WellTyped, Effect
<1>7. CASE PushKnown(p)
  BY <1>7 DEF PushKnown, HandledAs, WellTyped, Effect
<1>8. CASE PushTaken(p)
  BY <1>1, <1>8, RepliesFormed, StartedTyped DEF PushTaken, HandledAs, WellTyped, Effect
<1>9. CASE PushReplied(p)
  BY <1>1, <1>9, StartedTyped DEF PushReplied, HandledAs, WellTyped, Effect
<1> QED
  BY <1>1, <1>2, <1>3, <1>4, <1>5, <1>6, <1>7, <1>8, <1>9, HandlerPaths

-----------------------------------------------------------------------------
PacketsFormed == \A p \in Packets(net) : Formed(p)

TransfersTyped == \A i \in DOMAIN trans : IsTransfer(trans[i], Addr, File)

TypeInv == ServersOK /\ PacketsFormed /\ TransfersTyped

\* A handler's packets and transfers join the others (Carry).
LEMMA CarryTyped ==
  ASSUME Inv, ServersOK, PacketsFormed, TransfersTyped,
         NEW n \in Addr, NEW e, WellTyped(e),
         NEW kept, Packets(kept) \subseteq Packets(net), Carry(n, e, kept)
  PROVE  TypeInv'
<1>1. ServersOK'
  BY DEF Carry, ServersOK
<1>2. PacketsFormed'
  <2>1. Packets(net') \subseteq Packets(net) \cup e.out
    BY SentPackets DEF Carry
  <2> QED
    BY <2>1 DEF PacketsFormed, WellTyped
<1>3. TransfersTyped'
  <2>1. PICK S : trans \in Seq(S)
    BY DEF Inv, TransfersOK
  <2>2. CASE e.started = <<>>
    <3>1. trans' = trans
      BY <2>1, <2>2 DEF Carry
    <3> QED
      BY <3>1 DEF TransfersTyped
  <2>3. CASE \E t : IsTransfer(t, Addr, File) /\ e.started = <<t>>
    <3>1. PICK t : IsTransfer(t, Addr, File) /\ e.started = <<t>>
      BY <2>3
    <3>2. /\ DOMAIN trans' = DOMAIN trans \cup {Len(trans) + 1}
          /\ \A i \in DOMAIN trans : trans'[i] = trans[i]
          /\ trans'[Len(trans) + 1] = t
      BY <2>1, <3>1, AppendTransfer DEF Carry
    <3> QED
      BY <3>1, <3>2 DEF TransfersTyped
  <2> QED
    BY <2>2, <2>3 DEF WellTyped
<1> QED
  BY <1>1, <1>2, <1>3 DEF TypeInv

-----------------------------------------------------------------------------
\* The servers a behaviour starts with are at rest.
LEMMA SettledAtRest ==
  ASSUME NEW n \in Addr, NEW peers, peers \subseteq Addr, n \notin peers
  PROVE  AtRest(n, Settled(n, peers))
<1> DEFINE F == {AddrId[a] : a \in peers}
           addr(x) == CHOOSE a \in peers : AddrId[a] = x
           fl == [x \in F |-> [addr |-> addr(x), status |-> "ACTIVE", npings |-> 0]]
           id == get_address_id(n)
           s == [addr |-> n, id |-> id, pred_bound |-> id,
                 sock |-> n, num_passive_fingers |-> 0, to_fix_finger |-> 0,
                 to_fix_backup |-> 0, to_ping |-> 0, discover_addr_event |-> FALSE,
                 stab_event |-> TRUE, ticket_salt |-> 1, fault |-> "none", flist |-> fl]
           b == PredecessorOrSelf(s)
           t == [s EXCEPT !.pred_bound = b]
<1>1. t = Settled(n, peers)
  BY DEF Settled
<1>2. id \in Id /\ F \subseteq Id /\ id \notin F
  BY AddrAssumption DEF get_address_id
<1>3. \A x \in F : addr(x) \in Addr /\ get_address_id(addr(x)) = x
  BY DEF get_address_id
<1> HIDE DEF addr
<1>4. \A x \in F : [addr |-> addr(x), status |-> "ACTIVE", npings |-> 0] \in Finger
  BY <1>3, FingerAssumption DEF Finger
<1>5. /\ fl \in [F -> Finger] /\ DOMAIN fl = F
      /\ \A x \in F : get_address_id(fl[x].addr) = x /\ fl[x].status = "ACTIVE"
  BY <1>3, <1>4
<1> HIDE DEF fl, F, id
<1>6. /\ IsServer(s)
      /\ s.flist = fl /\ s.id = id /\ s.num_passive_fingers = 0 /\ s.addr = n /\ s.sock = n
  BY <1>2, <1>5 DEF IsServer, fingers
<1> HIDE DEF s
<1>7. b \in Id
  BY <1>6, BoundType
<1> HIDE DEF b
<1>8. /\ IsServer(t)
      /\ t.flist = fl /\ t.id = id /\ t.num_passive_fingers = 0 /\ t.addr = n
      /\ t.sock = n /\ t.pred_bound = b
  BY <1>6, <1>7 DEF IsServer, fingers
<1> HIDE DEF t
<1>9. /\ fingers(t) = F
      /\ active_fingers(t) = active_fingers(s)
      /\ passive_fingers(t) = {}
  BY <1>5, <1>6, <1>8 DEF fingers, active_fingers, passive_fingers
<1>10. PredecessorOrSelf(t) = b
  BY <1>6, <1>8, <1>9, BoundFromActive DEF b
<1>11. Cardinality(passive_fingers(t)) = 0
  BY <1>9, FS_EmptySet
<1>12. Consistent(t)
  BY <1>2, <1>5, <1>8, <1>9, <1>10, <1>11, FingerAssumption DEF Consistent
<1> QED
  BY <1>1, <1>8, <1>12 DEF AtRest, id

\* A process that ends leaves its table as it is.
LEMMA FaultAtRest ==
  ASSUME NEW n, NEW s, AtRest(n, s)
  PROVE  AtRest(n, [s EXCEPT !.fault = "null"])
<1> DEFINE t == [s EXCEPT !.fault = "null"]
<1>1. /\ IsServer(t)
      /\ t.flist = s.flist /\ t.id = s.id /\ t.num_passive_fingers = s.num_passive_fingers
      /\ t.addr = s.addr /\ t.sock = s.sock /\ t.pred_bound = s.pred_bound
  BY DEF AtRest, Consistent, IsServer, fingers
<1> HIDE DEF t
<1>2. /\ fingers(t) = fingers(s)
      /\ active_fingers(t) = active_fingers(s)
      /\ passive_fingers(t) = passive_fingers(s)
  BY <1>1 DEF fingers, active_fingers, passive_fingers
<1>3. PredecessorOrSelf(t) = PredecessorOrSelf(s)
  BY <1>1, <1>2, BoundFromActive
<1>4. AtRest(n, t)
  BY <1>1, <1>2, <1>3 DEF AtRest, Consistent
<1> QED
  BY <1>4 DEF t

\* The types hold when the nodes start.
LEMMA InitTyped == Init => TypeInv
<1> SUFFICES ASSUME Init PROVE TypeInv
  OBVIOUS
<1>1. PICK start \in Starts : srv = [n \in Addr |-> Settled(n, start.known[n] \ {n})]
  BY DEF Init
<1>2. \A n \in Addr : start.known[n] \subseteq Addr
  BY DHashAssumption
<1>3. ServersOK
  <2>1. \A n \in Addr : AtRest(n, Settled(n, start.known[n] \ {n}))
    BY <1>2, SettledAtRest
  <2> QED
    BY <1>1, <2>1 DEF ServersOK
<1>4. PacketsFormed
  BY DEF Init, PacketsFormed, NoPackets, Packets
<1>5. TransfersTyped
  BY DEF Init, TransfersTyped
<1> QED
  BY <1>3, <1>4, <1>5 DEF TypeInv

\* What the callbacks and the threads do to a transfer.
LEMMA TransferSteps ==
  ASSUME NEW t, IsTransfer(t, Addr, File), Sound(disk, t)
  PROVE  /\ IsTransfer([t EXCEPT !.event = "none"], Addr, File)
         /\ IsTransfer(free_transfer([t EXCEPT !.event = "none"]), Addr, File)
         /\ IsTransfer(transfer_connect_fails(t), Addr, File)
         /\ \A succeeded \in BOOLEAN : IsTransfer(transfer_returns(t, succeeded), Addr, File)
         /\ \A j \in Nat :
              IsTransfer([t EXCEPT !.thread = "connected", !.partner = j], Addr, File)
         /\ \A f \in File :
              IsTransfer([t EXCEPT !.thread = "receiving", !.file = f], Addr, File)
         /\ IsTransfer([t EXCEPT !.thread = "receiving"], Addr, File)
<1>1. t.freed \in {0, 1}
  BY DEF Sound
<1>2. IsTransfer([t EXCEPT !.event = "none"], Addr, File)
  BY DEF IsTransfer
<1>3. IsTransfer(free_transfer([t EXCEPT !.event = "none"]), Addr, File)
  <2> DEFINE u == [t EXCEPT !.event = "none"]
  <2>1. u.freed \in {0, 1}
    BY <1>1 DEF IsTransfer
  <2> HIDE DEF u
  <2>2. IsTransfer(u, Addr, File) => IsTransfer(free_transfer(u), Addr, File)
    BY <2>1 DEF IsTransfer, free_transfer
  <2> QED
    BY <1>2, <2>2 DEF u
<1>4. IsTransfer(transfer_connect_fails(t), Addr, File)
  BY DEF IsTransfer, Thread, transfer_connect_fails
<1>5. ASSUME NEW succeeded \in BOOLEAN
      PROVE  IsTransfer(transfer_returns(t, succeeded), Addr, File)
  <2> DEFINE u == [t EXCEPT !.thread = "returned"]
             v(o) == [t EXCEPT !.thread = "returned", !.event = o]
  <2>1. \A o \in {"success", "fail"} : IsTransfer(v(o), Addr, File)
    BY Zenon DEF IsTransfer, Thread
  <2>2. IsTransfer(u, Addr, File) /\ u.freed \in {0, 1}
    BY <1>1 DEF IsTransfer, Thread
  <2>3. \/ \E o \in {"success", "fail"} : transfer_returns(t, succeeded) = v(o)
        \/ transfer_returns(t, succeeded) = free_transfer(u)
    BY Zenon DEF transfer_returns
  <2> HIDE DEF u, v
  <2>4. IsTransfer(free_transfer(u), Addr, File)
    BY <2>2 DEF IsTransfer, free_transfer
  <2> QED
    BY <2>1, <2>3, <2>4
<1>6. ASSUME NEW j \in Nat
      PROVE  IsTransfer([t EXCEPT !.thread = "connected", !.partner = j], Addr, File)
  BY Zenon DEF IsTransfer, Thread
<1>7. ASSUME NEW f \in File
      PROVE  IsTransfer([t EXCEPT !.thread = "receiving", !.file = f], Addr, File)
  BY DHashAssumption, Zenon DEF IsTransfer, Thread
<1>8. IsTransfer([t EXCEPT !.thread = "receiving"], Addr, File)
  BY DEF IsTransfer, Thread
<1> QED
  BY <1>2, <1>3, <1>4, <1>5, <1>6, <1>7, <1>8, Zenon

\* Steps of the event loops keep the types.
LEMMA EventLoopTyped ==
  ASSUME Inv, TypeInv,
         \/ \E n \in Addr, f \in File : ClientRequest(n, f)
         \/ \E p \in Packets(net) : Receive(p) \/ Duplicate(p) \/ BindFails(p) \/ Lose(p)
         \/ \E i \in DOMAIN trans : Callback(i)
  PROVE  TypeInv'
<1>1. ServersOK /\ PacketsFormed /\ TransfersTyped
  BY DEF TypeInv
<1>2. \A p : Packets(Without(p)) \subseteq Packets(net)
  BY TakenPackets DEF Without
<1>3. ASSUME NEW n \in Addr, NEW f \in File, ClientRequest(n, f)
      PROVE  TypeInv'
  <2> DEFINE e == dhash_process_client_request(n, f)
  <2>1. WellTyped(e)
    BY <1>1, RequestsFormed DEF dhash_process_client_request, WellTyped, Effect
  <2> QED
    BY <1>1, <1>3, <2>1, CarryTyped DEF ClientRequest
<1>4. ASSUME NEW p \in Packets(net), NEW kept, Packets(kept) \subseteq Packets(net),
             Handle(p, kept)
      PROVE  TypeInv'
  <2>1. WellTyped(dhash_unpack_chord_data(p.to, p)) /\ p.to \in Addr
    BY <1>1, HandlersTyped DEF PacketsFormed, Formed
  <2> QED
    BY <1>1, <1>4, <2>1, CarryTyped DEF Handle
<1>5. ASSUME NEW p \in Packets(net), BindFails(p)
      PROVE  TypeInv'
  <2> DEFINE e == dhash_unpack_chord_data(p.to, p)
  <2>1. WellTyped(e) /\ p.to \in Addr
    BY <1>1, HandlersTyped DEF PacketsFormed, Formed
  <2>2. Packets(net') \subseteq Packets(net) \cup e.out
    BY <1>2, <1>5, SentPackets DEF BindFails
  <2>3. PacketsFormed'
    BY <1>1, <2>1, <2>2 DEF PacketsFormed, WellTyped
  <2>4. ServersOK'
    <3>1. srv' = [srv EXCEPT ![p.to] = [srv[p.to] EXCEPT !.fault = "null"]]
      BY <1>5 DEF BindFails
    <3>2. AtRest(p.to, [srv[p.to] EXCEPT !.fault = "null"])
      BY <1>1, <2>1, FaultAtRest DEF ServersOK
    <3> QED
      BY <1>1, <2>1, <3>1, <3>2 DEF ServersOK
  <2>5. TransfersTyped'
    BY <1>1, <1>5 DEF BindFails, TransfersTyped
  <2> QED
    BY <2>3, <2>4, <2>5 DEF TypeInv
<1>6. ASSUME NEW p \in Packets(net), Lose(p)
      PROVE  TypeInv'
  <2>1. PacketsFormed'
    BY <1>1, <1>2, <1>6 DEF Lose, PacketsFormed
  <2>2. ServersOK' /\ TransfersTyped'
    BY <1>1, <1>6 DEF Lose, ServersOK, TransfersTyped
  <2> QED
    BY <2>1, <2>2 DEF TypeInv
<1>7. ASSUME NEW i \in DOMAIN trans, Callback(i)
      PROVE  TypeInv'
  <2> DEFINE t == trans[i]
             x == [t EXCEPT !.event = "none"]
             y == free_transfer([t EXCEPT !.event = "none"])
  <2>1. /\ t.event \in {"success", "fail"} /\ Sound(disk, t) /\ IsTransfer(t, Addr, File)
    <3>1. t.event = "success" \/ t.event = "fail"
      BY <1>7, CallbackShape, Zenon
    <3>2. Sound(disk, t) /\ IsTransfer(t, Addr, File)
      BY <1>1 DEF Inv, TransfersOK, TransfersTyped
    <3> QED
      BY <3>1, <3>2, Zenon
  <2>2. t.node \in Addr /\ t.file \in File
    BY <2>1 DEF Sound, IsTransfer
  <2>3. IsTransfer(x, Addr, File) /\ IsTransfer(y, Addr, File)
    BY <2>1, TransferSteps, Zenon
  <2>4. /\ trans' = [trans EXCEPT ![i] = x] \/ trans' = [trans EXCEPT ![i] = y]
        /\ net' = net \/ net' = Sent(net, dhash_send_push(t.node, t.file))
        /\ UNCHANGED srv
    BY <1>7, CallbackShape, Zenon
  <2> HIDE DEF x, y
  <2>5. TransfersTyped'
    BY <1>1, <2>3, <2>4 DEF TransfersTyped
  <2>6. PacketsFormed'
    BY <1>1, <2>2, <2>4, SentPackets, RequestsFormed DEF PacketsFormed
  <2>7. ServersOK'
    BY <1>1, <2>4 DEF ServersOK
  <2> QED
    BY <2>5, <2>6, <2>7 DEF TypeInv
<1> QED
  BY <1>2, <1>3, <1>4, <1>5, <1>6, <1>7 DEF Receive, Duplicate

\* Steps of the transfer threads keep the types.
LEMMA ThreadTyped ==
  ASSUME Inv, TypeInv, NEW i \in DOMAIN trans,
         Rendezvous(i) \/ ConnectFails(i) \/ Opens(i) \/ Copies(i) \/ StreamError(i)
  PROVE  TypeInv'
<1>1. ServersOK /\ PacketsFormed /\ TransfersTyped /\ TransfersOK
  BY DEF TypeInv, Inv
<1>2. ServersOK' /\ PacketsFormed'
  BY <1>1, Zenon DEF Rendezvous, ConnectFails, Opens, Copies, StreamError, ServersOK, PacketsFormed
<1>3. \A k \in DOMAIN trans : k \in Nat /\ Sound(disk, trans[k]) /\ IsTransfer(trans[k], Addr, File)
  BY <1>1 DEF TransfersOK, TransfersTyped
<1>4. ASSUME NEW x, NEW j \in DOMAIN trans, NEW y, Replaced(i, x, j, y),
             IsTransfer(x, Addr, File), IsTransfer(y, Addr, File)
      PROVE  TransfersTyped'
  BY <1>1, <1>4 DEF Replaced, TransfersTyped
<1>5. ASSUME trans[i].thread \in {"connected", "receiving"},
             NEW succeeded \in BOOLEAN, Ends(i, succeeded)
      PROVE  TransfersTyped'
  <2> DEFINE j == trans[i].partner
             x == transfer_returns(trans[i], succeeded)
             y == transfer_returns(trans[j], succeeded)
  <2>1. j \in DOMAIN trans /\ Replaced(i, x, j, y)
    BY <1>1, <1>5, EndsShape
  <2>2. IsTransfer(x, Addr, File) /\ IsTransfer(y, Addr, File)
    BY <1>3, <2>1, TransferSteps, Zenon
  <2> HIDE DEF x, y
  <2> QED
    BY <1>4, <2>1, <2>2
<1>6. CASE Rendezvous(i)
  <2>1. PICK j \in DOMAIN trans :
          Replaced(i, [trans[i] EXCEPT !.thread = "connected", !.partner = j],
                   j, [trans[j] EXCEPT !.thread = "connected", !.partner = i])
    BY <1>1, <1>6, RendezvousShape, Zenon
  <2>2. /\ IsTransfer([trans[i] EXCEPT !.thread = "connected", !.partner = j], Addr, File)
        /\ IsTransfer([trans[j] EXCEPT !.thread = "connected", !.partner = i], Addr, File)
    BY <1>3, TransferSteps, Zenon
  <2>3. TransfersTyped'
    BY <1>4, <2>1, <2>2
  <2> QED
    BY <1>2, <2>3 DEF TypeInv
<1>7. CASE ConnectFails(i)
  <2>1. trans' = [trans EXCEPT ![i] = transfer_connect_fails(trans[i])]
    BY <1>7 DEF ConnectFails
  <2>2. IsTransfer(transfer_connect_fails(trans[i]), Addr, File)
    BY <1>3, TransferSteps, Zenon
  <2>3. TransfersTyped'
    BY <1>1, <2>1, <2>2 DEF TransfersTyped
  <2> QED
    BY <1>2, <2>3 DEF TypeInv
<1>8. CASE Opens(i)
  <2> DEFINE j == trans[i].partner
             f == trans[j].file
  <2>1. j \in DOMAIN trans /\ trans[j].type = "RECEIVE" /\ trans[i].thread = "connected"
    BY <1>1, <1>8, OpensEnds
  <2>2. f \in File
    BY <1>3, <2>1 DEF IsTransfer
  <2>3. CASE dhash_local_file_exists(trans[i].node, f)
    <3>1. Replaced(i, [trans[i] EXCEPT !.thread = "receiving", !.file = f],
                   j, [trans[j] EXCEPT !.thread = "receiving"])
      BY <1>1, <1>8, <2>3, OpensShape, Zenon
    <3>2. /\ IsTransfer([trans[i] EXCEPT !.thread = "receiving", !.file = f], Addr, File)
          /\ IsTransfer([trans[j] EXCEPT !.thread = "receiving"], Addr, File)
      BY <1>3, <2>1, <2>2, TransferSteps, Zenon
    <3> QED
      BY <1>2, <1>4, <2>1, <3>1, <3>2 DEF TypeInv
  <2>4. CASE ~dhash_local_file_exists(trans[i].node, f)
    <3>1. Ends(i, FALSE)
      BY <1>8, <2>4, Zenon DEF Opens
    <3> QED
      BY <1>2, <1>5, <2>1, <3>1, Zenon DEF TypeInv
  <2> QED
    BY <2>3, <2>4
<1>9. CASE Copies(i)
  <2>1. trans[i].thread = "receiving" /\ Ends(i, TRUE)
    BY <1>9, Zenon DEF Copies, Working
  <2> QED
    BY <1>2, <1>5, <2>1, Zenon DEF TypeInv
<1>10. CASE StreamError(i)
  <2>1. trans[i].thread \in {"connected", "receiving"} /\ Ends(i, FALSE)
    BY <1>10, Zenon DEF StreamError, Working
  <2> QED
    BY <1>2, <1>5, <2>1, Zenon DEF TypeInv
<1> QED
  BY <1>6, <1>7, <1>8, <1>9, <1>10

\* The types and the routes hold in every state of every behaviour.
THEOREM AlwaysTyped == Spec => []TypeInv
<1>1. Inv /\ TypeInv /\ [Next]_vars => TypeInv'
  <2> SUFFICES ASSUME Inv, TypeInv, [Next]_vars PROVE TypeInv'
    OBVIOUS
  <2>1. CASE Next
    BY <2>1, EventLoopTyped, ThreadTyped DEF Next
  <2>2. CASE UNCHANGED vars
    BY <2>2 DEF vars, TypeInv, ServersOK, PacketsFormed, TransfersTyped
  <2> QED
    BY <2>1, <2>2
<1> QED
  BY <1>1, InitTyped, AlwaysInv, PTL DEF Spec

\* Packets, transfers and answers are always the code's: in particular every
\* transfer that receives has the name of its file (transfer_start_receiving).
THEOREM TypeCorrect == Spec => []TypeOK
<1>1. Inv /\ TypeInv /\ CountersTyped => TypeOK
  BY DEF Inv, DiskType, TypeInv, ServersOK, AtRest, Consistent, PacketsFormed, Formed,
         TransfersTyped, CountersTyped, Code, TypeOK
<1> QED
  BY <1>1, AlwaysInv, AlwaysCounted, AlwaysTyped, PTL

(***************************************************************************)
(* A query visits every node at most once on its way to its target, and at *)
(* most once on its way back, whatever the tables at rest say              *)
(* (next_route_node, process_data).                                        *)
(***************************************************************************)
THEOREM DirectLookups == Spec => []LookupsAreDirect
<1>1. TypeInv => LookupsAreDirect
  <2> SUFFICES ASSUME TypeInv, NEW p \in Packets(net)
               PROVE  /\ p.last => Hops(p) < 2 * Cardinality(Addr)
                      /\ ~p.last => Hops(p) < Cardinality(Addr)
    BY DEF LookupsAreDirect, Hops
  <2>1. Formed(p) /\ p.to \in Addr /\ Hops(p) \in Nat
    BY DHashAssumption DEF TypeInv, PacketsFormed, Formed, Hops
  <2>2. /\ Cardinality(Ahead(p)) \in Nat /\ Cardinality(Behind(p)) \in Nat
        /\ Cardinality(Addr) \in Nat
    BY AddrFinite DEF Ahead, Behind
  <2>3. Cardinality({}) + 1 <= Cardinality(Addr) /\ Cardinality({}) = 0
    BY <2>1, Fewer, FS_EmptySet
  <2>4. CASE p.payload.type = "QUERY"
    BY <2>1, <2>2, <2>4 DEF Formed, Directed
  <2>5. CASE p.payload.type # "QUERY"
    <3>1. Hops(p) = 0
      BY <2>1, <2>5, DHashAssumption DEF Formed, Directed, Hops
    <3> QED
      BY <2>2, <2>3, <3>1
  <2> QED
    BY <2>4, <2>5
<1> QED
  BY <1>1, AlwaysTyped, PTL
=============================================================================
