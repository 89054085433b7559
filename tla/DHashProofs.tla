---------------------------- MODULE DHashProofs ----------------------------
(***************************************************************************)
(* Proofs about DHash, for any number of nodes and files, any finger       *)
(* tables, any number of requests and any faults: a published file is      *)
(* never overwritten, a transfer is freed once, and a client is answered   *)
(* once.                                                                   *)
(*                                                                         *)
(* The first rests on what travels: a query, and the reply that has its    *)
(* asker receive the file, exist only for a node that did not publish the  *)
(* file.  The second rests on how threads are paired: the two ends of a    *)
(* connection know each other and return together.                         *)
(***************************************************************************)
EXTENDS DHash, FiniteSetTheorems, TLAPS

PayloadType == {"QUERY", "QUERY_REPLY_SUCCESS", "QUERY_REPLY_FAILURE", "PUSH", "PUSH_REPLY"}

\* Node n may receive file f: with these disks, it is not one that published it.
MayReceive(d, n, f) == n \in Addr /\ f \in File => d[n][f] # "original"

Harmless(d, p) ==
  /\ p.payload.type \in PayloadType
  /\ p.payload.type = "QUERY" => MayReceive(d, p.payload.reply_addr, p.payload.name)
  /\ p.payload.type = "QUERY_REPLY_SUCCESS" => MayReceive(d, p.to, p.payload.name)

Fields == {"node", "peer", "type", "file", "callbacks", "thread", "event", "partner", "freed"}

\* A transfer that is neither freed early nor used late.
Sound(d, t) ==
  /\ DOMAIN t = Fields
  /\ t.type \in {"SEND", "RECEIVE"}
  /\ t.type = "RECEIVE" => MayReceive(d, t.node, t.file)
  /\ t.callbacks => t.type = "RECEIVE"
  /\ t.freed \in {0, 1}
  /\ t.thread # "returned" => t.freed = 0 /\ t.event = "none"
  /\ t.event # "none" => t.freed = 0 /\ t.callbacks

\* The two ends of a connection belong together.
Paired(ts, i) ==
  LET j == ts[i].partner
  IN  ts[i].thread \in {"connected", "receiving"} =>
        /\ j \in DOMAIN ts /\ j # i
        /\ ts[j].partner = i /\ ts[j].thread = ts[i].thread
        /\ ts[j].node = ts[i].peer /\ ts[i].node = ts[j].peer
        /\ ts[i].type # ts[j].type
        /\ ts[i].thread = "receiving" => ts[i].file = ts[j].file

DiskType == disk \in [Addr -> [File -> {"none", "part", "copy", "original"}]]

PacketsOK == \A p \in Packets(net) : Harmless(disk, p)

TransfersOK ==
  /\ \E S : trans \in Seq(S)
  /\ \A i \in DOMAIN trans : Sound(disk, trans[i]) /\ Paired(trans, i)

Inv == DiskType /\ PublishedFilesSurvive /\ PacketsOK /\ TransfersOK

-----------------------------------------------------------------------------
\* The network has the packets it had and the new ones.
LEMMA SentPackets ==
  ASSUME NEW nt, NEW out PROVE Packets(Sent(nt, out)) = Packets(nt) \cup out
BY DEF Packets, Sent

\* A packet is taken from the network: it has no new one.
LEMMA TakenPackets ==
  ASSUME NEW nt, NEW p PROVE Packets(Taken(nt, p)) \subseteq Packets(nt)
BY DEF Packets, Taken

\* What SendRouted puts on the network.
LEMMA RoutedPayload ==
  ASSUME NEW n, NEW payload, NEW q \in SendRouted(n, payload)
  PROVE  q.payload = payload
<1>1. \A r : Data(r, payload).payload = payload
  BY DEF Data
<1>2. PICK r : q = Data(r, payload)
  BY Zenon DEF SendRouted
<1> QED
  BY <1>1, <1>2

\* What send_chord_pkt_directly puts on the network.
LEMMA DirectPayload ==
  ASSUME NEW n, NEW to, NEW payload, NEW q \in send_chord_pkt_directly(n, to, payload)
  PROVE  q.payload = payload /\ q.to = to
BY DEF send_chord_pkt_directly, Data, send_data

\* A packet that process_data sends on keeps its contents.
LEMMA ForwardedPayload ==
  ASSUME NEW s, NEW p, NEW payload,
         NEW q \in {Data(r, payload) : r \in process_data(s, p).out}
  PROVE  q.payload = payload
BY DEF Data

\* A transfer that is just started is added at the end.
LEMMA AppendTransfer ==
  ASSUME NEW S, NEW s \in Seq(S), NEW t
  PROVE  /\ s \o <<t>> \in Seq(S \cup {t})
         /\ DOMAIN (s \o <<t>>) = DOMAIN s \cup {Len(s) + 1}
         /\ Len(s) + 1 \notin DOMAIN s
         /\ \A i \in DOMAIN s : (s \o <<t>>)[i] = s[i]
         /\ (s \o <<t>>)[Len(s) + 1] = t
OBVIOUS

\* A transfer whose thread has just been created.
Fresh(d, t) == Sound(d, t) /\ t.thread = "connecting"

\* A handler that sends nothing but harmless packets and starts at most one transfer.
Benign(d, e) ==
  /\ \A q \in e.out : Harmless(d, q)
  /\ e.started = <<>> \/ \E t : Fresh(d, t) /\ e.started = <<t>>

\* The threads that handlers start are sound: what receives may receive.
LEMMA FreshTransfers ==
  ASSUME NEW n, NEW peer, NEW f
  PROVE  /\ Fresh(disk, transfer_start_sending(new_transfer(n, peer)))
         /\ MayReceive(disk, n, f) =>
              /\ Fresh(disk, transfer_start_receiving(new_transfer(n, peer), f))
              /\ Fresh(disk, transfer_start_receiving(transfer_set_callbacks(new_transfer(n, peer)), f))
BY DEF Fresh, Sound, Fields, transfer_start_sending, transfer_start_receiving,
       transfer_set_callbacks, new_transfer

\* A node where a file does not exist may receive it.
LEMMA MissingMayReceive ==
  ASSUME NEW n, NEW f, ~dhash_local_file_exists(n, f)
  PROVE  MayReceive(disk, n, f)
BY DEF dhash_local_file_exists, MayReceive

\* A query asks for a file its sender may receive.
LEMMA QueryHarmless ==
  ASSUME NEW n, NEW f, MayReceive(disk, n, f), NEW q \in dhash_send_query(n, f)
  PROVE  Harmless(disk, q)
BY RoutedPayload DEF dhash_send_query, Payload, Harmless, PayloadType

\* A push is harmless: its receiver looks first.
LEMMA PushHarmless ==
  ASSUME NEW n, NEW f, NEW q \in dhash_send_push(n, f)
  PROVE  Harmless(disk, q)
BY RoutedPayload DEF dhash_send_push, Payload, Harmless, PayloadType

\* The replies are harmless, the one that has its receiver fetch the file if it may.
LEMMA RepliesHarmless ==
  ASSUME NEW n, NEW to, NEW f
  PROVE  /\ MayReceive(disk, to, f) =>
              \A q \in dhash_send_query_reply_success(n, to, f) : Harmless(disk, q)
         /\ \A q \in dhash_send_query_reply_failure(n, to, f) : Harmless(disk, q)
         /\ \A q \in dhash_send_push_reply(n, to, f) : Harmless(disk, q)
BY DirectPayload DEF dhash_send_query_reply_success, dhash_send_query_reply_failure,
                     dhash_send_push_reply, Payload, Harmless, PayloadType

(***************************************************************************)
(* What becomes of a packet: one line for each path through the handlers   *)
(* (dispatch_packet, dhash_process_*, and process_data after them).        *)
(***************************************************************************)
Onward(p) == {Data(q, p.payload) : q \in process_data(srv[p.to], p).out}

HandledAs(p, out, started, codes, ret) ==
  dhash_unpack_chord_data(p.to, p) = Effect(out, started, codes, ret)

QueryFound(p) ==
  LET f == p.payload.name
      a == p.payload.reply_addr
  IN  /\ p.payload.type = "QUERY" /\ dhash_local_file_exists(p.to, f)
      /\ HandledAs(p, dhash_send_query_reply_success(p.to, a, f),
                   <<transfer_start_sending(new_transfer(p.to, a))>>, <<>>, 0)

QueryMissing(p) ==
  LET f == p.payload.name
      a == p.payload.reply_addr
  IN  /\ p.payload.type = "QUERY" /\ ~dhash_local_file_exists(p.to, f)
      /\ HandledAs(p, dhash_send_query_reply_failure(p.to, a, f), <<>>, <<>>, 0)

QueryOnward(p) ==
  /\ p.payload.type = "QUERY" /\ ~chord_id_is_local(srv[p.to], FileId[p.payload.name])
  /\ HandledAs(p, Onward(p), <<>>, <<>>, 1)

ReplyFound(p) ==
  /\ p.payload.type = "QUERY_REPLY_SUCCESS"
  /\ HandledAs(p, {}, <<transfer_start_receiving(transfer_set_callbacks(
                          new_transfer(p.to, p.from)), p.payload.name)>>, <<>>, 0)

ReplyMissing(p) ==
  p.payload.type = "QUERY_REPLY_FAILURE" /\ HandledAs(p, {}, <<>>, <<"FAILURE">>, 0)

PushKnown(p) == p.payload.type = "PUSH" /\ HandledAs(p, {}, <<>>, <<>>, 0)

PushTaken(p) ==
  LET f == p.payload.name
      a == p.payload.reply_addr
  IN  /\ p.payload.type = "PUSH" /\ ~dhash_local_file_exists(p.to, f)
      /\ HandledAs(p, dhash_send_push_reply(p.to, a, f),
                   <<transfer_start_receiving(new_transfer(p.to, a), f)>>, <<>>, 0)

PushReplied(p) ==
  /\ p.payload.type = "PUSH_REPLY"
  /\ HandledAs(p, {}, <<transfer_start_sending(new_transfer(p.to, p.from))>>, <<>>, 0)

\* There are no other paths.
LEMMA HandlerPaths ==
  ASSUME NEW p, p.payload.type \in PayloadType
  PROVE  \/ QueryFound(p) \/ QueryMissing(p) \/ QueryOnward(p)
         \/ ReplyFound(p) \/ ReplyMissing(p)
         \/ PushKnown(p) \/ PushTaken(p) \/ PushReplied(p)
<1> DEFINE n == p.to
           f == p.payload.name
           e == dispatch_packet(n, p)
<1>1. /\ p.payload.type = "QUERY" => e = dhash_process_query(n, p)
      /\ p.payload.type = "QUERY_REPLY_SUCCESS" => e = dhash_process_query_reply_success(n, p)
      /\ p.payload.type = "QUERY_REPLY_FAILURE" => e = dhash_process_query_reply_failure(n, p)
      /\ p.payload.type = "PUSH" => e = dhash_process_push(n, p)
      /\ p.payload.type = "PUSH_REPLY" => e = dhash_process_push_reply(n, p)
  BY Zenon DEF dispatch_packet
<1>2. e.ret = 0 => dhash_unpack_chord_data(n, p) = e
  BY DEF dhash_unpack_chord_data
<1>3. \A o, s, c : Effect(o, s, c, 0).ret = 0
  BY DEF Effect
<1>4. e = Effect({}, <<>>, <<>>, 1) => HandledAs(p, Onward(p), <<>>, <<>>, 1)
  <2> SUFFICES ASSUME e = Effect({}, <<>>, <<>>, 1)
               PROVE  dhash_unpack_chord_data(n, p) = Effect(Onward(p), <<>>, <<>>, 1)
    BY DEF HandledAs
  <2>1. dhash_unpack_chord_data(n, p) = [e EXCEPT !.out = @ \cup Onward(p)]
    BY DEF dhash_unpack_chord_data, Effect, Onward
  <2> QED
    BY <2>1 DEF Effect
<1> HIDE DEF e
<1>5. CASE p.payload.type = "QUERY"
  BY <1>1, <1>2, <1>3, <1>4, <1>5, Zenon
     DEF dhash_process_query, QueryFound, QueryMissing, QueryOnward, HandledAs
<1>6. CASE p.payload.type = "QUERY_REPLY_SUCCESS"
  BY <1>1, <1>2, <1>3, <1>6 DEF dhash_process_query_reply_success, ReplyFound, HandledAs
<1>7. CASE p.payload.type = "QUERY_REPLY_FAILURE"
  BY <1>1, <1>2, <1>3, <1>7 DEF dhash_process_query_reply_failure, ReplyMissing, HandledAs
<1>8. CASE p.payload.type = "PUSH"
  BY <1>1, <1>2, <1>3, <1>8, Zenon DEF dhash_process_push, PushKnown, PushTaken, HandledAs
<1>9. CASE p.payload.type = "PUSH_REPLY"
  BY <1>1, <1>2, <1>3, <1>9, Zenon DEF dhash_process_push_reply, PushReplied, HandledAs
<1> QED
  BY <1>5, <1>6, <1>7, <1>8, <1>9, Zenon DEF PayloadType

\* Every handler of DHash is benign, given a harmless packet.
LEMMA HandlersBenign ==
  ASSUME NEW p, Harmless(disk, p)
  PROVE  Benign(disk, dhash_unpack_chord_data(p.to, p))
<1>1. CASE QueryFound(p)
  <2> DEFINE e == dhash_unpack_chord_data(p.to, p)
             f == p.payload.name
             a == p.payload.reply_addr
             t == transfer_start_sending(new_transfer(p.to, a))
  <2>1. /\ e.out = dhash_send_query_reply_success(p.to, a, f) /\ e.started = <<t>>
        /\ p.payload.type = "QUERY"
    BY <1>1 DEF QueryFound, HandledAs, Effect
  <2>2. \A q \in dhash_send_query_reply_success(p.to, a, f) : Harmless(disk, q)
    BY <2>1, RepliesHarmless, Zenon DEF Harmless
  <2>3. Fresh(disk, t)
    BY FreshTransfers
  <2> HIDE DEF e, t
  <2>4. Benign(disk, e)
    BY <2>1, <2>2, <2>3 DEF Benign
  <2> QED
    BY <2>4 DEF e
<1>2. CASE QueryMissing(p)
  BY <1>2, RepliesHarmless DEF QueryMissing, HandledAs, Benign, Effect
<1>3. CASE QueryOnward(p)
  <2>1. \A q \in Onward(p) : q.payload = p.payload
    BY ForwardedPayload DEF Onward
  <2>2. \A q \in Onward(p) : Harmless(disk, q)
    BY <2>1, <1>3, Zenon DEF Harmless, QueryOnward
  <2> QED
    BY <1>3, <2>2 DEF QueryOnward, HandledAs, Benign, Effect
<1>4. CASE ReplyFound(p)
  BY <1>4, FreshTransfers DEF ReplyFound, HandledAs, Benign, Effect, Harmless
<1>5. CASE ReplyMissing(p)
  BY <1>5 DEF ReplyMissing, HandledAs, Benign, Effect
<1>6. CASE PushKnown(p)
  BY <1>6 DEF PushKnown, HandledAs, Benign, Effect
<1>7. CASE PushTaken(p)
  BY <1>7, MissingMayReceive, FreshTransfers, RepliesHarmless
     DEF PushTaken, HandledAs, Benign, Effect
<1>8. CASE PushReplied(p)
  BY <1>8, FreshTransfers DEF PushReplied, HandledAs, Benign, Effect
<1> QED
  BY <1>1, <1>2, <1>3, <1>4, <1>5, <1>6, <1>7, <1>8, HandlerPaths, Zenon DEF Harmless

-----------------------------------------------------------------------------
\* A handler's packets and transfers join the others (Carry).
LEMMA CarryKeeps ==
  ASSUME TransfersOK, PacketsOK, UNCHANGED disk,
         NEW n, NEW e, Benign(disk, e), NEW kept, Packets(kept) \subseteq Packets(net),
         Carry(n, e, kept)
  PROVE  TransfersOK' /\ PacketsOK'
<1>1. PacketsOK'
  <2>1. Packets(net') \subseteq Packets(net) \cup e.out
    BY SentPackets, Zenon DEF Carry
  <2> QED
    BY <2>1, Zenon DEF PacketsOK, Benign
<1>2. CASE e.started = <<>>
  <2>1. PICK S : trans \in Seq(S)
    BY DEF TransfersOK
  <2>2. trans' = trans
    BY <1>2, <2>1 DEF Carry
  <2> QED
    BY <1>1, <2>2 DEF TransfersOK
<1>3. CASE \E t : Fresh(disk, t) /\ e.started = <<t>>
  <2>1. PICK t : Fresh(disk, t) /\ e.started = <<t>>
    BY <1>3
  <2>2. PICK S : trans \in Seq(S)
    BY DEF TransfersOK
  <2>3. PICK k : k = Len(trans) + 1
    OBVIOUS
  <2>4. /\ trans' \in Seq(S \cup {t})
        /\ DOMAIN trans' = DOMAIN trans \cup {k}
        /\ k \notin DOMAIN trans
        /\ \A i \in DOMAIN trans : trans'[i] = trans[i]
        /\ trans'[k] = t
    BY <2>1, <2>2, <2>3, AppendTransfer DEF Carry
  <2>5. ASSUME NEW i \in DOMAIN trans
        PROVE  Sound(disk, trans'[i]) /\ Paired(trans', i)
    BY <2>4 DEF TransfersOK, Paired
  <2>6. Sound(disk, trans'[k]) /\ Paired(trans', k)
    BY <2>1, <2>4, Zenon DEF Fresh, Paired
  <2> QED
    BY <1>1, <2>4, <2>5, <2>6, Zenon DEF TransfersOK
<1> QED
  BY <1>2, <1>3, Zenon DEF Benign

\* Overwriting what a node may receive takes no publisher's file and gives nobody one.
LEMMA OverwriteKeeps ==
  ASSUME DiskType, PublishedFilesSurvive,
         NEW m, NEW g, MayReceive(disk, m, g), NEW c \in {"part", "copy"},
         disk' = [disk EXCEPT ![m][g] = c]
  PROVE  /\ DiskType' /\ PublishedFilesSurvive'
         /\ \A n, f : MayReceive(disk, n, f) => MayReceive(disk', n, f)
<1>1. /\ disk' \in [Addr -> [File -> {"none", "part", "copy", "original"}]]
      /\ \A n \in Addr, f \in File :
           disk'[n][f] = IF n = m /\ f = g THEN c ELSE disk[n][f]
  BY Zenon DEF DiskType
<1>2. \A n \in Addr, f \in File : disk'[n][f] = "original" <=> disk[n][f] = "original"
  BY <1>1, Zenon DEF MayReceive
<1> QED
  BY <1>1, <1>2, Zenon DEF DiskType, PublishedFilesSurvive, MayReceive

\* As long as nobody becomes a publisher, packets stay harmless and transfers sound.
LEMMA MayReceiveKeeps ==
  ASSUME NEW d, NEW e, \A n, f : MayReceive(d, n, f) => MayReceive(e, n, f)
  PROVE  /\ \A p : Harmless(d, p) => Harmless(e, p)
         /\ \A t : Sound(d, t) => Sound(e, t)
BY DEF Harmless, Sound

\* The end of a thread: freed by the thread, or left to a callback.
LEMMA ReturnsSound ==
  ASSUME NEW d, NEW t, Sound(d, t), t.thread # "returned", NEW succeeded
  PROVE  /\ Sound(d, transfer_returns(t, succeeded))
         /\ transfer_returns(t, succeeded).thread = "returned"
BY DEF Sound, Fields, transfer_returns, free_transfer

\* Two transfers, and no others, become x and y.
Replaced(i, x, j, y) ==
  /\ DOMAIN trans' = DOMAIN trans
  /\ trans'[i] = x /\ trans'[j] = y
  /\ \A k \in DOMAIN trans : k # i /\ k # j => trans'[k] = trans[k]
  /\ \E S : trans' \in Seq(S)

\* When a connection ends, both of its threads return, and no other is concerned.
LEMMA EndsShape ==
  ASSUME TransfersOK, NEW i \in DOMAIN trans, trans[i].thread \in {"connected", "receiving"},
         NEW succeeded, Ends(i, succeeded)
  PROVE  LET j == trans[i].partner
         IN  /\ j \in DOMAIN trans /\ j # i /\ trans[j].partner = i
             /\ trans[i].thread # "returned" /\ trans[j].thread # "returned"
             /\ Replaced(i, transfer_returns(trans[i], succeeded),
                         j, transfer_returns(trans[j], succeeded))
<1> DEFINE j == trans[i].partner
           x == transfer_returns(trans[i], succeeded)
           y == transfer_returns(trans[j], succeeded)
<1>1. /\ j \in DOMAIN trans /\ j # i /\ trans[j].partner = i
      /\ trans[i].thread # "returned" /\ trans[j].thread # "returned"
  BY Zenon DEF TransfersOK, Paired
<1>2. PICK S : trans \in Seq(S)
  BY DEF TransfersOK
<1>3. trans' = [trans EXCEPT ![i] = x, ![j] = y]
  BY DEF Ends
<1> HIDE DEF x, y, j
<1>4. /\ DOMAIN trans' = DOMAIN trans
      /\ trans'[i] = x /\ trans'[j] = y
      /\ \A k \in DOMAIN trans : k # i /\ k # j => trans'[k] = trans[k]
  BY <1>1, <1>2, <1>3
<1>5. trans' \in Seq(S \cup {x, y})
  BY <1>1, <1>2, <1>3
<1> QED
  BY <1>1, <1>4, <1>5, Zenon DEF Replaced, x, y, j

\* The transfers stay sound and paired when a connection ends.
LEMMA EndsKeeps ==
  ASSUME TransfersOK, NEW i \in DOMAIN trans, trans[i].thread \in {"connected", "receiving"},
         \A t : Sound(disk, t) => Sound(disk', t),
         NEW succeeded, Ends(i, succeeded)
  PROVE  TransfersOK'
<1> DEFINE j == trans[i].partner
           x == transfer_returns(trans[i], succeeded)
           y == transfer_returns(trans[j], succeeded)
<1>1. /\ j \in DOMAIN trans /\ j # i /\ trans[j].partner = i
      /\ trans[i].thread # "returned" /\ trans[j].thread # "returned"
      /\ Replaced(i, x, j, y)
  BY EndsShape, Zenon
<1>2. /\ Sound(disk, x) /\ Sound(disk, y)
      /\ x.thread = "returned" /\ y.thread = "returned"
  BY <1>1, ReturnsSound, Zenon DEF TransfersOK
<1> HIDE DEF x, y, j
<1>3. ASSUME NEW k \in DOMAIN trans
      PROVE  Sound(disk', trans'[k]) /\ Paired(trans', k)
  <2>1. CASE k = i \/ k = j
    BY <2>1, <1>1, <1>2, Zenon DEF Paired, Replaced
  <2>2. CASE k # i /\ k # j
    <3>1. Sound(disk', trans'[k])
      BY <2>2, <1>1 DEF TransfersOK, Replaced
    <3>2. ASSUME trans[k].thread \in {"connected", "receiving"}
          PROVE  trans[k].partner \notin {i, j}
      BY <3>2, <2>2, <1>1 DEF TransfersOK, Paired, j
    <3>3. Paired(trans, k)
      BY DEF TransfersOK
    <3> QED
      BY <2>2, <3>1, <3>2, <3>3, <1>1 DEF Paired, Replaced
  <2> QED
    BY <2>1, <2>2
<1> QED
  BY <1>1, <1>3, Zenon DEF TransfersOK, Replaced

\* A transfer outside of any connection may return, or its event be handled.
LEMMA ReturnedKeeps ==
  ASSUME TransfersOK, UNCHANGED disk, NEW i \in DOMAIN trans,
         trans[i].thread \notin {"connected", "receiving"},
         NEW x, Sound(disk, x), x.thread = "returned",
         trans' = [trans EXCEPT ![i] = x]
  PROVE  TransfersOK'
<1>1. PICK S : trans \in Seq(S)
  BY DEF TransfersOK
<1>2. /\ trans' \in Seq(S \cup {x})
      /\ DOMAIN trans' = DOMAIN trans
      /\ trans'[i] = x
      /\ \A k \in DOMAIN trans : k # i => trans'[k] = trans[k]
  BY <1>1
<1>3. ASSUME NEW k \in DOMAIN trans
      PROVE  Sound(disk, trans'[k]) /\ Paired(trans', k)
  <2>1. CASE k = i
    BY <2>1, <1>2, Zenon DEF Paired
  <2>2. CASE k # i
    <3>1. Sound(disk, trans[k]) /\ Paired(trans, k)
      BY DEF TransfersOK
    <3> QED
      BY <2>2, <3>1, <1>2, Zenon DEF Paired
  <2> QED
    BY <2>1, <2>2
<1> QED
  BY <1>2, <1>3, Zenon DEF TransfersOK

\* UDT::connect, for two threads that call each other.
LEMMA RendezvousShape ==
  ASSUME TransfersOK, NEW i \in DOMAIN trans, Rendezvous(i)
  PROVE  /\ UNCHANGED disk
         /\ \E j \in DOMAIN trans :
              /\ j # i
              /\ trans[i].thread = "connecting" /\ trans[i].type = "SEND"
              /\ trans[j].thread = "connecting" /\ trans[j].type = "RECEIVE"
              /\ trans[j].node = trans[i].peer /\ trans[j].peer = trans[i].node
              /\ Replaced(i, [trans[i] EXCEPT !.thread = "connected", !.partner = j],
                          j, [trans[j] EXCEPT !.thread = "connected", !.partner = i])
<1>1. PICK j \in Counterparts(i) :
        trans' = [trans EXCEPT ![i].thread = "connected", ![i].partner = j,
                               ![j].thread = "connected", ![j].partner = i]
  BY Zenon DEF Rendezvous
<1>2. /\ trans[i].thread = "connecting" /\ trans[i].type = "SEND" /\ UNCHANGED disk
      /\ j \in DOMAIN trans /\ trans[j].thread = "connecting" /\ trans[j].type = "RECEIVE"
      /\ trans[j].node = trans[i].peer /\ trans[j].peer = trans[i].node /\ j # i
  BY <1>1 DEF Rendezvous, Working, Counterparts
<1>3. PICK S : trans \in Seq(S)
  BY DEF TransfersOK
<1> DEFINE x == [trans[i] EXCEPT !.thread = "connected", !.partner = j]
           y == [trans[j] EXCEPT !.thread = "connected", !.partner = i]
<1>4. /\ DOMAIN trans' = DOMAIN trans
      /\ trans'[i] = x /\ trans'[j] = y
      /\ \A k \in DOMAIN trans : k # i /\ k # j => trans'[k] = trans[k]
  BY <1>1, <1>2, <1>3, Zenon
<1> HIDE DEF x, y
<1>5. trans' \in Seq(S \cup {x, y})
  <2>1. Len(trans) \in Nat /\ DOMAIN trans = 1 .. Len(trans)
    BY <1>3
  <2>2. trans' = [k \in 1 .. Len(trans) |-> trans'[k]]
    BY <1>1, <2>1, Zenon
  <2>3. \A k \in 1 .. Len(trans) : trans'[k] \in S \cup {x, y}
    BY <1>3, <1>4, <2>1
  <2> QED
    BY <2>1, <2>2, <2>3
<1>6. Replaced(i, x, j, y)
  BY <1>4, <1>5 DEF Replaced
<1> QED
  BY <1>2, <1>6, Zenon DEF x, y

\* Two threads that connect to each other are paired from then on.
LEMMA RendezvousKeeps ==
  ASSUME TransfersOK, NEW i \in DOMAIN trans, Rendezvous(i)
  PROVE  TransfersOK'
<1>1. UNCHANGED disk
  BY RendezvousShape, Zenon
<1>2. PICK j \in DOMAIN trans :
        /\ j # i
        /\ trans[i].thread = "connecting" /\ trans[i].type = "SEND"
        /\ trans[j].thread = "connecting" /\ trans[j].type = "RECEIVE"
        /\ trans[j].node = trans[i].peer /\ trans[j].peer = trans[i].node
        /\ Replaced(i, [trans[i] EXCEPT !.thread = "connected", !.partner = j],
                    j, [trans[j] EXCEPT !.thread = "connected", !.partner = i])
  BY RendezvousShape, Zenon
<1> DEFINE x == [trans[i] EXCEPT !.thread = "connected", !.partner = j]
           y == [trans[j] EXCEPT !.thread = "connected", !.partner = i]
<1>3. Sound(disk, trans[i]) /\ Sound(disk, trans[j])
  BY DEF TransfersOK
<1>4. /\ x.thread = "connected" /\ x.partner = j /\ x.node = trans[i].node
      /\ x.peer = trans[i].peer /\ x.type = "SEND"
      /\ y.thread = "connected" /\ y.partner = i /\ y.node = trans[j].node
      /\ y.peer = trans[j].peer /\ y.type = "RECEIVE"
  BY <1>2, <1>3, Zenon DEF Sound, Fields
<1>5. Sound(disk, x) /\ Sound(disk, y)
  BY <1>2, <1>3 DEF Sound, Fields
<1>6. Replaced(i, x, j, y)
  BY <1>2
<1> HIDE DEF x, y
<1>7. ASSUME NEW k \in DOMAIN trans
      PROVE  Sound(disk, trans'[k]) /\ Paired(trans', k)
  <2>1. CASE k = i \/ k = j
    BY <2>1, <1>2, <1>4, <1>5, <1>6 DEF Paired, Replaced
  <2>2. CASE k # i /\ k # j
    <3>1. Sound(disk, trans[k]) /\ Paired(trans, k)
      BY DEF TransfersOK
    <3>2. trans'[k] = trans[k]
      BY <2>2, <1>6 DEF Replaced
    <3>3. ASSUME trans[k].thread \in {"connected", "receiving"}
          PROVE  trans[k].partner \notin {i, j} /\ trans'[trans[k].partner] = trans[trans[k].partner]
      BY <2>2, <3>1, <3>3, <1>2, <1>6, Zenon DEF Paired, Replaced
    <3>4. DOMAIN trans' = DOMAIN trans
      BY <1>6 DEF Replaced
    <3> QED
      BY <3>1, <3>2, <3>3, <3>4, Zenon DEF Paired
  <2> QED
    BY <2>1, <2>2
<1> QED
  BY <1>1, <1>6, <1>7, Zenon DEF TransfersOK, Replaced

\* What a callback does: it consumes the event, tells the client at most one code and pushes
\* the file at most once.
LEMMA CallbackShape ==
  ASSUME NEW i \in DOMAIN trans, Callback(i)
  PROVE  LET t == trans[i]
             x == [t EXCEPT !.event = "none"]
         IN  /\ t.event = "success" \/ t.event = "fail"
             /\ trans' = [trans EXCEPT ![i] = x] \/ trans' = [trans EXCEPT ![i] = free_transfer(x)]
             /\ \/ answers' = answers
                \/ answers' = [answers EXCEPT ![t.node] = Append(@, "SUCCESS")]
                \/ answers' = [answers EXCEPT ![t.node] = Append(@, "FAILURE")]
             /\ net' = net \/ net' = Sent(net, dhash_send_push(t.node, t.file))
             /\ mishap' = mishap \/ mishap' = mishap \cup {"content"}
             /\ UNCHANGED <<srv, asked, dups, faults>>
<1> DEFINE t == trans[i]
           x == [t EXCEPT !.event = "none"]
<1>1. [trans EXCEPT ![i].event = "none"] = [trans EXCEPT ![i] = x]
  OBVIOUS
<1>2. CASE receive_fail(i)
  BY <1>2, Zenon DEF Callback, receive_fail
<1>3. CASE receive_success(i) /\ disk[t.node][t.file] \in Whole
  BY <1>3, Zenon DEF Callback, receive_success
<1>4. CASE receive_success(i) /\ disk[t.node][t.file] \notin Whole
  BY <1>1, <1>4, Zenon DEF Callback, receive_success
<1> QED
  BY <1>2, <1>3, <1>4, Zenon DEF Callback

\* The two ends of a connection when the sender is about to open the file.
LEMMA OpensEnds ==
  ASSUME TransfersOK, NEW i \in DOMAIN trans, Opens(i)
  PROVE  LET j == trans[i].partner
         IN  /\ trans[i].thread = "connected" /\ trans[i].type = "SEND"
             /\ j \in DOMAIN trans /\ j # i /\ trans[j].partner = i
             /\ trans[j].thread = "connected"
             /\ trans[j].node = trans[i].peer /\ trans[i].node = trans[j].peer
             /\ trans[j].type = "RECEIVE"
             /\ Sound(disk, trans[i]) /\ Sound(disk, trans[j])
             /\ MayReceive(disk, trans[i].peer, trans[j].file)
<1> DEFINE j == trans[i].partner
<1>1. trans[i].thread = "connected" /\ trans[i].type = "SEND"
  BY Zenon DEF Opens, Working
<1>2. Sound(disk, trans[i]) /\ Paired(trans, i)
  BY DEF TransfersOK
<1>3. /\ j \in DOMAIN trans /\ j # i /\ trans[j].partner = i
      /\ trans[j].thread = "connected"
      /\ trans[j].node = trans[i].peer /\ trans[i].node = trans[j].peer
      /\ trans[i].type # trans[j].type
  BY <1>1, <1>2, Zenon DEF Paired
<1>4. Sound(disk, trans[j])
  BY <1>3, Zenon DEF TransfersOK
<1>5. /\ trans[j].type = "RECEIVE"
      /\ MayReceive(disk, trans[i].peer, trans[j].file)
  BY <1>1, <1>3, <1>4, Zenon DEF Sound
<1> QED
  BY <1>1, <1>2, <1>3, <1>4, <1>5, Zenon

\* The sender has the file and opens it, and the receiver empties its own.
LEMMA OpensShape ==
  ASSUME TransfersOK, NEW i \in DOMAIN trans, Opens(i),
         dhash_local_file_exists(trans[i].node, trans[trans[i].partner].file)
  PROVE  LET j == trans[i].partner
             f == trans[j].file
         IN  /\ disk' = [disk EXCEPT ![trans[i].peer][f] = "part"]
             /\ Replaced(i, [trans[i] EXCEPT !.thread = "receiving", !.file = f],
                         j, [trans[j] EXCEPT !.thread = "receiving"])
<1> DEFINE j == trans[i].partner
           f == trans[j].file
           x == [trans[i] EXCEPT !.thread = "receiving", !.file = f]
           y == [trans[j] EXCEPT !.thread = "receiving"]
<1>1. j \in DOMAIN trans /\ j # i
  BY OpensEnds, Zenon
<1>2. /\ trans' = [trans EXCEPT ![i].thread = "receiving", ![i].file = f,
                                ![j].thread = "receiving"]
      /\ disk' = [disk EXCEPT ![trans[i].peer][f] = "part"]
  BY Zenon DEF Opens
<1>3. PICK S : trans \in Seq(S)
  BY DEF TransfersOK
<1>4. /\ DOMAIN trans' = DOMAIN trans
      /\ trans'[i] = x /\ trans'[j] = y
      /\ \A k \in DOMAIN trans : k # i /\ k # j => trans'[k] = trans[k]
  BY <1>1, <1>2, <1>3, Zenon
<1> HIDE DEF x, y, j, f
<1>5. trans' \in Seq(S \cup {x, y})
  <2>1. Len(trans) \in Nat /\ DOMAIN trans = 1 .. Len(trans)
    BY <1>3
  <2>2. trans' = [k \in 1 .. Len(trans) |-> trans'[k]]
    BY <1>2, <2>1, Zenon
  <2>3. \A k \in 1 .. Len(trans) : trans'[k] \in S \cup {x, y}
    BY <1>3, <1>4, <2>1
  <2> QED
    BY <2>1, <2>2, <2>3
<1>6. Replaced(i, x, j, y)
  BY <1>4, <1>5 DEF Replaced
<1> QED
  BY <1>2, <1>6, Zenon DEF x, y, j, f

\* The sender opens the file and the receiver empties its own, in one connection.
LEMMA OpensKeeps ==
  ASSUME DiskType, PublishedFilesSurvive, TransfersOK, NEW i \in DOMAIN trans, Opens(i)
  PROVE  /\ DiskType' /\ PublishedFilesSurvive' /\ TransfersOK'
         /\ \A n, f : MayReceive(disk, n, f) => MayReceive(disk', n, f)
<1> DEFINE j == trans[i].partner
           f == trans[j].file
<1>1. /\ trans[i].thread = "connected" /\ trans[i].type = "SEND"
      /\ j \in DOMAIN trans /\ j # i /\ trans[j].partner = i /\ trans[j].thread = "connected"
      /\ trans[j].node = trans[i].peer /\ trans[i].node = trans[j].peer
      /\ trans[j].type = "RECEIVE"
      /\ Sound(disk, trans[i]) /\ Sound(disk, trans[j])
      /\ MayReceive(disk, trans[i].peer, f)
  BY OpensEnds, Zenon
<1>2. CASE ~dhash_local_file_exists(trans[i].node, f)
  <2>1. Ends(i, FALSE) /\ UNCHANGED disk
    BY <1>2, Zenon DEF Opens
  <2>2. TransfersOK'
    BY <2>1, <1>1, EndsKeeps, Zenon
  <2> QED
    BY <2>1, <2>2 DEF DiskType, PublishedFilesSurvive
<1>3. CASE dhash_local_file_exists(trans[i].node, f)
  <2> DEFINE x == [trans[i] EXCEPT !.thread = "receiving", !.file = f]
             y == [trans[j] EXCEPT !.thread = "receiving"]
  <2>1. disk' = [disk EXCEPT ![trans[i].peer][f] = "part"] /\ Replaced(i, x, j, y)
    BY <1>3, OpensShape, Zenon
  <2>2. /\ DiskType' /\ PublishedFilesSurvive'
        /\ \A n, g : MayReceive(disk, n, g) => MayReceive(disk', n, g)
    BY <1>1, <2>1, OverwriteKeeps, Zenon
  <2>3. \A t : Sound(disk, t) => Sound(disk', t)
    BY <2>2, MayReceiveKeeps
  <2>4. /\ x.thread = "receiving" /\ x.partner = j /\ x.node = trans[i].node
        /\ x.peer = trans[i].peer /\ x.type = "SEND" /\ x.file = f
        /\ y.thread = "receiving" /\ y.partner = i /\ y.node = trans[j].node
        /\ y.peer = trans[j].peer /\ y.type = "RECEIVE" /\ y.file = f
    BY <1>1, Zenon DEF Sound, Fields
  <2>5. Sound(disk, x) /\ Sound(disk, y)
    BY <1>1, Zenon DEF Sound, Fields
  <2> HIDE DEF x, y, j, f
  <2>6. ASSUME NEW k \in DOMAIN trans
        PROVE  Sound(disk', trans'[k]) /\ Paired(trans', k)
    <3>1. CASE k = i
      <4>1. trans'[i] = x /\ trans'[j] = y /\ j \in DOMAIN trans'
        BY <1>1, <2>1, Zenon DEF Replaced
      <4> QED
        BY <3>1, <4>1, <1>1, <2>3, <2>4, <2>5 DEF Paired
    <3>3. CASE k = j
      <4>1. trans'[i] = x /\ trans'[j] = y /\ i \in DOMAIN trans'
        BY <1>1, <2>1, Zenon DEF Replaced
      <4> QED
        BY <3>3, <4>1, <1>1, <2>3, <2>4, <2>5 DEF Paired
    <3>2. CASE k # i /\ k # j
      <4>1. Sound(disk, trans[k]) /\ Paired(trans, k)
        BY DEF TransfersOK
      <4>2. ASSUME trans[k].thread \in {"connected", "receiving"}
            PROVE  trans[k].partner \notin {i, j}
        BY <4>1, <4>2, <3>2, <1>1, Zenon DEF Paired, j
      <4> QED
        BY <3>2, <4>1, <4>2, <2>1, <2>3, Zenon DEF Paired, Replaced
    <3> QED
      BY <3>1, <3>2, <3>3
  <2> QED
    BY <2>1, <2>2, <2>6, Zenon DEF TransfersOK, Replaced
<1> QED
  BY <1>2, <1>3, Zenon

-----------------------------------------------------------------------------
\* The invariant holds when the nodes start: nothing travels, and every file is
\* where it was published.
LEMMA InitInv == Init => Inv
<1> SUFFICES ASSUME Init PROVE Inv
  OBVIOUS
<1>1. PICK start \in Starts :
        disk = [n \in Addr |-> [f \in File |->
                  IF n = start.source[f] THEN "original" ELSE "none"]]
  BY Zenon DEF Init
<1>2. start.source \in [File -> Addr]
  BY DHashAssumption
<1>3. DiskType /\ PublishedFilesSurvive
  BY <1>1, <1>2 DEF DiskType, PublishedFilesSurvive
<1>4. PacketsOK
  BY Zenon DEF Init, PacketsOK, NoPackets, Packets
<1>5. TransfersOK
  BY DEF Init, TransfersOK
<1> QED
  BY <1>3, <1>4, <1>5 DEF Inv

\* The event of a transfer is handled: the transfer is freed, or forgotten.
LEMMA HandledSound ==
  ASSUME NEW d, NEW t, Sound(d, t), t.event # "none", t.thread = "returned"
  PROVE  /\ Sound(d, [t EXCEPT !.event = "none"])
         /\ [t EXCEPT !.event = "none"].thread = "returned"
         /\ Sound(d, free_transfer([t EXCEPT !.event = "none"]))
         /\ free_transfer([t EXCEPT !.event = "none"]).thread = "returned"
BY DEF Sound, Fields, free_transfer

\* Steps of the event loops: packets are handled, requests are taken, events fire.
LEMMA EventLoopInv ==
  ASSUME Inv,
         \/ \E n \in Addr, f \in File : ClientRequest(n, f)
         \/ \E p \in Packets(net) : Receive(p) \/ Duplicate(p) \/ BindFails(p) \/ Lose(p)
         \/ \E i \in DOMAIN trans : Callback(i)
  PROVE  Inv'
<1>0. /\ UNCHANGED disk
      /\ DiskType' /\ PublishedFilesSurvive'
  BY Zenon DEF Inv, ClientRequest, Receive, Duplicate, Handle, BindFails, Lose, Callback,
         DiskType, PublishedFilesSurvive
<1>1. \A p : Packets(Without(p)) \subseteq Packets(net)
  BY TakenPackets DEF Without
<1>2. ASSUME NEW n \in Addr, NEW f \in File, ClientRequest(n, f)
      PROVE  Inv'
  <2> DEFINE e == dhash_process_client_request(n, f)
  <2>1. CASE dhash_local_file_exists(n, f)
    <3>1. Benign(disk, e)
      BY <2>1 DEF dhash_process_client_request, Benign, Effect
    <3> QED
      BY <3>1, <1>0, <1>2, CarryKeeps, Zenon DEF ClientRequest, Inv
  <2>2. CASE ~dhash_local_file_exists(n, f)
    <3>1. MayReceive(disk, n, f)
      BY <2>2, MissingMayReceive
    <3>2. e = Effect(dhash_send_query(n, f), <<>>, <<>>, 0)
      BY <2>2 DEF dhash_process_client_request
    <3>3. Benign(disk, e)
      BY <3>1, <3>2, QueryHarmless DEF Benign, Effect
    <3> QED
      BY <3>3, <1>0, <1>2, CarryKeeps, Zenon DEF ClientRequest, Inv
  <2> QED
    BY <2>1, <2>2
<1>3. ASSUME NEW p \in Packets(net), NEW kept, Packets(kept) \subseteq Packets(net),
             Handle(p, kept)
      PROVE  Inv'
  <2>1. Benign(disk, dhash_unpack_chord_data(p.to, p))
    BY HandlersBenign DEF Inv, PacketsOK
  <2> QED
    BY <1>0, <1>3, <2>1, CarryKeeps DEF Handle, Inv
<1>4. ASSUME NEW p \in Packets(net), BindFails(p)
      PROVE  Inv'
  <2> DEFINE e == dhash_unpack_chord_data(p.to, p)
  <2>1. Benign(disk, e)
    BY HandlersBenign DEF Inv, PacketsOK
  <2>2. Packets(net') \subseteq Packets(net) \cup e.out
    BY <1>1, <1>4, SentPackets, Zenon DEF BindFails
  <2>3. PacketsOK'
    BY <1>0, <2>1, <2>2, Zenon DEF Inv, PacketsOK, Benign
  <2>4. TransfersOK'
    BY <1>0, <1>4, Zenon DEF BindFails, Inv, TransfersOK
  <2> QED
    BY <1>0, <2>3, <2>4 DEF Inv
<1>5. ASSUME NEW p \in Packets(net), Lose(p)
      PROVE  Inv'
  BY <1>0, <1>1, <1>5, Zenon DEF Lose, Inv, PacketsOK, TransfersOK
<1>6. ASSUME NEW i \in DOMAIN trans, Callback(i)
      PROVE  Inv'
  <2> DEFINE t == trans[i]
  <2>1. /\ t.event # "none" /\ t.event \in {"success", "fail"}
        /\ Sound(disk, t) /\ t.thread = "returned"
    <3>1. t.event = "success" \/ t.event = "fail"
      BY <1>6, CallbackShape, Zenon
    <3>2. Sound(disk, t)
      BY DEF Inv, TransfersOK
    <3> QED
      BY <3>1, <3>2, Zenon DEF Sound
  <2>2. PICK x \in {free_transfer([t EXCEPT !.event = "none"]), [t EXCEPT !.event = "none"]} :
          trans' = [trans EXCEPT ![i] = x]
    BY <1>6, CallbackShape, Zenon
  <2>3. Sound(disk, x) /\ x.thread = "returned"
    <3> DEFINE a == [t EXCEPT !.event = "none"]
               b == free_transfer([t EXCEPT !.event = "none"])
    <3>1. Sound(disk, a) /\ a.thread = "returned" /\ Sound(disk, b) /\ b.thread = "returned"
      BY <2>1, HandledSound, Zenon
    <3>2. x = a \/ x = b
      BY <2>2
    <3> HIDE DEF a, b
    <3> QED
      BY <3>1, <3>2
  <2>4. TransfersOK'
    BY <1>0, <2>1, <2>2, <2>3, ReturnedKeeps, Zenon DEF Inv
  <2>5. net' = net \/ net' = Sent(net, dhash_send_push(t.node, t.file))
    BY <1>6, CallbackShape, Zenon
  <2>6. PacketsOK'
    BY <1>0, <2>5, SentPackets, PushHarmless DEF Inv, PacketsOK
  <2> QED
    BY <1>0, <2>4, <2>6 DEF Inv
<1> QED
  BY <1>1, <1>2, <1>3, <1>4, <1>5, <1>6, Zenon DEF Receive, Duplicate

\* Steps of the transfer threads.
LEMMA ThreadInv ==
  ASSUME Inv, NEW i \in DOMAIN trans,
         Rendezvous(i) \/ ConnectFails(i) \/ Opens(i) \/ Copies(i) \/ StreamError(i)
  PROVE  Inv'
<1>1. UNCHANGED net
  BY Zenon DEF Rendezvous, ConnectFails, Opens, Copies, StreamError
<1>2. ASSUME UNCHANGED disk, TransfersOK'
      PROVE  Inv'
  BY <1>1, <1>2, Zenon DEF Inv, DiskType, PublishedFilesSurvive, PacketsOK
<1>3. ASSUME DiskType', PublishedFilesSurvive', TransfersOK',
             \A n, f : MayReceive(disk, n, f) => MayReceive(disk', n, f)
      PROVE  Inv'
  BY <1>1, <1>3, MayReceiveKeeps DEF Inv, PacketsOK
<1>4. CASE Rendezvous(i)
  BY <1>2, <1>4, RendezvousKeeps, Zenon DEF Rendezvous, Inv
<1>5. CASE ConnectFails(i)
  <2> DEFINE x == transfer_connect_fails(trans[i])
  <2>1. /\ trans[i].thread = "connecting" /\ UNCHANGED disk
        /\ trans' = [trans EXCEPT ![i] = x]
        /\ Sound(disk, trans[i])
    BY <1>5, Zenon DEF ConnectFails, Working, Inv, TransfersOK
  <2>2. Sound(disk, x) /\ x.thread = "returned"
    BY <2>1 DEF transfer_connect_fails, Sound, Fields
  <2> QED
    BY <1>2, <2>1, <2>2, ReturnedKeeps, Zenon DEF Inv
<1>6. CASE Opens(i)
  BY <1>3, <1>6, OpensKeeps, Zenon DEF Inv
<1>7. CASE Copies(i)
  <2> DEFINE j == trans[i].partner
             m == trans[i].peer
             f == trans[i].file
  <2>1. trans[i].thread = "receiving" /\ trans[i].type = "SEND" /\ Ends(i, TRUE)
    BY <1>7, Zenon DEF Copies, Working
  <2>2. MayReceive(disk, m, f)
    BY <2>1 DEF Inv, TransfersOK, Paired, Sound
  <2>3. PICK c \in {"part", "copy"} : disk' = [disk EXCEPT ![m][f] = c]
    BY <1>7, Zenon DEF Copies
  <2>4. /\ DiskType' /\ PublishedFilesSurvive'
        /\ \A n, g : MayReceive(disk, n, g) => MayReceive(disk', n, g)
    BY <2>2, <2>3, OverwriteKeeps, Zenon DEF Inv
  <2>5. TransfersOK'
    BY <2>1, <2>4, MayReceiveKeeps, EndsKeeps, Zenon DEF Inv
  <2> QED
    BY <1>3, <2>4, <2>5, Zenon
<1>8. CASE StreamError(i)
  <2>1. /\ trans[i].thread \in {"connected", "receiving"}
        /\ Ends(i, FALSE) /\ UNCHANGED disk
    BY <1>8, Zenon DEF StreamError, Working
  <2>2. TransfersOK'
    BY <2>1, EndsKeeps, Zenon DEF Inv
  <2> QED
    BY <1>2, <2>1, <2>2, Zenon
<1> QED
  BY <1>4, <1>5, <1>6, <1>7, <1>8

\* The invariant holds in every state of every behaviour.
THEOREM AlwaysInv == Spec => []Inv
<1>1. Inv /\ [Next]_vars => Inv'
  <2> SUFFICES ASSUME Inv, [Next]_vars PROVE Inv'
    OBVIOUS
  <2>1. CASE Next
    BY <2>1, EventLoopInv, ThreadInv DEF Next
  <2>2. CASE UNCHANGED vars
    BY <2>2 DEF vars, Inv, DiskType, PublishedFilesSurvive, PacketsOK, TransfersOK
  <2> QED
    BY <2>1, <2>2
<1> QED
  BY <1>1, InitInv, PTL DEF Spec

\* Whatever queries, pushes, duplicates, failing transfers and crashes do, a node
\* that published a file keeps it (dhash_process_push, dhash_process_query).
THEOREM FilesSurvive == Spec => []PublishedFilesSurvive
<1>1. Inv => PublishedFilesSurvive
  BY DEF Inv
<1> QED
  BY <1>1, AlwaysInv, PTL

\* No transfer is freed twice, or while its thread runs or an event for it is
\* pending (transfer_connect, receive_success, receive_fail).
THEOREM FreedOnce == Spec => []TransfersFreedOnce
<1>1. Inv => TransfersFreedOnce
  BY DEF Inv, TransfersOK, Sound, TransfersFreedOnce
<1> QED
  BY <1>1, AlwaysInv, PTL

-----------------------------------------------------------------------------
\* What is counted and told.
Code == {"LOCAL", "SUCCESS", "FAILURE"}

CountersTyped ==
  /\ asked \in [Addr -> Nat] /\ answers \in [Addr -> Seq(Code)]
  /\ dups \in Nat /\ faults \in 0 .. MaxFaults
  /\ mishap \subseteq {"crash", "packet", "content", "connect", "stream"}

\* A handler gives the client one code or none.
LEMMA OneCode ==
  ASSUME NEW p, p.payload.type \in PayloadType
  PROVE  dhash_unpack_chord_data(p.to, p).codes \in {<<>>, <<"FAILURE">>}
<1> DEFINE e == dhash_unpack_chord_data(p.to, p)
<1>1. \A o, s, c, r : e = Effect(o, s, c, r) => e.codes = c
  BY DEF Effect
<1>2. CASE ReplyMissing(p)
  BY <1>1, <1>2 DEF ReplyMissing, HandledAs
<1>3. CASE QueryFound(p) \/ QueryMissing(p) \/ QueryOnward(p) \/ ReplyFound(p)
  <2>1. e.codes = <<>>
    BY <1>1, <1>3, Zenon DEF QueryFound, QueryMissing, QueryOnward, ReplyFound, HandledAs
  <2> QED
    BY <2>1
<1>4. CASE PushKnown(p) \/ PushTaken(p) \/ PushReplied(p)
  <2>1. e.codes = <<>>
    BY <1>1, <1>4, Zenon DEF PushKnown, PushTaken, PushReplied, HandledAs
  <2> QED
    BY <2>1
<1> QED
  BY <1>2, <1>3, <1>4, HandlerPaths, Zenon

\* A node's codes are added to those its client has been given.
LEMMA AnswersTyped ==
  ASSUME CountersTyped, NEW m, NEW codes \in {<<>>} \cup {<<c>> : c \in Code},
         answers' = [answers EXCEPT ![m] = @ \o codes]
  PROVE  answers' \in [Addr -> Seq(Code)]
<1>1. codes \in Seq(Code)
  <2>1. ASSUME NEW c \in Code, codes = <<c>>
        PROVE  codes \in Seq(Code)
    BY <2>1
  <2>2. <<>> \in Seq(Code)
    OBVIOUS
  <2>3. codes = <<>> \/ \E c \in Code : codes = <<c>>
    BY Zenon
  <2> QED
    BY <2>1, <2>2, <2>3, Zenon
<1>2. answers \in [Addr -> Seq(Code)]
  BY Zenon DEF CountersTyped
<1>3. \A n \in Addr : answers[n] \o codes \in Seq(Code)
  BY <1>1, <1>2
<1> QED
  BY <1>2, <1>3, Zenon

\* Every step keeps the counters and the answers to their types.
LEMMA CountersKept ==
  ASSUME Inv, CountersTyped, Next
  PROVE  CountersTyped'
<1>1. MaxFaults \in Nat
  BY DHashAssumption
<1>2. ASSUME NEW m \in Addr, NEW f \in File, ClientRequest(m, f)
      PROVE  CountersTyped'
  <2> DEFINE e == dhash_process_client_request(m, f)
  <2>1. /\ answers' = [answers EXCEPT ![m] = @ \o e.codes]
        /\ asked' = [asked EXCEPT ![m] = @ + 1]
        /\ UNCHANGED <<dups, faults, mishap>>
    BY <1>2, Zenon DEF ClientRequest, Carry
  <2>2. e.codes \in {<<>>, <<"LOCAL">>}
    BY DEF dhash_process_client_request, Effect
  <2> HIDE DEF e
  <2>3. answers' \in [Addr -> Seq(Code)]
    BY <2>1, <2>2, AnswersTyped, ZenonT(30) DEF Code
  <2>4. asked' \in [Addr -> Nat]
    BY <2>1 DEF CountersTyped
  <2> QED
    BY <2>1, <2>3, <2>4, Zenon DEF CountersTyped
<1>3. ASSUME NEW p \in Packets(net), Receive(p) \/ Duplicate(p)
      PROVE  CountersTyped'
  <2> DEFINE e == dhash_unpack_chord_data(p.to, p)
  <2>1. /\ answers' = [answers EXCEPT ![p.to] = @ \o e.codes]
        /\ UNCHANGED <<asked, faults>> /\ (dups' = dups \/ dups' = dups + 1)
        /\ mishap' = mishap \/ mishap' = mishap \cup {"packet"}
    BY <1>3, Zenon DEF Receive, Duplicate, Handle, Carry
  <2>2. e.codes \in {<<>>, <<"FAILURE">>}
    BY OneCode, Zenon DEF Inv, PacketsOK, Harmless
  <2> HIDE DEF e
  <2>a. e.codes \in {<<>>} \cup {<<c>> : c \in Code}
    BY <2>2, Zenon DEF Code
  <2>3. answers' \in [Addr -> Seq(Code)]
    BY <2>1, <2>a, AnswersTyped, Zenon
  <2>4. dups' \in Nat
    BY <2>1 DEF CountersTyped
  <2> QED
    BY <2>1, <2>3, <2>4, Zenon DEF CountersTyped
<1>4. ASSUME NEW i \in DOMAIN trans, Callback(i)
      PROVE  CountersTyped'
  <2> DEFINE m == trans[i].node
  <2>1. /\ \/ answers' = answers
           \/ \E c \in Code : answers' = [answers EXCEPT ![m] = Append(@, c)]
        /\ UNCHANGED <<asked, dups, faults>>
        /\ mishap' = mishap \/ mishap' = mishap \cup {"content"}
    BY <1>4, CallbackShape, Zenon DEF Code
  <2>2. answers \in [Addr -> Seq(Code)]
    BY DEF CountersTyped
  <2>3. \A n \in Addr, c \in Code : Append(answers[n], c) \in Seq(Code)
    BY <2>2
  <2>4. ASSUME NEW c \in Code, answers' = [answers EXCEPT ![m] = Append(@, c)]
        PROVE  answers' \in [Addr -> Seq(Code)]
    BY <2>2, <2>3, <2>4, Zenon
  <2>5. answers' \in [Addr -> Seq(Code)]
    BY <2>1, <2>2, <2>4, Zenon
  <2> QED
    BY <2>1, <2>5, Zenon DEF CountersTyped
<1>5. ASSUME UNCHANGED <<asked, answers, dups>>,
             faults' = faults \/ (faults < MaxFaults /\ faults' = faults + 1),
             mishap' \subseteq mishap \cup {"crash", "packet", "connect", "stream"}
      PROVE  CountersTyped'
  <2>1. faults' \in 0 .. MaxFaults
    BY <1>1, <1>5 DEF CountersTyped
  <2> QED
    BY <1>5, <2>1 DEF CountersTyped
<1>6. ASSUME NEW p \in Packets(net), BindFails(p) \/ Lose(p)
      PROVE  CountersTyped'
  BY <1>5, <1>6, Zenon DEF BindFails, Lose, Fault
<1>7. ASSUME NEW i \in DOMAIN trans,
             Rendezvous(i) \/ ConnectFails(i) \/ Opens(i) \/ Copies(i) \/ StreamError(i)
      PROVE  CountersTyped'
  BY <1>5, <1>7, Zenon DEF Rendezvous, ConnectFails, Opens, Copies, StreamError, Fault
<1> QED
  BY <1>2, <1>3, <1>4, <1>6, <1>7 DEF Next

\* The counters and the answers have their types in every state of every behaviour.
THEOREM AlwaysCounted == Spec => []CountersTyped
<1>1. Init => CountersTyped
  BY DHashAssumption DEF Init, CountersTyped
<1>2. Inv /\ CountersTyped /\ [Next]_vars => CountersTyped'
  <2> SUFFICES ASSUME Inv, CountersTyped, [Next]_vars PROVE CountersTyped'
    OBVIOUS
  <2>1. CASE UNCHANGED vars
    BY <2>1 DEF vars, CountersTyped
  <2> QED
    BY <2>1, CountersKept
<1> QED
  BY <1>1, <1>2, AlwaysInv, PTL DEF Spec
-----------------------------------------------------------------------------
(***************************************************************************)
(* A client is owed an answer by every copy of its node's queries and of   *)
(* the replies to them, and by every transfer that will call back.  A step *)
(* turns one debt into another or into an answer; only a request or a      *)
(* duplicated packet makes one more.                                       *)
(***************************************************************************)
OwedTo(p, n) ==
  \/ p.payload.type = "QUERY" /\ p.payload.reply_addr = n
  \/ p.payload.type \in {"QUERY_REPLY_SUCCESS", "QUERY_REPLY_FAILURE"} /\ p.to = n

\* The copies of packets that owe an answer.
OnTheWay(nt, n) ==
  {c \in Packets(nt) \X Nat : OwedTo(c[1], n) /\ c[2] \in 1 .. nt[c[1]]}

\* The transfers that do.
UnderWay(ts, n) ==
  {i \in DOMAIN ts : /\ ts[i].callbacks /\ ts[i].node = n
                     /\ ts[i].thread # "returned" \/ ts[i].event # "none"}

\* The sum of what node n's client is owed and what it has been told.
Claims(n) == Cardinality(OnTheWay(net, n)) + Cardinality(UnderWay(trans, n)) + Len(answers[n])

IsBag(nt) == nt \in [DOMAIN nt -> Nat \ {0}]

DebtsBounded ==
  /\ IsBag(net)
  /\ \A n \in Addr : IsFiniteSet(OnTheWay(net, n)) /\ Claims(n) <= asked[n] + dups

\* What a set loses or gains, its cardinality does.
LEMMA Counting ==
  ASSUME NEW S, IsFiniteSet(S), NEW T, NEW x
  PROVE  /\ Cardinality(S) \in Nat
         /\ T \subseteq S => IsFiniteSet(T) /\ Cardinality(T) \in Nat /\ Cardinality(T) <= Cardinality(S)
         /\ T \subseteq S \ {x} /\ x \in S =>
              IsFiniteSet(T) /\ Cardinality(T) \in Nat /\ Cardinality(T) + 1 <= Cardinality(S)
         /\ T \subseteq S \cup {x} =>
              IsFiniteSet(T) /\ Cardinality(T) \in Nat /\ Cardinality(T) <= Cardinality(S) + 1
<1>1. Cardinality(S) \in Nat
  BY FS_CardinalityType
<1>2. /\ IsFiniteSet(S \ {x}) /\ Cardinality(S \ {x}) \in Nat
      /\ x \in S => Cardinality(S \ {x}) = Cardinality(S) - 1
  BY FS_RemoveElement, FS_CardinalityType, Zenon
<1>3. /\ IsFiniteSet(S \cup {x}) /\ Cardinality(S \cup {x}) \in Nat
      /\ Cardinality(S \cup {x}) <= Cardinality(S) + 1
  BY <1>1, FS_AddElement, FS_CardinalityType
<1>4. \A U : IsFiniteSet(U) /\ T \subseteq U =>
        IsFiniteSet(T) /\ Cardinality(T) \in Nat /\ Cardinality(T) <= Cardinality(U)
  BY FS_Subset, FS_CardinalityType, Zenon
<1> QED
  BY <1>1, <1>2, <1>3, <1>4

\* A packet that is taken from the network is one copy less.
LEMMA TakenCopy ==
  ASSUME NEW B, IsBag(B), NEW p \in Packets(B), NEW n
  PROVE  LET C == Taken(B, p)
         IN  /\ IsBag(C)
             /\ OnTheWay(C, n) \subseteq OnTheWay(B, n) \ {<<p, B[p]>>}
             /\ OwedTo(p, n) => <<p, B[p]>> \in OnTheWay(B, n)
<1> DEFINE left(q) == IF q = p THEN B[q] - 1 ELSE B[q]
           C == Taken(B, p)
<1>1. /\ Packets(B) = DOMAIN B
      /\ \A q \in DOMAIN B : B[q] \in Nat /\ B[q] > 0
  BY DEF IsBag, Packets
<1>2. C = [q \in {r \in DOMAIN B : left(r) > 0} |-> left(q)]
  BY DEF Taken, Packets
<1>3. /\ DOMAIN C \subseteq DOMAIN B
      /\ \A q \in DOMAIN C : C[q] = left(q) /\ C[q] > 0
  BY <1>2
<1> HIDE DEF C
<1>4. \A q \in DOMAIN C : C[q] \in Nat /\ C[q] <= B[q] /\ (q = p => C[q] < B[q])
  BY <1>1, <1>3
<1>5. IsBag(C)
  <2>1. C = [q \in DOMAIN C |-> C[q]]
    BY <1>2 DEF C
  <2> QED
    BY <1>3, <1>4, <2>1 DEF IsBag
<1>6. ASSUME NEW c \in OnTheWay(C, n)
      PROVE  c \in OnTheWay(B, n) /\ c # <<p, B[p]>>
  <2>1. /\ c \in (DOMAIN C) \X Nat /\ OwedTo(c[1], n) /\ c[2] \in 1 .. C[c[1]]
        /\ c[1] \in DOMAIN C
    BY <1>6 DEF OnTheWay, Packets
  <2>2. c \in (DOMAIN B) \X Nat /\ c[2] \in 1 .. B[c[1]]
    BY <1>1, <1>3, <1>4, <2>1
  <2>3. c[1] = p => c[2] # B[p]
    BY <1>1, <1>3, <1>4, <2>1
  <2> QED
    BY <2>1, <2>2, <2>3 DEF OnTheWay, Packets
<1>7. OwedTo(p, n) => <<p, B[p]>> \in OnTheWay(B, n)
  BY <1>1 DEF OnTheWay
<1> QED
  BY <1>5, <1>6, <1>7 DEF C

\* Packets that are put on the network are one copy more each.
LEMMA SentCopies ==
  ASSUME NEW B, IsBag(B), NEW out, NEW n
  PROVE  LET C == Sent(B, out)
         IN  /\ IsBag(C)
             /\ (\A q \in out : ~OwedTo(q, n)) => OnTheWay(C, n) \subseteq OnTheWay(B, n)
             /\ \A q : out = {q} => \E x : OnTheWay(C, n) \subseteq OnTheWay(B, n) \cup {x}
<1> DEFINE had(q) == IF q \in DOMAIN B THEN B[q] ELSE 0
           C == Sent(B, out)
<1>1. /\ Packets(B) = DOMAIN B
      /\ \A q \in DOMAIN B : B[q] \in Nat /\ B[q] > 0
      /\ \A q : had(q) \in Nat
  BY DEF IsBag, Packets
<1>2. C = [q \in DOMAIN B \cup out |-> had(q) + (IF q \in out THEN 1 ELSE 0)]
  BY DEF Sent, Packets
<1>3. /\ DOMAIN C = DOMAIN B \cup out
      /\ \A q \in DOMAIN C : C[q] = had(q) + (IF q \in out THEN 1 ELSE 0)
      /\ C = [q \in DOMAIN C |-> C[q]]
  BY <1>2
<1> HIDE DEF C
<1>4. \A q \in DOMAIN C : /\ C[q] \in Nat /\ C[q] > 0
                          /\ C[q] <= had(q) + 1
                          /\ q \notin out => q \in DOMAIN B /\ C[q] = B[q]
  BY <1>1, <1>3
<1>5. IsBag(C)
  BY <1>3, <1>4 DEF IsBag
<1>6. ASSUME NEW c \in OnTheWay(C, n), c \notin OnTheWay(B, n)
      PROVE  c[1] \in out /\ OwedTo(c[1], n) /\ c = <<c[1], had(c[1]) + 1>>
  <2>1. /\ c \in (DOMAIN C) \X Nat /\ OwedTo(c[1], n) /\ c[2] \in 1 .. C[c[1]]
        /\ c[1] \in DOMAIN C /\ c = <<c[1], c[2]>>
    BY <1>6 DEF OnTheWay, Packets
  <2>2. c[1] \in DOMAIN B => ~(c[2] \in 1 .. B[c[1]])
    BY <1>6, <2>1, Zenon DEF OnTheWay, Packets
  <2>3. c[1] \in out
    BY <1>4, <2>1, <2>2, Zenon
  <2>4. c[2] = had(c[1]) + 1
    BY <1>1, <1>4, <2>1, <2>2
  <2> QED
    BY <2>1, <2>3, <2>4, Zenon
<1>7. ASSUME NEW q, out = {q}
      PROVE  \E x : OnTheWay(C, n) \subseteq OnTheWay(B, n) \cup {x}
  <2>1. OnTheWay(C, n) \subseteq OnTheWay(B, n) \cup {<<q, had(q) + 1>>}
    BY <1>6, <1>7, Zenon
  <2> QED
    BY <2>1
<1>8. (\A q \in out : ~OwedTo(q, n)) => OnTheWay(C, n) \subseteq OnTheWay(B, n)
  BY <1>6
<1> QED
  BY <1>5, <1>7, <1>8, Zenon DEF C
-----------------------------------------------------------------------------
\* What a handler at node m makes node n's client be owed, or be told.
SendsOwed(e, n) == \E q \in e.out : OwedTo(q, n)

StartsOwed(e, n) == \E t : e.started = <<t>> /\ t.callbacks /\ t.node = n

Tells(e, m, n) == m = n /\ e.codes # <<>>

\* At most one thing of each kind, at most one of them for n's client, and none
\* unless due.
Modest(e, m, n, due) ==
  /\ e.out = {} \/ \E q : e.out = {q}
  /\ e.started = <<>> \/ \E t : e.started = <<t>> /\ t.thread # "returned"
  /\ e.codes = <<>> \/ \E c \in Code : e.codes = <<c>>
  /\ ~due => ~SendsOwed(e, n) /\ ~StartsOwed(e, n) /\ ~Tells(e, m, n)
  /\ SendsOwed(e, n) => ~StartsOwed(e, n) /\ ~Tells(e, m, n)
  /\ StartsOwed(e, n) => ~Tells(e, m, n)

\* What send_chord_pkt_directly sends.
Reply(m, to, payload) ==
  Data(send_data(srv[m], FALSE, DATA_TTL, to, get_address_id(to)), payload)

\* A reply is one packet, to the node it is for.
LEMMA OneReply ==
  ASSUME NEW m, NEW to, NEW f, NEW type
  PROVE  LET q == Reply(m, to, Payload(type, f, NULL))
         IN  /\ q.to = to /\ q.payload.type = type
             /\ type = "QUERY_REPLY_SUCCESS" => dhash_send_query_reply_success(m, to, f) = {q}
             /\ type = "QUERY_REPLY_FAILURE" => dhash_send_query_reply_failure(m, to, f) = {q}
             /\ type = "PUSH_REPLY" => dhash_send_push_reply(m, to, f) = {q}
<1>1. /\ Payload(type, f, NULL).type = type
      /\ \A payload : /\ Reply(m, to, payload).to = to
                      /\ Reply(m, to, payload).payload = payload
  BY Zenon DEF Payload, Reply, Data, send_data
<1>2. \A payload : send_chord_pkt_directly(m, to, payload) = {Reply(m, to, payload)}
  BY DEF send_chord_pkt_directly, Reply
<1> QED
  BY <1>1, <1>2, Zenon DEF dhash_send_query_reply_success, dhash_send_query_reply_failure,
                           dhash_send_push_reply

\* A routed packet is one, or none.
LEMMA OneRouted ==
  ASSUME NEW m, NEW payload
  PROVE  SendRouted(m, payload) = {} \/ \E q : SendRouted(m, payload) = {q}
BY Zenon DEF SendRouted

\* So is what process_data sends.
LEMMA OneOnward ==
  ASSUME NEW p
  PROVE  Onward(p) = {} \/ \E q : Onward(p) = {q}
<1>1. process_data(srv[p.to], p).out = {} \/ \E q : process_data(srv[p.to], p).out = {q}
  BY Zenon DEF process_data, Dropped, Result
<1>2. CASE process_data(srv[p.to], p).out = {}
  BY <1>2, Zenon DEF Onward
<1>3. ASSUME NEW q, process_data(srv[p.to], p).out = {q}
      PROVE  Onward(p) = {Data(q, p.payload)}
  BY <1>3 DEF Onward
<1> QED
  BY <1>1, <1>2, <1>3, Zenon

\* What a client is owed by one packet, one transfer or one code.
LEMMA Owing ==
  ASSUME NEW e, NEW m, NEW n
  PROVE  /\ e.out = {} => ~SendsOwed(e, n)
         /\ \A q : e.out = {q} => (SendsOwed(e, n) <=> OwedTo(q, n))
         /\ e.started = <<>> => ~StartsOwed(e, n)
         /\ \A t : e.started = <<t>> => (StartsOwed(e, n) <=> t.callbacks /\ t.node = n)
         /\ e.codes = <<>> => ~Tells(e, m, n)
         /\ \A c : e.codes = <<c>> => (Tells(e, m, n) <=> m = n)
<1>1. \A t, u : <<t>> = <<u>> => t = u
  OBVIOUS
<1>2. \A t : <<t>> # <<>>
  OBVIOUS
<1>3. /\ e.out = {} => ~SendsOwed(e, n)
      /\ \A q : e.out = {q} => (SendsOwed(e, n) <=> OwedTo(q, n))
  BY DEF SendsOwed
<1>4. /\ e.started = <<>> => ~StartsOwed(e, n)
      /\ \A t : e.started = <<t>> => (StartsOwed(e, n) <=> t.callbacks /\ t.node = n)
  BY <1>1, <1>2, Zenon DEF StartsOwed
<1>5. /\ e.codes = <<>> => ~Tells(e, m, n)
      /\ \A c : e.codes = <<c>> => (Tells(e, m, n) <=> m = n)
  BY <1>2, Zenon DEF Tells
<1> QED
  BY <1>3, <1>4, <1>5, Zenon

\* The threads handlers start: only a requested download calls back.
LEMMA StartedCallbacks ==
  ASSUME NEW m, NEW peer, NEW f
  PROVE  LET s == transfer_start_sending(new_transfer(m, peer))
             r == transfer_start_receiving(new_transfer(m, peer), f)
             c == transfer_start_receiving(transfer_set_callbacks(new_transfer(m, peer)), f)
         IN  /\ s.thread # "returned" /\ ~s.callbacks
             /\ r.thread # "returned" /\ ~r.callbacks
             /\ c.thread # "returned" /\ c.node = m
BY DEF transfer_start_sending, transfer_start_receiving, transfer_set_callbacks, new_transfer

\* A handler answers, or has answered, no more than its packet is due.
LEMMA HandlersModest ==
  ASSUME NEW p, p.payload.type \in PayloadType, NEW n
  PROVE  Modest(dhash_unpack_chord_data(p.to, p), p.to, n, OwedTo(p, n))
<1> DEFINE e == dhash_unpack_chord_data(p.to, p)
           f == p.payload.name
           a == p.payload.reply_addr
<1> SUFFICES Modest(e, p.to, n, OwedTo(p, n))
  OBVIOUS
<1>0. \A o, s, c, r : HandledAs(p, o, s, c, r) => e.out = o /\ e.started = s /\ e.codes = c
  BY DEF HandledAs, Effect
<1>1. CASE QueryFound(p)
  <2> DEFINE t == transfer_start_sending(new_transfer(p.to, a))
  <2>1. /\ e.out = dhash_send_query_reply_success(p.to, a, f)
        /\ e.started = <<t>> /\ e.codes = <<>> /\ p.payload.type = "QUERY"
    BY <1>1, <1>0, Zenon DEF QueryFound
  <2>2. t.thread # "returned" /\ ~t.callbacks
    BY StartedCallbacks
  <2> DEFINE q == Reply(p.to, a, Payload("QUERY_REPLY_SUCCESS", f, NULL))
  <2>3. e.out = {q} /\ q.to = a /\ q.payload.type = "QUERY_REPLY_SUCCESS"
    BY <2>1, OneReply
  <2> HIDE DEF e, q, t
  <2> QED
    BY <2>1, <2>2, <2>3, Owing, Zenon DEF Modest, OwedTo
<1>2. CASE QueryMissing(p)
  <2>1. /\ e.out = dhash_send_query_reply_failure(p.to, a, f)
        /\ e.started = <<>> /\ e.codes = <<>> /\ p.payload.type = "QUERY"
    BY <1>2, <1>0, Zenon DEF QueryMissing
  <2> DEFINE q == Reply(p.to, a, Payload("QUERY_REPLY_FAILURE", f, NULL))
  <2>2. e.out = {q} /\ q.to = a /\ q.payload.type = "QUERY_REPLY_FAILURE"
    BY <2>1, OneReply
  <2> HIDE DEF e, q
  <2> QED
    BY <2>1, <2>2, Owing, Zenon DEF Modest, OwedTo
<1>3. CASE QueryOnward(p)
  <2>1. /\ e.out = Onward(p)
        /\ e.started = <<>> /\ e.codes = <<>> /\ p.payload.type = "QUERY"
    BY <1>3, <1>0, Zenon DEF QueryOnward
  <2>2. \A q \in e.out : q.payload = p.payload
    BY <2>1, ForwardedPayload DEF Onward
  <2>3. e.out = {} \/ \E q : e.out = {q}
    BY <2>1, OneOnward, Zenon
  <2> HIDE DEF e
  <2>4. SendsOwed(e, n) => OwedTo(p, n)
    BY <2>1, <2>2, Zenon DEF SendsOwed, OwedTo
  <2>5. ~StartsOwed(e, n) /\ ~Tells(e, p.to, n)
    BY <2>1, Owing, Zenon
  <2> QED
    BY <2>1, <2>3, <2>4, <2>5, Zenon DEF Modest
<1>4. CASE ReplyFound(p)
  <2> DEFINE t == transfer_start_receiving(transfer_set_callbacks(new_transfer(p.to, p.from)), f)
  <2>1. /\ e.out = {} /\ e.started = <<t>> /\ e.codes = <<>>
        /\ p.payload.type = "QUERY_REPLY_SUCCESS"
    BY <1>4, <1>0, Zenon DEF ReplyFound
  <2>2. t.thread # "returned" /\ t.node = p.to
    BY StartedCallbacks
  <2> HIDE DEF e, t
  <2> QED
    BY <2>1, <2>2, Owing, Zenon DEF Modest, OwedTo
<1>5. CASE ReplyMissing(p)
  <2>1. /\ e.out = {} /\ e.started = <<>> /\ e.codes = <<"FAILURE">>
        /\ p.payload.type = "QUERY_REPLY_FAILURE"
    BY <1>5, <1>0, Zenon DEF ReplyMissing
  <2> HIDE DEF e
  <2> QED
    BY <2>1, Owing DEF Modest, OwedTo, Code
<1>6. CASE PushKnown(p)
  <2>1. e.out = {} /\ e.started = <<>> /\ e.codes = <<>>
    BY <1>6, <1>0, Zenon DEF PushKnown
  <2> HIDE DEF e
  <2> QED
    BY <2>1, Owing, Zenon DEF Modest
<1>7. CASE PushTaken(p)
  <2> DEFINE t == transfer_start_receiving(new_transfer(p.to, a), f)
  <2>1. /\ e.out = dhash_send_push_reply(p.to, a, f)
        /\ e.started = <<t>> /\ e.codes = <<>>
    BY <1>7, <1>0, Zenon DEF PushTaken
  <2>2. t.thread # "returned" /\ ~t.callbacks
    BY StartedCallbacks
  <2> DEFINE q == Reply(p.to, a, Payload("PUSH_REPLY", f, NULL))
  <2>3. e.out = {q} /\ q.payload.type = "PUSH_REPLY"
    BY <2>1, OneReply
  <2> HIDE DEF e, q, t
  <2> QED
    BY <2>1, <2>2, <2>3, Owing, Zenon DEF Modest, OwedTo
<1>8. CASE PushReplied(p)
  <2> DEFINE t == transfer_start_sending(new_transfer(p.to, p.from))
  <2>1. e.out = {} /\ e.started = <<t>> /\ e.codes = <<>>
    BY <1>8, <1>0, Zenon DEF PushReplied
  <2>2. t.thread # "returned" /\ ~t.callbacks
    BY StartedCallbacks
  <2> HIDE DEF e, t
  <2> QED
    BY <2>1, <2>2, Owing, Zenon DEF Modest
<1> QED
  BY <1>1, <1>2, <1>3, <1>4, <1>5, <1>6, <1>7, <1>8, HandlerPaths, Zenon

\* So does the handler of the client's request: its node owes it one answer.
LEMMA RequestModest ==
  ASSUME NEW m, NEW f, NEW n
  PROVE  Modest(dhash_process_client_request(m, f), m, n, m = n)
<1> DEFINE e == dhash_process_client_request(m, f)
<1> SUFFICES Modest(e, m, n, m = n)
  OBVIOUS
<1>1. CASE dhash_local_file_exists(m, f)
  <2>1. e.out = {} /\ e.started = <<>> /\ e.codes = <<"LOCAL">>
    BY <1>1 DEF dhash_process_client_request, Effect
  <2> HIDE DEF e
  <2> QED
    BY <2>1, Owing, Zenon DEF Modest, Code
<1>2. CASE ~dhash_local_file_exists(m, f)
  <2>1. /\ e.out = SendRouted(m, Payload("QUERY", f, m))
        /\ e.started = <<>> /\ e.codes = <<>>
    BY <1>2 DEF dhash_process_client_request, dhash_send_query, Effect
  <2>2. \A q \in e.out : q.payload.type = "QUERY" /\ q.payload.reply_addr = m
    BY <2>1, RoutedPayload DEF Payload
  <2>3. e.out = {} \/ \E q : e.out = {q}
    BY <2>1, OneRouted, Zenon
  <2> HIDE DEF e
  <2>4. SendsOwed(e, n) => m = n
    BY <2>2 DEF SendsOwed, OwedTo
  <2>5. ~StartsOwed(e, n) /\ ~Tells(e, m, n)
    BY <2>1, Owing, Zenon
  <2> QED
    BY <2>1, <2>3, <2>4, <2>5, Zenon DEF Modest
<1> QED
  BY <1>1, <1>2, Zenon
-----------------------------------------------------------------------------
\* What is put on the network owes at most one answer more.
LEMMA PutOwes ==
  ASSUME NEW e, NEW m, NEW n, NEW due, Modest(e, m, n, due),
         NEW kept, IsBag(kept), IsFiniteSet(OnTheWay(kept, n))
  PROVE  LET C == Sent(kept, e.out)
         IN  /\ IsBag(C) /\ IsFiniteSet(OnTheWay(C, n))
             /\ Cardinality(OnTheWay(C, n)) \in Nat
             /\ Cardinality(OnTheWay(C, n)) <= Cardinality(OnTheWay(kept, n)) + 1
             /\ ~SendsOwed(e, n) => Cardinality(OnTheWay(C, n)) <= Cardinality(OnTheWay(kept, n))
<1> DEFINE C == Sent(kept, e.out)
           S == OnTheWay(kept, n)
           T == OnTheWay(C, n)
<1>1. /\ IsBag(C)
      /\ ~SendsOwed(e, n) => T \subseteq S
      /\ \A q : e.out = {q} => \E x : T \subseteq S \cup {x}
  BY SentCopies, Zenon DEF SendsOwed
<1>2. T \subseteq S \/ \E x : T \subseteq S \cup {x}
  <2>1. CASE e.out = {}
    BY <2>1, <1>1, Zenon DEF SendsOwed
  <2>2. CASE \E q : e.out = {q}
    BY <2>2, <1>1, Zenon
  <2> QED
    BY <2>1, <2>2, Zenon DEF Modest
<1> HIDE DEF C, S, T
<1>3. IsFiniteSet(S)
  BY DEF S
<1>4. /\ Cardinality(S) \in Nat
      /\ T \subseteq S => IsFiniteSet(T) /\ Cardinality(T) \in Nat /\ Cardinality(T) <= Cardinality(S)
      /\ \A x : T \subseteq S \cup {x} =>
           IsFiniteSet(T) /\ Cardinality(T) \in Nat /\ Cardinality(T) <= Cardinality(S) + 1
  BY <1>3, Counting, Zenon
<1>5. IsFiniteSet(T) /\ Cardinality(T) \in Nat /\ Cardinality(T) <= Cardinality(S) + 1
  BY <1>2, <1>4
<1> QED
  BY <1>1, <1>4, <1>5, Zenon DEF C, S, T

\* There are finitely many transfers.
LEMMA UnderWayFinite ==
  ASSUME NEW X, NEW ts \in Seq(X), NEW n
  PROVE  IsFiniteSet(UnderWay(ts, n)) /\ Cardinality(UnderWay(ts, n)) \in Nat
<1>1. UnderWay(ts, n) \subseteq 1 .. Len(ts) /\ Len(ts) \in Nat
  BY DEF UnderWay
<1>2. IsFiniteSet(1 .. Len(ts))
  BY <1>1, FS_Interval
<1> QED
  BY <1>1, <1>2, Counting

\* A transfer that is started owes at most one answer more.
LEMMA StartOwes ==
  ASSUME NEW X, NEW ts \in Seq(X), NEW e, NEW m, NEW n, NEW due, Modest(e, m, n, due)
  PROVE  LET us == ts \o e.started
         IN  /\ Cardinality(UnderWay(us, n)) \in Nat
             /\ Cardinality(UnderWay(us, n)) <= Cardinality(UnderWay(ts, n)) + 1
             /\ ~StartsOwed(e, n) => Cardinality(UnderWay(us, n)) <= Cardinality(UnderWay(ts, n))
<1> DEFINE us == ts \o e.started
<1>1. IsFiniteSet(UnderWay(ts, n)) /\ Cardinality(UnderWay(ts, n)) \in Nat
  BY UnderWayFinite, Zenon
<1>2. CASE e.started = <<>>
  <2>1. us = ts
    BY <1>2
  <2> QED
    BY <1>1, <2>1
<1>3. ASSUME NEW t, e.started = <<t>>
      PROVE  /\ Cardinality(UnderWay(us, n)) \in Nat
             /\ Cardinality(UnderWay(us, n)) <= Cardinality(UnderWay(ts, n)) + 1
             /\ ~StartsOwed(e, n) => Cardinality(UnderWay(us, n)) <= Cardinality(UnderWay(ts, n))
  <2> DEFINE k == Len(ts) + 1
  <2>1. /\ DOMAIN us = DOMAIN ts \cup {k}
        /\ \A i \in DOMAIN ts : us[i] = ts[i]
        /\ us[k] = t
    BY <1>3, AppendTransfer
  <2> HIDE DEF us, k
  <2>2. UnderWay(us, n) \subseteq UnderWay(ts, n) \cup {k}
    BY <2>1, Zenon DEF UnderWay
  <2>3. ~StartsOwed(e, n) => UnderWay(us, n) \subseteq UnderWay(ts, n)
    <3>1. ~StartsOwed(e, n) => ~(t.callbacks /\ t.node = n)
      BY <1>3, Owing, Zenon
    <3> QED
      BY <2>1, <3>1, Zenon DEF UnderWay
  <2> QED
    BY <1>1, <2>2, <2>3, Counting
<1> QED
  BY <1>2, <1>3, Zenon DEF Modest

\* The codes a handler gives the client: one at most.
LEMMA CodesTyped ==
  ASSUME NEW e, NEW m, NEW n, NEW due, Modest(e, m, n, due)
  PROVE  e.codes \in Seq(Code) /\ Len(e.codes) <= 1 /\ (e.codes = <<>> => Len(e.codes) = 0)
<1>1. CASE e.codes = <<>>
  BY <1>1
<1>2. ASSUME NEW c \in Code, e.codes = <<c>>
      PROVE  e.codes \in Seq(Code) /\ Len(e.codes) <= 1 /\ e.codes # <<>>
  BY <1>2
<1> QED
  BY <1>1, <1>2, Zenon DEF Modest

\* The answers of a handler go to the client of its own node.
LEMMA TellOwes ==
  ASSUME CountersTyped, NEW e, NEW m, NEW n \in Addr, NEW due, Modest(e, m, n, due),
         answers' = [answers EXCEPT ![m] = @ \o e.codes]
  PROVE  /\ Len(answers'[n]) \in Nat
         /\ Len(answers'[n]) <= Len(answers[n]) + 1
         /\ ~Tells(e, m, n) => Len(answers'[n]) <= Len(answers[n])
<1>1. answers \in [Addr -> Seq(Code)]
  BY Zenon DEF CountersTyped
<1>2. e.codes \in Seq(Code) /\ Len(e.codes) <= 1 /\ (e.codes = <<>> => Len(e.codes) = 0)
  BY CodesTyped, Zenon
<1>3. /\ Len(answers[n] \o e.codes) = Len(answers[n]) + Len(e.codes)
      /\ Len(answers[n]) \in Nat /\ Len(e.codes) \in Nat
  BY <1>1, <1>2
<1>4. answers'[n] = IF m = n THEN answers[n] \o e.codes ELSE answers[n]
  BY <1>1, Zenon
<1>5. ~Tells(e, m, n) => m # n \/ Len(e.codes) = 0
  BY <1>2, Zenon DEF Tells
<1>6. CASE m = n
  <2>1. Len(answers'[n]) = Len(answers[n] \o e.codes)
    BY <1>4, <1>6, Zenon
  <2>2. Len(answers'[n]) = Len(answers[n]) + Len(e.codes)
    BY <1>3, <2>1, Zenon
  <2>3. ~Tells(e, m, n) => Len(e.codes) = 0
    BY <1>5, <1>6, Zenon
  <2> DEFINE l == Len(answers[n])
             c == Len(e.codes)
             k == Len(answers'[n])
  <2>4. k = l + c /\ l \in Nat /\ c \in Nat /\ c <= 1
    BY <1>2, <1>3, <2>2, Zenon
  <2> HIDE DEF l, c, k
  <2>5. k \in Nat /\ k <= l + 1 /\ (c = 0 => k <= l)
    BY <2>4
  <2> QED
    BY <2>3, <2>5, Zenon DEF l, c, k
<1>7. CASE m # n
  <2>1. Len(answers'[n]) = Len(answers[n])
    BY <1>4, <1>7, Zenon
  <2> DEFINE l == Len(answers[n])
             k == Len(answers'[n])
  <2>2. k = l /\ l \in Nat
    BY <1>3, <2>1, Zenon
  <2> HIDE DEF l, k
  <2>3. k \in Nat /\ k <= l + 1 /\ k <= l
    BY <2>2
  <2> QED
    BY <2>3, Zenon DEF l, k
<1> QED
  BY <1>6, <1>7, Zenon

\* All a handler does (Carry) owes a client at most one answer more, and that only
\* when one is due.
LEMMA CarryOwes ==
  ASSUME TransfersOK, CountersTyped, NEW e, NEW m, NEW n \in Addr, NEW due, Modest(e, m, n, due),
         NEW kept, IsBag(kept), IsFiniteSet(OnTheWay(kept, n)), Carry(m, e, kept)
  PROVE  /\ IsFiniteSet(OnTheWay(net', n)) /\ Claims(n)' \in Nat
         /\ Claims(n)' <= Cardinality(OnTheWay(kept, n)) + Cardinality(UnderWay(trans, n))
                            + Len(answers[n]) + (IF due THEN 1 ELSE 0)
<1> DEFINE w == Cardinality(OnTheWay(kept, n))
           u == Cardinality(UnderWay(trans, n))
           l == Len(answers[n])
           ww == Cardinality(OnTheWay(net', n))
           uu == Cardinality(UnderWay(trans', n))
           ll == Len(answers'[n])
<1>1. /\ IsFiniteSet(OnTheWay(net', n))
      /\ ww \in Nat /\ ww <= w + 1 /\ (~SendsOwed(e, n) => ww <= w)
  BY PutOwes, Zenon DEF Carry
<1>2. PICK X : trans \in Seq(X)
  BY DEF TransfersOK
<1>3. uu \in Nat /\ uu <= u + 1 /\ (~StartsOwed(e, n) => uu <= u)
  BY <1>2, StartOwes, Zenon DEF Carry
<1>4. ll \in Nat /\ ll <= l + 1 /\ (~Tells(e, m, n) => ll <= l)
  BY TellOwes, Zenon DEF Carry
<1>5. w \in Nat /\ u \in Nat /\ l \in Nat
  <2>1. w \in Nat
    BY FS_CardinalityType, Zenon
  <2>2. u \in Nat
    BY <1>2, UnderWayFinite, Zenon
  <2>3. answers[n] \in Seq(Code)
    BY Zenon DEF CountersTyped
  <2> QED
    BY <2>1, <2>2, <2>3
<1> HIDE DEF w, u, l, ww, uu, ll
<1>6. /\ ~due => ~SendsOwed(e, n) /\ ~StartsOwed(e, n) /\ ~Tells(e, m, n)
      /\ SendsOwed(e, n) => ~StartsOwed(e, n) /\ ~Tells(e, m, n)
      /\ StartsOwed(e, n) => ~Tells(e, m, n)
  BY Zenon DEF Modest
<1>7. ww + uu + ll \in Nat /\ ww + uu + ll <= w + u + l + (IF due THEN 1 ELSE 0)
  BY <1>1, <1>3, <1>4, <1>5, <1>6
<1> QED
  BY <1>1, <1>7, Zenon DEF Claims, w, u, l, ww, uu, ll
-----------------------------------------------------------------------------
\* Nothing is owed when the nodes start.
LEMMA InitOwes == Init => DebtsBounded
<1> SUFFICES ASSUME Init PROVE DebtsBounded
  OBVIOUS
<1>2. net = NoPackets /\ trans = <<>> /\ \A n \in Addr : answers[n] = <<>> /\ asked[n] = 0 /\ dups = 0
  BY Zenon DEF Init
<1>3. Packets(net) = {} /\ IsBag(net)
  BY <1>2, Zenon DEF NoPackets, Packets, IsBag
<1>4. \A n : OnTheWay(net, n) = {} /\ UnderWay(trans, n) = {}
  BY <1>2, <1>3 DEF OnTheWay, UnderWay
<1>5. IsFiniteSet({}) /\ Cardinality({}) = 0
  BY FS_EmptySet, Zenon
<1>6. ASSUME NEW n \in Addr
      PROVE  /\ IsFiniteSet(OnTheWay(net, n))
             /\ Claims(n) <= asked[n] + dups
  <2>1. Len(answers[n]) = 0 /\ asked[n] = 0 /\ dups = 0
    BY <1>2
  <2> QED
    BY <1>4, <1>5, <2>1 DEF Claims
<1> QED
  BY <1>3, <1>6, Zenon DEF DebtsBounded

\* Taking a packet from the network settles what it owes.
LEMMA TakeSettles ==
  ASSUME IsBag(net), NEW p \in Packets(net), NEW n, IsFiniteSet(OnTheWay(net, n))
  PROVE  LET w == Cardinality(OnTheWay(net, n))
             v == Cardinality(OnTheWay(Without(p), n))
         IN  /\ IsBag(Without(p)) /\ IsFiniteSet(OnTheWay(Without(p), n))
             /\ w \in Nat /\ v \in Nat /\ v <= w
             /\ OwedTo(p, n) => v + 1 <= w
<1> DEFINE S == OnTheWay(net, n)
           T == OnTheWay(Without(p), n)
           x == <<p, net[p]>>
<1>1. IsBag(Without(p)) /\ T \subseteq S \ {x} /\ (OwedTo(p, n) => x \in S)
  BY TakenCopy, Zenon DEF Without
<1>2. IsFiniteSet(S)
  OBVIOUS
<1> HIDE DEF S, T, x
<1>3. T \subseteq S
  BY <1>1, Zenon
<1> QED
  BY <1>1, <1>2, <1>3, Counting, Zenon DEF S, T

\* What the steps below start from.
LEMMA CountsTyped ==
  ASSUME Inv, CountersTyped, DebtsBounded, NEW n \in Addr
  PROVE  /\ IsFiniteSet(OnTheWay(net, n)) /\ Claims(n) <= asked[n] + dups
         /\ Cardinality(UnderWay(trans, n)) \in Nat /\ Len(answers[n]) \in Nat
         /\ asked[n] \in Nat /\ dups \in Nat
         /\ Cardinality(OnTheWay(net, n)) \in Nat /\ Claims(n) \in Nat
<1>1. PICK X : trans \in Seq(X)
  BY DEF Inv, TransfersOK
<1>2. answers[n] \in Seq(Code) /\ asked[n] \in Nat /\ dups \in Nat
  BY DEF CountersTyped
<1>3. IsFiniteSet(OnTheWay(net, n)) /\ Claims(n) <= asked[n] + dups
  BY DEF DebtsBounded
<1>4. Cardinality(OnTheWay(net, n)) \in Nat /\ Cardinality(UnderWay(trans, n)) \in Nat
  BY <1>1, <1>3, UnderWayFinite, FS_CardinalityType, Zenon
<1> QED
  BY <1>2, <1>3, <1>4 DEF Claims

\* A request: one more answer is due.
LEMMA RequestOwes ==
  ASSUME Inv, CountersTyped, DebtsBounded, NEW m \in Addr, NEW f \in File, ClientRequest(m, f)
  PROVE  DebtsBounded'
<1> DEFINE e == dhash_process_client_request(m, f)
<1>1. /\ Carry(m, e, net) /\ asked' = [asked EXCEPT ![m] = @ + 1]
      /\ UNCHANGED dups
  BY DEF ClientRequest
<1>2. IsBag(net) /\ TransfersOK
  BY DEF Inv, DebtsBounded
<1>3. ASSUME NEW n \in Addr
      PROVE  /\ IsFiniteSet(OnTheWay(net', n))
             /\ Claims(n)' \in Nat /\ Claims(n)' <= Claims(n) + (IF m = n THEN 1 ELSE 0)
  <2>1. Modest(e, m, n, m = n)
    BY RequestModest, Zenon
  <2>2. IsFiniteSet(OnTheWay(net, n))
    BY CountsTyped
  <2> HIDE DEF e
  <2> QED
    BY <1>1, <1>2, <2>1, <2>2, CarryOwes, Zenon DEF Claims
<1>4. IsBag(net')
  BY <1>1, <1>2, SentCopies, Zenon DEF Carry
<1>5. ASSUME NEW n \in Addr PROVE Claims(n)' <= asked'[n] + dups'
  <2>1. asked'[n] = asked[n] + (IF m = n THEN 1 ELSE 0)
    BY <1>1 DEF CountersTyped
  <2>2. dups' = dups /\ Claims(n)' \in Nat /\ Claims(n)' <= Claims(n) + (IF m = n THEN 1 ELSE 0)
    BY <1>1, <1>3, Zenon
  <2>3. Claims(n) <= asked[n] + dups /\ Claims(n) \in Nat /\ asked[n] \in Nat /\ dups \in Nat
    BY CountsTyped, Zenon
  <2> QED
    BY <2>1, <2>2, <2>3
<1> QED
  BY <1>3, <1>4, <1>5, Zenon DEF DebtsBounded

\* A packet is handled: what it owes is settled first, unless it will come again.
LEMMA HandleOwes ==
  ASSUME Inv, CountersTyped, DebtsBounded, NEW p \in Packets(net), Receive(p) \/ Duplicate(p)
  PROVE  DebtsBounded'
<1> DEFINE e == dhash_unpack_chord_data(p.to, p)
<1>1. IsBag(net) /\ TransfersOK /\ p.payload.type \in PayloadType
  BY Zenon DEF Inv, PacketsOK, Harmless, DebtsBounded
<1>2. asked' = asked
  BY Zenon DEF Receive, Duplicate, Handle
<1>3. IsBag(net')
  <2>1. IsBag(Without(p))
    BY <1>1, TakenCopy, Zenon DEF Without
  <2>2. PICK kept : IsBag(kept) /\ Carry(p.to, e, kept)
    BY <1>1, <2>1, Zenon DEF Receive, Duplicate, Handle
  <2>3. net' = Sent(kept, e.out)
    BY <2>2, Zenon DEF Carry
  <2>4. IsBag(Sent(kept, e.out))
    BY <2>2, SentCopies, Zenon
  <2> QED
    BY <2>3, <2>4, Zenon
<1>4. CASE Receive(p)
  <2>1. Carry(p.to, e, Without(p)) /\ UNCHANGED dups
    BY <1>4, Zenon DEF Receive, Handle
  <2>2. ASSUME NEW n \in Addr
        PROVE  /\ IsFiniteSet(OnTheWay(net', n))
               /\ Claims(n)' <= asked'[n] + dups'
    <3> DEFINE v == Cardinality(OnTheWay(Without(p), n))
               w == Cardinality(OnTheWay(net, n))
               u == Cardinality(UnderWay(trans, n))
               l == Len(answers[n])
    <3>1. Modest(e, p.to, n, OwedTo(p, n))
      BY <1>1, HandlersModest, Zenon
    <3>2. /\ IsBag(Without(p)) /\ IsFiniteSet(OnTheWay(Without(p), n))
          /\ v \in Nat /\ v + (IF OwedTo(p, n) THEN 1 ELSE 0) <= w
      BY <1>1, TakeSettles, CountsTyped
    <3> HIDE DEF e, v, u, l
    <3>3. /\ IsFiniteSet(OnTheWay(net', n)) /\ Claims(n)' \in Nat
          /\ Claims(n)' <= v + u + l + (IF OwedTo(p, n) THEN 1 ELSE 0)
      BY <1>1, <2>1, <3>1, <3>2, CarryOwes DEF v, u, l
    <3>4. /\ w \in Nat /\ u \in Nat /\ l \in Nat /\ w + u + l <= asked[n] + dups
          /\ asked[n] \in Nat /\ dups \in Nat
      BY CountsTyped, Zenon DEF Claims, u, l
    <3> HIDE DEF w
    <3> QED
      BY <1>2, <2>1, <3>2, <3>3, <3>4
  <2> QED
    BY <1>3, <2>2, Zenon DEF DebtsBounded
<1>5. CASE Duplicate(p)
  <2>1. Carry(p.to, e, net) /\ dups' = dups + 1
    BY <1>5, Zenon DEF Duplicate, Handle
  <2>2. ASSUME NEW n \in Addr
        PROVE  /\ IsFiniteSet(OnTheWay(net', n))
               /\ Claims(n)' <= asked'[n] + dups'
    <3>1. Modest(e, p.to, n, OwedTo(p, n))
      BY <1>1, HandlersModest, Zenon
    <3>2. IsFiniteSet(OnTheWay(net, n))
      BY CountsTyped, Zenon
    <3> HIDE DEF e
    <3>3. /\ IsFiniteSet(OnTheWay(net', n)) /\ Claims(n)' \in Nat
          /\ Claims(n)' <= Claims(n) + (IF OwedTo(p, n) THEN 1 ELSE 0)
      BY <1>1, <2>1, <3>1, <3>2, CarryOwes DEF Claims
    <3> QED
      BY <1>2, <2>1, <3>3, CountsTyped
  <2> QED
    BY <1>3, <2>2, Zenon DEF DebtsBounded
<1> QED
  BY <1>4, <1>5

\* A packet is lost, or its handler fails half way: nothing more is owed.
LEMMA FailuresOwe ==
  ASSUME Inv, CountersTyped, DebtsBounded, NEW p \in Packets(net), BindFails(p) \/ Lose(p)
  PROVE  DebtsBounded'
<1> DEFINE e == dhash_unpack_chord_data(p.to, p)
<1>1. IsBag(net) /\ p.payload.type \in PayloadType
  BY Zenon DEF Inv, PacketsOK, Harmless, DebtsBounded
<1>2. /\ UNCHANGED <<trans, asked, answers, dups>>
      /\ net' = Without(p) \/ net' = Sent(Without(p), e.out)
  BY Zenon DEF BindFails, Lose
<1>3. IsBag(net')
  <2>1. IsBag(Without(p))
    BY <1>1, TakenCopy, Zenon DEF Without
  <2> QED
    BY <1>2, <2>1, SentCopies, Zenon
<1>4. ASSUME NEW n \in Addr
      PROVE  IsFiniteSet(OnTheWay(net', n)) /\ Claims(n)' <= asked'[n] + dups'
  <2> DEFINE v == Cardinality(OnTheWay(Without(p), n))
             w == Cardinality(OnTheWay(net, n))
             ww == Cardinality(OnTheWay(net', n))
             u == Cardinality(UnderWay(trans, n))
             l == Len(answers[n])
  <2>1. Modest(e, p.to, n, OwedTo(p, n))
    BY <1>1, HandlersModest, Zenon
  <2>2. /\ IsBag(Without(p)) /\ IsFiniteSet(OnTheWay(Without(p), n))
        /\ v \in Nat /\ w \in Nat /\ v <= w /\ (OwedTo(p, n) => v + 1 <= w)
    BY <1>1, TakeSettles, CountsTyped, Zenon
  <2>3. IsFiniteSet(OnTheWay(net', n)) /\ ww \in Nat /\ ww <= w
    <3>1. CASE net' = Without(p)
      BY <2>2, <3>1, Zenon
    <3>2. CASE net' = Sent(Without(p), e.out)
      <4> HIDE DEF e
      <4>1. /\ IsFiniteSet(OnTheWay(net', n)) /\ ww \in Nat
            /\ ww <= v + 1 /\ (~SendsOwed(e, n) => ww <= v)
        BY <2>1, <2>2, <3>2, PutOwes, Zenon
      <4>2. SendsOwed(e, n) => OwedTo(p, n)
        BY <2>1, Zenon DEF Modest
      <4> HIDE DEF v, w, ww
      <4> QED
        BY <2>2, <4>1, <4>2
    <3> QED
      BY <1>2, <3>1, <3>2, Zenon
  <2>4. /\ u \in Nat /\ l \in Nat /\ w + u + l <= asked[n] + dups
        /\ asked[n] \in Nat /\ dups \in Nat
    BY CountsTyped, Zenon DEF Claims
  <2>5. Claims(n)' = ww + u + l
    BY <1>2, Zenon DEF Claims
  <2> HIDE DEF v, w, ww, u, l
  <2> QED
    BY <1>2, <2>2, <2>3, <2>4, <2>5
<1> QED
  BY <1>3, <1>4, Zenon DEF DebtsBounded

\* The event of a transfer is handled: the debt becomes an answer, or is forgotten.
LEMMA CallbackOwes ==
  ASSUME Inv, CountersTyped, DebtsBounded, NEW i \in DOMAIN trans, Callback(i)
  PROVE  DebtsBounded'
<1> DEFINE t == trans[i]
           x == [t EXCEPT !.event = "none"]
           y == free_transfer([t EXCEPT !.event = "none"])
           out == dhash_send_push(t.node, t.file)
<1>1. /\ trans' = [trans EXCEPT ![i] = x] \/ trans' = [trans EXCEPT ![i] = y]
      /\ \/ answers' = answers
         \/ \E c \in Code : answers' = [answers EXCEPT ![t.node] = Append(@, c)]
      /\ net' = net \/ net' = Sent(net, out)
      /\ UNCHANGED <<asked, dups>>
      /\ t.event \in {"success", "fail"}
  BY CallbackShape, Zenon DEF Code
<1>2. /\ Sound(disk, t) /\ t.callbacks /\ t.thread = "returned" /\ t.event # "none"
  BY <1>1, Zenon DEF Inv, TransfersOK, Sound
<1>3. /\ x.event = "none" /\ x.thread = "returned"
      /\ y.event = "none" /\ y.thread = "returned"
  BY <1>2, Zenon DEF Sound, Fields, free_transfer
<1>4. PICK X : trans \in Seq(X)
  BY Zenon DEF Inv, TransfersOK
<1> HIDE DEF x, y, out
<1>5. /\ DOMAIN trans' = DOMAIN trans
      /\ trans'[i].event = "none" /\ trans'[i].thread = "returned"
      /\ \A k \in DOMAIN trans : k # i => trans'[k] = trans[k]
  BY <1>1, <1>3, <1>4, Zenon
<1>6. answers \in [Addr -> Seq(Code)]
  BY Zenon DEF CountersTyped
<1>7. \A n, q : q \in out => ~OwedTo(q, n)
  <2>1. \A q \in out : q.payload.type = "PUSH"
    BY RoutedPayload DEF out, dhash_send_push, Payload
  <2> QED
    BY <2>1, Zenon DEF OwedTo
<1>8. IsBag(net') /\ \A n : OnTheWay(net', n) \subseteq OnTheWay(net, n)
  <2>1. IsBag(net)
    BY Zenon DEF DebtsBounded
  <2>2. CASE net' = net
    BY <2>1, <2>2, Zenon
  <2>3. CASE net' = Sent(net, out)
    BY <1>7, <2>1, <2>3, SentCopies, Zenon
  <2> QED
    BY <1>1, <2>2, <2>3, Zenon
<1>9. ASSUME NEW n \in Addr
      PROVE  IsFiniteSet(OnTheWay(net', n)) /\ Claims(n)' <= asked'[n] + dups'
  <2> DEFINE w == Cardinality(OnTheWay(net, n))
             u == Cardinality(UnderWay(trans, n))
             l == Len(answers[n])
             ww == Cardinality(OnTheWay(net', n))
             uu == Cardinality(UnderWay(trans', n))
             ll == Len(answers'[n])
  <2>1. /\ w \in Nat /\ u \in Nat /\ l \in Nat /\ w + u + l <= asked[n] + dups
        /\ asked[n] \in Nat /\ dups \in Nat /\ IsFiniteSet(OnTheWay(net, n))
    BY CountsTyped, Zenon DEF Claims
  <2>2. IsFiniteSet(OnTheWay(net', n)) /\ ww \in Nat /\ ww <= w
    <3>1. OnTheWay(net', n) \subseteq OnTheWay(net, n) /\ IsFiniteSet(OnTheWay(net, n))
      BY <1>8, <2>1, Zenon
    <3> QED
      BY <3>1, Counting, Zenon
  <2>3. uu \in Nat /\ uu <= u /\ (t.node = n => uu + 1 <= u)
    <3>1. UnderWay(trans', n) \subseteq UnderWay(trans, n) \ {i}
      BY <1>5, Zenon DEF UnderWay
    <3>2. t.node = n => i \in UnderWay(trans, n)
      BY <1>2, Zenon DEF UnderWay
    <3>3. UnderWay(trans', n) \subseteq UnderWay(trans, n) /\ IsFiniteSet(UnderWay(trans, n))
      BY <1>4, <3>1, UnderWayFinite, Zenon
    <3> QED
      BY <3>1, <3>2, <3>3, Counting, Zenon
  <2>4. ll \in Nat /\ ll <= l + 1 /\ (t.node # n => ll <= l)
    <3>1. CASE answers' = answers
      BY <2>1, <3>1
    <3>2. ASSUME NEW c \in Code, answers' = [answers EXCEPT ![t.node] = Append(@, c)]
          PROVE  ll \in Nat /\ ll <= l + 1 /\ (t.node # n => ll <= l)
      <4>1. /\ answers[n] \in Seq(Code) /\ Len(Append(answers[n], c)) = l + 1
        BY <1>6
      <4>2. answers'[n] = IF t.node = n THEN Append(answers[n], c) ELSE answers[n]
        BY <1>6, <3>2, Zenon
      <4>3. CASE t.node = n
        BY <2>1, <4>1, <4>2, <4>3
      <4>4. CASE t.node # n
        BY <2>1, <4>2, <4>4
      <4> QED
        BY <4>3, <4>4, Zenon
    <3> QED
      BY <1>1, <3>1, <3>2, Zenon
  <2>5. Claims(n)' = ww + uu + ll /\ asked' = asked /\ dups' = dups
    BY <1>1, Zenon DEF Claims
  <2> HIDE DEF w, u, l, ww, uu, ll
  <2>6. ww + uu + ll <= w + u + l
    BY <2>1, <2>2, <2>3, <2>4
  <2> QED
    BY <2>1, <2>2, <2>3, <2>4, <2>5, <2>6
<1> QED
  BY <1>8, <1>9, Zenon DEF DebtsBounded

\* Steps of the transfer threads: a transfer that calls back still does, unless its
\* thread gives up.
LEMMA ThreadOwes ==
  ASSUME Inv, CountersTyped, DebtsBounded, NEW i \in DOMAIN trans,
         Rendezvous(i) \/ ConnectFails(i) \/ Opens(i) \/ Copies(i) \/ StreamError(i)
  PROVE  DebtsBounded'
<1>1. UNCHANGED <<net, asked, answers, dups>>
  BY Zenon DEF Rendezvous, ConnectFails, Opens, Copies, StreamError
<1>2. PICK X : trans \in Seq(X)
  BY Zenon DEF Inv, TransfersOK
<1>3. TransfersOK /\ \A k \in DOMAIN trans : Sound(disk, trans[k])
  BY Zenon DEF Inv, TransfersOK
\* A running thread may return, and what calls back must have done so.
<1> DEFINE Same(t, s) == s.callbacks = t.callbacks /\ s.node = t.node /\ t.thread # "returned"
<1>4. ASSUME NEW j \in DOMAIN trans, NEW x, NEW y, Replaced(i, x, j, y),
             Same(trans[i], x), Same(trans[j], y)
      PROVE  \A n : UnderWay(trans', n) \subseteq UnderWay(trans, n)
  BY <1>4, Zenon DEF Replaced, UnderWay
<1>5. ASSUME NEW t, Sound(disk, t), t.thread # "returned"
      PROVE  /\ \A succeeded : Same(t, transfer_returns(t, succeeded))
             /\ Same(t, transfer_connect_fails(t))
             /\ \A k : Same(t, [t EXCEPT !.thread = "connected", !.partner = k])
             /\ \A f : Same(t, [t EXCEPT !.thread = "receiving", !.file = f])
             /\ Same(t, [t EXCEPT !.thread = "receiving"])
  BY <1>5, Zenon DEF Sound, Fields, transfer_returns, free_transfer, transfer_connect_fails
<1>6. ASSUME trans[i].thread \in {"connected", "receiving"}, NEW succeeded, Ends(i, succeeded)
      PROVE  \A n : UnderWay(trans', n) \subseteq UnderWay(trans, n)
  <2> DEFINE j == trans[i].partner
             x == transfer_returns(trans[i], succeeded)
             y == transfer_returns(trans[j], succeeded)
  <2>1. /\ j \in DOMAIN trans /\ Replaced(i, x, j, y)
        /\ trans[i].thread # "returned" /\ trans[j].thread # "returned"
    BY <1>3, <1>6, EndsShape, Zenon
  <2>2. Same(trans[i], x) /\ Same(trans[j], y)
    BY <1>3, <1>5, <2>1, Zenon
  <2> HIDE DEF x, y, Same
  <2> QED
    BY <1>4, <2>1, <2>2, Zenon
<1>7. \A n : UnderWay(trans', n) \subseteq UnderWay(trans, n)
  <2>1. CASE Rendezvous(i)
    <3>1. PICK j \in DOMAIN trans :
            /\ trans[i].thread = "connecting" /\ trans[j].thread = "connecting"
            /\ Replaced(i, [trans[i] EXCEPT !.thread = "connected", !.partner = j],
                        j, [trans[j] EXCEPT !.thread = "connected", !.partner = i])
      BY <1>3, <2>1, RendezvousShape, Zenon
    <3>2. /\ Same(trans[i], [trans[i] EXCEPT !.thread = "connected", !.partner = j])
          /\ Same(trans[j], [trans[j] EXCEPT !.thread = "connected", !.partner = i])
      BY <1>3, <1>5, <3>1
    <3> HIDE DEF Same
    <3> QED
      BY <1>4, <3>1, <3>2, Zenon
  <2>2. CASE ConnectFails(i)
    <3> DEFINE x == transfer_connect_fails(trans[i])
    <3>1. trans[i].thread = "connecting" /\ trans' = [trans EXCEPT ![i] = x]
      BY <2>2, Zenon DEF ConnectFails, Working
    <3>2. Same(trans[i], x)
      BY <1>3, <1>5, <3>1, Zenon
    <3> HIDE DEF x
    <3> QED
      BY <1>2, <3>1, <3>2, Zenon DEF UnderWay
  <2>3. CASE Opens(i)
    <3> DEFINE j == trans[i].partner
               f == trans[j].file
    <3>1. /\ j \in DOMAIN trans
          /\ trans[i].thread = "connected" /\ trans[j].thread = "connected"
      BY <1>3, <2>3, OpensEnds, Zenon
    <3>2. CASE dhash_local_file_exists(trans[i].node, f)
      <4>1. Replaced(i, [trans[i] EXCEPT !.thread = "receiving", !.file = f],
                     j, [trans[j] EXCEPT !.thread = "receiving"])
        BY <1>3, <2>3, <3>2, OpensShape, Zenon
      <4>2. /\ Same(trans[i], [trans[i] EXCEPT !.thread = "receiving", !.file = f])
            /\ Same(trans[j], [trans[j] EXCEPT !.thread = "receiving"])
        BY <1>3, <1>5, <3>1
      <4> HIDE DEF Same
      <4> QED
        BY <1>4, <3>1, <4>1, <4>2, Zenon
    <3>3. CASE ~dhash_local_file_exists(trans[i].node, f)
      <4>1. Ends(i, FALSE)
        BY <2>3, <3>3, Zenon DEF Opens
      <4> QED
        BY <1>6, <3>1, <4>1, Zenon
    <3> QED
      BY <3>2, <3>3, Zenon
  <2>4. CASE Copies(i) \/ StreamError(i)
    <3>1. trans[i].thread \in {"connected", "receiving"}
      BY <2>4, Zenon DEF Copies, StreamError, Working
    <3>2. \E succeeded : Ends(i, succeeded)
      BY <2>4, Zenon DEF Copies, StreamError
    <3> QED
      BY <1>6, <3>1, <3>2, Zenon
  <2> QED
    BY <2>1, <2>2, <2>3, <2>4, Zenon
<1>8. ASSUME NEW n \in Addr
      PROVE  IsFiniteSet(OnTheWay(net', n)) /\ Claims(n)' <= asked'[n] + dups'
  <2> DEFINE w == Cardinality(OnTheWay(net, n))
             u == Cardinality(UnderWay(trans, n))
             l == Len(answers[n])
             uu == Cardinality(UnderWay(trans', n))
  <2>1. /\ w \in Nat /\ u \in Nat /\ l \in Nat /\ w + u + l <= asked[n] + dups
        /\ asked[n] \in Nat /\ dups \in Nat /\ IsFiniteSet(OnTheWay(net, n))
    BY CountsTyped, Zenon DEF Claims
  <2>2. uu \in Nat /\ uu <= u
    <3>1. IsFiniteSet(UnderWay(trans, n)) /\ UnderWay(trans', n) \subseteq UnderWay(trans, n)
      BY <1>2, <1>7, UnderWayFinite, Zenon
    <3> QED
      BY <3>1, Counting, Zenon
  <2>3. Claims(n)' = w + uu + l /\ asked' = asked /\ dups' = dups /\ net' = net
    BY <1>1, Zenon DEF Claims
  <2> HIDE DEF w, u, l, uu
  <2> QED
    BY <2>1, <2>2, <2>3
<1> QED
  BY <1>1, <1>8, Zenon DEF DebtsBounded

\* What clients are owed is bounded in every state of every behaviour.
THEOREM AlwaysBounded == Spec => []DebtsBounded
<1>1. Inv /\ CountersTyped /\ DebtsBounded /\ [Next]_vars => DebtsBounded'
  <2> SUFFICES ASSUME Inv, CountersTyped, DebtsBounded, [Next]_vars
               PROVE  DebtsBounded'
    BY Zenon
  <2>1. CASE Next
    BY <2>1, RequestOwes, HandleOwes, FailuresOwe, CallbackOwes, ThreadOwes, Zenon DEF Next
  <2>2. CASE UNCHANGED vars
    BY <2>2, Zenon DEF vars, DebtsBounded, Claims
  <2> QED
    BY <2>1, <2>2, Zenon
<1> QED
  BY <1>1, InitOwes, AlwaysInv, AlwaysCounted, PTL DEF Spec

\* However queries are routed, answered, duplicated, lost or failed, no client hears
\* more answers than it made requests and the network duplicates
\* (dhash_process_query, dhash_process_query_reply_*, receive_success, receive_fail).
THEOREM AnsweredOnce == Spec => []AnsweredAtMostOnce
<1>1. Inv /\ CountersTyped /\ DebtsBounded => AnsweredAtMostOnce
  <2> SUFFICES ASSUME Inv, CountersTyped, DebtsBounded, NEW n \in Addr
               PROVE  Len(answers[n]) <= asked[n] + dups
    BY Zenon DEF AnsweredAtMostOnce
  <2> QED
    BY CountsTyped DEF Claims
<1> QED
  BY <1>1, AlwaysInv, AlwaysCounted, AlwaysBounded, PTL
=============================================================================
