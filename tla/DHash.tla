------------------------------- MODULE DHash -------------------------------
(***************************************************************************)
(* DHash (file_client/): nodes that look files up over Chord and move them *)
(* in threads of their own.  One process per node, with one Chord server.  *)
(*                                                                         *)
(* A query for a file travels along the Chord ring.  The first node with   *)
(* the file says so and starts sending; the file's successor, if it has    *)
(* none, says that.  The asking node receives the file, verifies it,       *)
(* answers its client and pushes the file towards the file's successor.    *)
(*                                                                         *)
(* The finger tables are at rest, though not always right: a start says    *)
(* who knows whom.  A file on disk is the published one ("original"), a    *)
(* copy of it ("copy"), or something else, for instance a part ("part").   *)
(* File names are not empty.  The event of the control socket, over which  *)
(* clients ask, is created and not added (dhash.cpp:202): the model takes  *)
(* requests as the handlers are written to take them.                      *)
(***************************************************************************)
EXTENDS Process, Transfer, Sequences, Functions

CONSTANTS
  File,
  FileId,      \* get_data_id: the SHA-1 of a name
  Starts,      \* whom each node knows, and where each file is
  DATA_TTL,    \* 10 in the code
  Faults,      \* what may go wrong outside the program
  MaxTraffic,  \* bounds the requests of all clients and the duplicated packets
  MaxFaults    \* bounds the other faults

ASSUME DHashAssumption ==
  /\ FileId \in [File -> Id] /\ NULL \notin File
  /\ Starts \subseteq [known : [Addr -> SUBSET Addr], source : [File -> Addr]]
  /\ Faults \subseteq {"lose", "duplicate", "bind", "connect", "stream", "short"}
  /\ MaxTraffic \in Nat /\ MaxFaults \in Nat /\ DATA_TTL \in Nat \ {0}

VARIABLES
  srv,      \* the ChordServer of each node
  disk,     \* what is on each node's disk
  net,      \* a bag: how many copies of each packet are on their way
  trans,    \* the Transfer structures, numbered as they are allocated
  asked,    \* the requests of each node's client
  answers,  \* the answers it was given
  dups,     \* how many packets were duplicated
  faults,   \* how many other faults there were
  mishap    \* the kinds of things that have gone wrong

vars == <<srv, disk, net, trans, asked, answers, dups, faults, mishap>>

-----------------------------------------------------------------------------
Packets(nt) == DOMAIN nt

NoPackets == [p \in {} |-> 0]

\* One copy more of each packet of out.
Sent(nt, out) ==
  [p \in Packets(nt) \cup out |-> (IF p \in Packets(nt) THEN nt[p] ELSE 0)
                                  + (IF p \in out THEN 1 ELSE 0)]

\* One copy less of p.
Taken(nt, p) ==
  LET left(q) == IF q = p THEN nt[q] - 1 ELSE nt[q]
  IN  [q \in {r \in Packets(nt) : left(r) > 0} |-> left(q)]

-----------------------------------------------------------------------------
\* A server with these active fingers.
Settled(n, peers) ==
  LET s == [addr |-> n, id |-> get_address_id(n), pred_bound |-> get_address_id(n),
            sock |-> n, num_passive_fingers |-> 0, to_fix_finger |-> 0,
            to_fix_backup |-> 0, to_ping |-> 0, discover_addr_event |-> FALSE,
            stab_event |-> TRUE, ticket_salt |-> 1, fault |-> "none",
            flist |-> [x \in {AddrId[a] : a \in peers} |->
                         [addr |-> CHOOSE a \in peers : AddrId[a] = x,
                          status |-> "ACTIVE", npings |-> 0]]]
  IN  [s EXCEPT !.pred_bound = PredecessorOrSelf(s)]

Init ==
  /\ \E start \in Starts :
       /\ srv = [n \in Addr |-> Settled(n, start.known[n] \ {n})]
       /\ disk = [n \in Addr |-> [f \in File |->
                   IF n = start.source[f] THEN "original" ELSE "none"]]
  /\ net = NoPackets
  /\ trans = <<>>
  /\ asked = [n \in Addr |-> 0]
  /\ answers = [n \in Addr |-> <<>>]
  /\ dups = 0
  /\ faults = 0
  /\ mishap = {}

Whole == {"original", "copy"}

\* Only the presence of the file is looked at, never what is in it.
dhash_local_file_exists(n, f) == disk[n][f] # "none"

-----------------------------------------------------------------------------
\* file_client/send.cpp.  A packet of DHash is the contents of a Data packet.

Payload(type, f, reply_addr) == [type |-> type, name |-> f, reply_addr |-> reply_addr]

Data(p, payload) ==
  [from |-> p.from, to |-> p.to, last |-> p.last, ttl |-> p.ttl, id |-> p.id,
   payload |-> payload]

\* Queries and pushes are routed by their file's identifier.
SendRouted(n, payload) ==
  LET id == FileId[payload.name]
      next == next_route_node(srv[n], id, FALSE)
  IN  IF next.addr = Unspecified THEN {}
      ELSE {Data(send_data(srv[n], next.last, DATA_TTL, next.addr, id), payload)}

dhash_send_push(n, f) == SendRouted(n, Payload("PUSH", f, n))

dhash_send_query(n, f) == SendRouted(n, Payload("QUERY", f, n))

send_chord_pkt_directly(n, to, payload) ==
  {Data(send_data(srv[n], FALSE, DATA_TTL, to, get_address_id(to)), payload)}

dhash_send_query_reply_success(n, to, f) ==
  send_chord_pkt_directly(n, to, Payload("QUERY_REPLY_SUCCESS", f, NULL))

dhash_send_query_reply_failure(n, to, f) ==
  send_chord_pkt_directly(n, to, Payload("QUERY_REPLY_FAILURE", f, NULL))

dhash_send_push_reply(n, to, f) ==
  send_chord_pkt_directly(n, to, Payload("PUSH_REPLY", f, NULL))

-----------------------------------------------------------------------------
(***************************************************************************)
(* file_client/process.cpp.  What a handler does: the packets it sends,    *)
(* the transfers it starts, the codes it gives the client, and whether it  *)
(* returns non-zero, which has the packet routed on.                       *)
(***************************************************************************)
Effect(out, started, codes, ret) ==
  [out |-> out, started |-> started, codes |-> codes, ret |-> ret]

\* Mutant: a node that has answered lets the query travel on.
dhash_process_query_travels_on(n, p) ==
  LET f == p.payload.name
      asker == p.payload.reply_addr
  IN  IF dhash_local_file_exists(n, f)
      THEN Effect(dhash_send_query_reply_success(n, asker, f),
                  <<transfer_start_sending(new_transfer(n, asker))>>, <<>>, 1)
      ELSE IF chord_id_is_local(srv[n], FileId[f])
      THEN Effect(dhash_send_query_reply_failure(n, asker, f), <<>>, <<>>, 0)
      ELSE Effect({}, <<>>, <<>>, 1)

dhash_process_query(n, p) ==
  LET f == p.payload.name
      asker == p.payload.reply_addr
  IN  IF dhash_local_file_exists(n, f)
      THEN Effect(dhash_send_query_reply_success(n, asker, f),
                  <<transfer_start_sending(new_transfer(n, asker))>>, <<>>, 0)
      ELSE IF chord_id_is_local(srv[n], FileId[f])
      THEN Effect(dhash_send_query_reply_failure(n, asker, f), <<>>, <<>>, 0)
      ELSE Effect({}, <<>>, <<>>, 1)

dhash_process_query_reply_success(n, p) ==
  Effect({}, <<transfer_start_receiving(transfer_set_callbacks(new_transfer(n, p.from)),
                                        p.payload.name)>>, <<>>, 0)

dhash_process_query_reply_failure(n, p) == Effect({}, <<>>, <<"FAILURE">>, 0)

\* Mutant: the file is fetched again although it is there.
dhash_process_push_always(n, p) ==
  LET f == p.payload.name
      owner == p.payload.reply_addr
  IN  Effect(dhash_send_push_reply(n, owner, f),
             <<transfer_start_receiving(new_transfer(n, owner), f)>>, <<>>, 0)

dhash_process_push(n, p) ==
  LET f == p.payload.name
      owner == p.payload.reply_addr
  IN  IF dhash_local_file_exists(n, f) THEN Effect({}, <<>>, <<>>, 0)
      ELSE Effect(dhash_send_push_reply(n, owner, f),
                  <<transfer_start_receiving(new_transfer(n, owner), f)>>, <<>>, 0)

dhash_process_push_reply(n, p) ==
  Effect({}, <<transfer_start_sending(new_transfer(n, p.from))>>, <<>>, 0)

dhash_process_client_request(n, f) ==
  IF dhash_local_file_exists(n, f) THEN Effect({}, <<>>, <<"LOCAL">>, 0)
  ELSE Effect(dhash_send_query(n, f), <<>>, <<>>, 0)

\* The handler chord_dispatcher calls.
dispatch_packet(n, p) ==
  CASE p.payload.type = "QUERY" -> dhash_process_query(n, p)
    [] p.payload.type = "QUERY_REPLY_SUCCESS" -> dhash_process_query_reply_success(n, p)
    [] p.payload.type = "QUERY_REPLY_FAILURE" -> dhash_process_query_reply_failure(n, p)
    [] p.payload.type = "PUSH" -> dhash_process_push(n, p)
    [] p.payload.type = "PUSH_REPLY" -> dhash_process_push_reply(n, p)

\* What a handler does not consume goes to process_data.
dhash_unpack_chord_data(n, p) ==
  LET e == dispatch_packet(n, p)
  IN  IF e.ret = 0 THEN e
      ELSE [e EXCEPT !.out = @ \cup {Data(q, p.payload) : q \in process_data(srv[n], p).out}]

-----------------------------------------------------------------------------
\* The event loop of each process.

Alive(n) == srv[n].fault = "none"

Fault(kind) == kind \in Faults /\ faults < MaxFaults /\ faults' = faults + 1

\* What keeps the network busy: requests and duplicates.
Traffic == FoldFunction(+, dups, asked)

Carry(n, e, kept) ==
  /\ net' = Sent(kept, e.out)
  /\ trans' = trans \o e.started
  /\ answers' = [answers EXCEPT ![n] = @ \o e.codes]
  /\ UNCHANGED srv

ClientRequest(n, f) ==
  /\ Alive(n)
  /\ Traffic < MaxTraffic
  /\ asked' = [asked EXCEPT ![n] = @ + 1]
  /\ Carry(n, dhash_process_client_request(n, f), net)
  /\ UNCHANGED <<disk, dups, faults, mishap>>

Without(p) == Taken(net, p)

\* kept: the packets that stay on their way.
Handle(p, kept) ==
  LET e == dhash_unpack_chord_data(p.to, p)
  IN  /\ Alive(p.to)
      /\ Carry(p.to, e, kept)
      /\ mishap' = IF e.ret # 0 /\ e.out = {} THEN mishap \cup {"packet"} ELSE mishap
      /\ UNCHANGED <<disk, asked>>

Receive(p) == Handle(p, Without(p)) /\ UNCHANGED <<dups, faults>>

\* The network will deliver the packet once more.
Duplicate(p) ==
  /\ "duplicate" \in Faults /\ Traffic < MaxTraffic
  /\ Handle(p, net)
  /\ dups' = dups + 1
  /\ UNCHANGED faults

\* new_transfer returns NULL, which its callers write through.
BindFails(p) ==
  LET e == dhash_unpack_chord_data(p.to, p)
  IN  /\ Alive(p.to) /\ e.started # <<>>
      /\ Fault("bind")
      /\ net' = Sent(Without(p), e.out)
      /\ srv' = [srv EXCEPT ![p.to].fault = "null"]
      /\ mishap' = mishap \cup {"crash"}
      /\ UNCHANGED <<disk, trans, asked, answers, dups>>

\* The network loses it, or nobody listens any more.
Lose(p) ==
  /\ Fault("lose") \/ (~Alive(p.to) /\ UNCHANGED faults)
  /\ net' = Without(p)
  /\ mishap' = mishap \cup {"packet"}
  /\ UNCHANGED <<srv, disk, trans, asked, answers, dups>>

\* Mutant: the file is not pushed.
receive_success_unpushed(i) ==
  LET t == trans[i]
      n == t.node
  IN  /\ t.event = "success"
      /\ IF disk[n][t.file] \in Whole
         THEN /\ trans' = [trans EXCEPT ![i] = free_transfer([t EXCEPT !.event = "none"])]
              /\ answers' = [answers EXCEPT ![n] = Append(@, "SUCCESS")]
              /\ UNCHANGED <<net, mishap>>
         ELSE /\ trans' = [trans EXCEPT ![i].event = "none"]
              /\ mishap' = mishap \cup {"content"}
              /\ UNCHANGED <<answers, net>>

\* A file that is not the published one: no answer, and the transfer is leaked.
receive_success(i) ==
  LET t == trans[i]
      n == t.node
  IN  /\ t.event = "success"
      /\ IF disk[n][t.file] \in Whole
         THEN /\ trans' = [trans EXCEPT ![i] = free_transfer([t EXCEPT !.event = "none"])]
              /\ answers' = [answers EXCEPT ![n] = Append(@, "SUCCESS")]
              /\ net' = Sent(net, dhash_send_push(n, t.file))
              /\ UNCHANGED mishap
         ELSE /\ trans' = [trans EXCEPT ![i].event = "none"]
              /\ mishap' = mishap \cup {"content"}
              /\ UNCHANGED <<answers, net>>

\* Mutant: the client is not told.
receive_fail_silent(i) ==
  /\ trans[i].event = "fail"
  /\ trans' = [trans EXCEPT ![i] = free_transfer([trans[i] EXCEPT !.event = "none"])]
  /\ UNCHANGED <<answers, net, mishap>>

receive_fail(i) ==
  /\ trans[i].event = "fail"
  /\ trans' = [trans EXCEPT ![i] = free_transfer([trans[i] EXCEPT !.event = "none"])]
  /\ answers' = [answers EXCEPT ![trans[i].node] = Append(@, "FAILURE")]
  /\ UNCHANGED <<net, mishap>>

Callback(i) ==
  /\ Alive(trans[i].node)
  /\ receive_success(i) \/ receive_fail(i)
  /\ UNCHANGED <<srv, disk, asked, dups, faults>>

-----------------------------------------------------------------------------
(***************************************************************************)
(* The transfer threads.  A rendezvous connects a sender and a receiver of *)
(* two nodes that call each other; the two threads of a connection take    *)
(* their steps together.                                                   *)
(***************************************************************************)
Working(i, at) == trans[i].thread = at /\ Alive(trans[i].node)

Counterparts(i) ==
  {j \in DOMAIN trans : /\ Working(j, "connecting")
                        /\ trans[j].node = trans[i].peer /\ trans[j].peer = trans[i].node
                        /\ {trans[i].type, trans[j].type} = {"SEND", "RECEIVE"}}

\* UDT::connect, for the two of them.
Rendezvous(i) ==
  /\ Working(i, "connecting") /\ trans[i].type = "SEND"
  /\ \E j \in Counterparts(i) :
       trans' = [trans EXCEPT ![i].thread = "connected", ![i].partner = j,
                              ![j].thread = "connected", ![j].partner = i]
  /\ UNCHANGED <<srv, disk, net, asked, answers, dups, faults, mishap>>

\* UDT::connect waits for seconds: without a fault of the network it gives up
\* only when no counterpart is there or on its way.
Nobody(i) == Packets(net) = {} /\ Counterparts(i) = {}

ConnectFails(i) ==
  /\ Working(i, "connecting")
  /\ Fault("connect") \/ (Nobody(i) /\ UNCHANGED faults)
  /\ trans' = [trans EXCEPT ![i] = transfer_connect_fails(trans[i])]
  /\ mishap' = IF trans[i].type = "RECEIVE" THEN mishap \cup {"connect"} ELSE mishap
  /\ UNCHANGED <<srv, disk, net, asked, answers, dups>>

\* Nothing another thread can see happens between the end of a connection and the
\* return of its two threads.
Ends(i, succeeded) ==
  LET j == trans[i].partner
  IN  trans' = [trans EXCEPT ![i] = transfer_returns(trans[i], succeeded),
                             ![j] = transfer_returns(trans[j], succeeded)]

\* The receiver names the file, the sender opens it and tells its size, and the
\* receiver opens it for writing, which empties it.
Opens(i) ==
  LET t == trans[i]
      f == trans[t.partner].file
  IN  /\ Working(i, "connected") /\ t.type = "SEND" /\ Alive(t.peer)
      /\ IF dhash_local_file_exists(t.node, f)
         THEN /\ trans' = [trans EXCEPT ![i].thread = "receiving", ![i].file = f,
                                        ![t.partner].thread = "receiving"]
              /\ disk' = [disk EXCEPT ![t.peer][f] = "part"]
         ELSE Ends(i, FALSE) /\ UNCHANGED disk
      /\ UNCHANGED <<srv, net, asked, answers, dups, faults, mishap>>

(***************************************************************************)
(* UDT::sendfile and UDT::recvfile.  After a short UDT::send or UDT::recv  *)
(* in the exchange before them, which the loops of blocking_send_buf and   *)
(* blocking_recv_buf continue at the wrong place, the size is not right.   *)
(***************************************************************************)
Copies(i) ==
  LET t == trans[i]
  IN  /\ Working(i, "receiving") /\ t.type = "SEND" /\ Alive(t.peer)
      /\ \/ /\ disk' = [disk EXCEPT ![t.peer][t.file] =
                           IF disk[t.node][t.file] \in Whole THEN "copy" ELSE "part"]
            /\ UNCHANGED faults
         \/ Fault("short") /\ disk' = [disk EXCEPT ![t.peer][t.file] = "part"]
      /\ Ends(i, TRUE)
      /\ UNCHANGED <<srv, net, asked, answers, dups, mishap>>

StreamError(i) ==
  /\ \E at \in {"connected", "receiving"} : Working(i, at)
  /\ Fault("stream") \/ (~Alive(trans[i].peer) /\ UNCHANGED faults)
  /\ Ends(i, FALSE)
  /\ mishap' = mishap \cup {"stream"}
  /\ UNCHANGED <<srv, disk, net, asked, answers, dups>>

-----------------------------------------------------------------------------
\* What the event loops and the threads do by themselves.
Progress ==
  \/ \E p \in Packets(net) : Receive(p) \/ (Lose(p) /\ UNCHANGED faults)
  \/ \E i \in DOMAIN trans :
       \/ Callback(i) \/ Rendezvous(i) \/ Opens(i)
       \/ (ConnectFails(i) \/ Copies(i) \/ StreamError(i)) /\ UNCHANGED faults

Next ==
  \/ \E n \in Addr, f \in File : ClientRequest(n, f)
  \/ \E p \in Packets(net) : Receive(p) \/ Duplicate(p) \/ BindFails(p) \/ Lose(p)
  \/ \E i \in DOMAIN trans :
       \/ Callback(i)
       \/ Rendezvous(i)
       \/ ConnectFails(i)
       \/ Opens(i)
       \/ Copies(i)
       \/ StreamError(i)

Spec == Init /\ [][Next]_vars

FairSpec == Spec /\ WF_vars(Progress)

-----------------------------------------------------------------------------
\* The variables have their types: the packets, transfers and answers of the code.
TypeOK ==
  /\ \A n \in Addr : IsServer(srv[n])
  /\ disk \in [Addr -> [File -> {"none", "part", "copy", "original"}]]
  /\ \A p \in Packets(net) : p.to \in Addr /\ p.ttl \in 1 .. DATA_TTL /\ p.payload.name \in File
  /\ \A i \in DOMAIN trans : IsTransfer(trans[i], Addr, File)
  /\ asked \in [Addr -> Nat]
  /\ answers \in [Addr -> Seq({"LOCAL", "SUCCESS", "FAILURE"})]
  /\ dups \in Nat /\ faults \in 0 .. MaxFaults
  /\ mishap \subseteq {"crash", "packet", "content", "connect", "stream"}

\* The copy a file was published from is never emptied or overwritten, whatever
\* queries, pushes, duplicates and transfers do (process.cpp, transfer.cpp).
PublishedFilesSurvive == \A f \in File : \E n \in Addr : disk[n][f] = "original"

(***************************************************************************)
(* A transfer is freed at most once, and only when its thread has returned *)
(* and no event that will look at it is pending: either the thread frees   *)
(* it or a callback of the event loop does (transfer_connect).             *)
(***************************************************************************)
TransfersFreedOnce ==
  \A i \in DOMAIN trans :
    /\ trans[i].freed <= 1
    /\ trans[i].freed = 1 => trans[i].thread = "returned" /\ trans[i].event = "none"

(***************************************************************************)
(* A client is not told more than it asked for: one request is answered    *)
(* once, unless the network duplicated a packet, by one node of all those  *)
(* the query passes (dhash_process_query and what becomes of its replies). *)
(***************************************************************************)
AnsweredAtMostOnce == \A n \in Addr : Len(answers[n]) <= asked[n] + dups

(***************************************************************************)
(* A packet approaches its target from the front, and once it has been     *)
(* marked last, from behind; either way it visits no node twice, even when *)
(* the tables are wrong (next_route_node).  So while the tables are at     *)
(* rest no packet bounces until its ttl runs out.  With wrong tables a     *)
(* node may be visited once on each way.                                   *)
(***************************************************************************)
LookupsAreDirect ==
  \A p \in Packets(net) :
    DATA_TTL - p.ttl < IF p.last THEN 2 * Cardinality(Addr) ELSE Cardinality(Addr)

(***************************************************************************)
(* A client that asked is answered, unless a packet was lost or its ttl    *)
(* ran out, the connection failed, the file was not the published one, or  *)
(* a process ended: a transfer that breaks off is reported (receive_fail). *)
(***************************************************************************)
RequestsAnswered ==
  \A n \in Addr :
    asked[n] > 0 ~> \/ Len(answers[n]) >= asked[n]
                   \/ mishap \cap {"packet", "connect", "content", "crash"} # {}

(***************************************************************************)
(* A file a client was given gets a second copy, unless something goes     *)
(* wrong: receive_success pushes it, and the push is taken by the first    *)
(* node it reaches, which need not be the file's successor (as             *)
(* dhash_process_push never returns 1, a push is not routed on).           *)
(***************************************************************************)
DownloadsAreReplicated ==
  \A n \in Addr, f \in File :
    (\E k \in DOMAIN answers[n] : answers[n][k] = "SUCCESS")
      ~> \/ dhash_local_file_exists(next_route_node(srv[n], FileId[f], FALSE).addr, f)
         \/ mishap # {}

-----------------------------------------------------------------------------
\* Every request is answered: "Notify the control process that a file could not be
\* downloaded" (send.cpp:150).  Violated: a failed connection calls nobody back.
EveryRequestAnswered == \A n \in Addr : asked[n] > 0 ~> Len(answers[n]) >= asked[n]

\* A node that offers a file has it: "if we have the file, notify the requesting
\* node" (process.cpp:35).  Violated: a file that is being received exists.
OfferedFilesAreWhole ==
  \A p \in Packets(net) :
    p.payload.type = "QUERY_REPLY_SUCCESS" => disk[p.from][p.payload.name] \in Whole
=============================================================================
