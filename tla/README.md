# Tangent: a TLA+ model of the Chord server and of DHash

Tangent is a Chord peer-to-peer routing library in C, with a file-sharing client
(DHash) on top of it. This directory holds TLA+ modules that model the server, a
ring of servers, the packets on the wire, DHash and the logger, TLC configurations
that check them on small instances, and TLAPS proofs of the main safety properties
for every instance.

## The system

**Identifiers** (`src/util.c`). Nodes and data have 160-bit identifiers on a circle.
A node's identifier is the SHA-1 of its address and port.

**Finger table** (`src/finger.c`). A sorted, doubly linked list of the peers a server
knows. A finger is *passive* until it has answered a ping and *active* from then on.
The first active finger is the successor, the last active one the predecessor; the
server is responsible for the range (predecessor, self], which it keeps in
`pred_bound` and `node.id`. At most `MAX_PASSIVE_FINGERS` fingers are passive: a
further one evicts the passive finger with the most unanswered pings.

**Packet handlers** (`src/process.c`, `src/sendpkt.c`). Ten datagram types, one
handler each. Requests carry a *ticket* (`src/crypt.c`), a salted hash that the reply
must bring back.

**Timers** (`src/stabilize.c`, `src/join.c`). A new server does not know its address:
every second it asks its well known nodes for it. The first valid reply stops that
timer and starts stabilization, every three seconds: ping the fingers in turn and
drop those that do not answer, ask the successor for its predecessor, look for
backup successors and predecessors and for fingers, and every 60 rounds clean up the
table.

**Event loop** (`src/chord.c`, `src/dispatcher.c`, `simple_client/client.c`). One
thread, libevent; a handler or timer callback runs to completion.

**Packets** (`src/pack.c`, `src/dispatcher.c`, the generated protocol buffers). A
packet is a header with a type and a payload. A dispatcher is a table from types to
handlers and their arguments. Under DHash the payload of a Data packet is a packet
again, for a second dispatcher.

**DHash** (`file_client/`). A client asks its node for a file. The node sends a query
that is routed over Chord. The first node that has the file says so and starts to
send; if none has it, the file's successor says that. The asking node receives the
file over UDT in a thread of its own, verifies it, answers the client, and pushes the
file towards the file's successor.

**Logger** (`src/logger/`). Every source file has a logger, found by name in a hash
table; messages are written in pieces.

## Modules

| Module | Models | How |
| --- | --- | --- |
| `ChordId` | `util.c` | An identifier is the number its bytes denote. `id_is_between`, `chord_id_successor`, first and last of a set clockwise from a node. |
| `IdBytes` | `util.c` | The same functions on arrays of bytes, with carry and borrow, and random identifiers between two others. |
| `FingerTable` | `finger.c`, `struct ChordServer`, the range functions of `chord.c` | The list is a function `flist` from identifiers to fingers. Its order is derived from the identifiers. Each function of the code is an operator from server to server. |
| `Process` | `process.c`, `sendpkt.c`, `crypt.c` | A handler is an operator from server and message to `[srv, out]`: the server when it returns and the messages it sends. |
| `Stabilize` | `stabilize.c`, `join.c` | The timer callbacks, in the same form. Walks over the list are written with the position of a finger in it. |
| `ChordServer` | `chord.c`, the event loop, the network | One server among arbitrary peers: one action for each packet type and timer, restarts, and the properties. |
| `FairChordServer` | the persistent timers | Adds fairness of the timers, and a liveness property. |
| `FingerSet`, `FingerList`, `ListRefinement` | `finger.c`, `stabilize.c` | `FingerSet` is the state machine of the abstract table; `FingerList` the doubly linked list with its heap, pointers, loops and byte-array identifiers; `ListRefinement` the mapping under which the list implements the table. |
| `ChordRing` | several processes | Servers that send each other their datagrams. Each is an instance `Server(n)` of `ChordServer`. |
| `Messages`, `Packing` | `messages.pb-c.c`, `d_messages.pb-c.c`, `pack.c`, `file_client/pack.cpp` | Field descriptors; a packed message is a function from field numbers to values. The protobuf-c runtime is external. |
| `Dispatcher`, `Wire` | `dispatcher.c`, the tables of `chord.c` and `dhash.cpp` | The way of a packet from the sender's structure through one or two tables to its handler. |
| `Transfer` | `file_client/transfer.cpp` | The structure of a file transfer, and what its thread and the event loop do to it. |
| `DHash` | `file_client/` | Nodes with disks, clients, packets and transfers. |
| `HashMap`, `Clog`, `MessageLog` | `logger/` | The open-addressing table with rehashing, the loggers on top of it, and what logging promises, which `Clog` implements. |
| `MC...` | | Values of the constants for TLC. |
| `...Proofs` | | The proofs (below). |

## One server

**State.**

- `srv` is the `ChordServer` structure, with the names of the code. Two timer events
  are Booleans (added or not). `ticket_salt` is the number of the start that drew it.
  `fault` says whether a failed assertion of `finger.c`, `process_pong` or `stabilize`
  (`"assert"`), the assertion of `send_raw_v4` (`"family"`), a NULL pointer (`"null"`)
  or a read of a freed finger (`"freed"`) has ended the process.
- `idx` is the static counter of `stabilize()`, kept modulo the clean-up period: the
  code asks for it only modulo the two periods, and one divides the other.
- `sent` is the set of requests sent whose answers come back to this server.

**Actions.**

`RecvStab`, `RecvNotify`, `RecvPing` handle requests of a peer, at any time, and
`RecvFs` a find_successor request of any node that a peer sends on.
`RecvAddrDiscoverReply`, `RecvFsReply`, `RecvStabReply`, `RecvPong` handle a reply to
a request in `sent`, at any time after it, any number of times: datagrams are lost
(the action is not taken), late, reordered and duplicated. Replies that name a node
name any node. `RecvOwnPing` is a ping to ourselves, which happens when we are one
of our own well known nodes. `DiscoverAddr` and `Stabilization` are the timers.
`Restart` ends the process at any moment and starts it anew (`MaxStarts` bounds how
often): nothing is kept but the address of the socket. An action is the whole handler,
and none but `Restart` is taken once the process has ended.

A peer is a node the server's socket can reach: with an IPv4 socket (`IsV6` is FALSE)
those with an IPv4-mapped address (`V4Mapped`). Replies and requests that were sent on
may name any node, and a datagram to one the socket cannot reach fails the assertion
of `send_raw_v4`.

Address discovery and data requests change nothing in the server. What it sends on
for data and find_successor requests is checked in every state by
`ForwardingMakesProgress`.

`insert_finger` does not write `*fnew` when the address is the server's own;
`process_notify` and `process_ping` then read an uninitialized variable. The model
takes both values (`garbage`).

## The ring

`ChordRing` has the variables of `ChordServer` for every server, and `net`, the
datagrams in flight. `Receive` hands one to its handler, `Timer` fires the timer of a
server, `Crash` ends one for good. A datagram may be dropped with any step
(`Transmit` keeps any `Capacity` of them) and may arrive in any order. `sent` records
the requests of each server; it is what the instance `Server(n)` needs to know. The
ring starts with servers just started, or long up with any active fingers that
`Known` lists, right or wrong. Each server is a process of its own.

`Server(n)` is one server whose peers may send anything that is a request of theirs
or answers one of its own. `ServersBehave` says that this leaves nothing out: a step
of the ring is, for each server, a step of `Server(n)` or none. As far as that run goes,
what is proved of the steps of `ChordServer` holds of every server of a ring. All
servers of the ring have IPv6 sockets, which reach every node.

## The list behind the table

`FingerList` keeps a heap of `Finger` structures. Its actions are the functions of
`finger.c` and the loops of `stabilize.c`, written along the pointers. Under the
mapping of `ListRefinement`, which forgets the pointers and turns byte arrays into
numbers, it implements `FingerSet`, whose actions are the operators the other modules
use: the closed forms there are what the loops compute, message by message.

## Packets

In `Wire` a step is the arrival of a packet of any type, as it is, with a field more
(a newer peer) or less, or of an unknown type, at one of two servers of a process
with or without DHash. `received` keeps the packet, what was called with which
arguments, whether it travels on and how many structures stay allocated.

## DHash

`srv` is the Chord server of every node, at rest: tables do not change, but need not
be right. `disk` says what each node has of each file: nothing, a part, a copy, or
the original. `net` is a bag, so that a duplicate counts; its two operations, `Sent`
and `Taken`, are the module's own, since the theorems that come with the library's bags
slow every proof down. `trans` holds the transfer structures in the order they are
allocated. `asked` and `answers` are the clients'. `mishap` collects what has gone
wrong, for the liveness properties.

`Receive` runs `dhash_unpack_chord_data` to its end: the handler of the payload and,
if it returns non-zero, `process_data`, which routes the packet on. `Duplicate` does
so and leaves the packet in the network. `BindFails` is `new_transfer` returning
NULL, which its callers write through. `Callback` is `receive_success` or
`receive_fail`, in the event loop. `Rendezvous`, `ConnectFails`, `Opens`, `Copies` and
`StreamError` are the steps of two threads at the ends of a connection. `Lose` and
the faults are what the network and UDT do. UDT is external.

The event of the control socket is created and not added (`dhash.cpp:202`), so
requests are modelled as the handlers are written to take them.

## The logger

`Clog` looks the logger up with every piece of a message. Elements of the hash table
move when it is doubled, and doubling may nest. `PartialLog` prints directly, the
print functions of `util.c` through a stream with a buffer; `LogsMessagesInOrder` says
that the two implement `MessageLog`.

## What is abstracted

- An address is a model value; the address-to-identifier hash is injective.
- Every node that tells us our address tells us the same one (`Self`).
- A ticket is the tuple that is hashed. Its expiry is indistinguishable from a lost
  reply; hash collisions are left out.
- Round-trip times are recorded and read nowhere. Log output is left out, with the
  address buffers that `ping` formats for a log line (`stabilize.c:249`).
- `find_successor` messages carry no target identifier (the code computes several and
  sends none of them), so those computations are left out.
- `remove_finger` in a loop is one operator, `remove_fingers`; the range after the
  loop is the same.
- The contents of a file are one of four values; a short send or receive makes a
  part. The signature check (`CMS_verify`) tells a whole file from a part.
- Two ends of a UDT connection take their steps together. A rendezvous connects a
  sender with a receiver; pairs of equal roles, which two crossing requests between
  the same nodes could make, are left out.
- A field of a packet has one value that is not its default.

## What TLC checks

| Run | Configuration | States | Shows |
| --- | --- | --- | --- |
| `server` | `ChordServer.cfg` | 15,515 | The safety properties of one server. |
| `restart` | `ChordServerRestart.cfg` | 52,160 | Tickets and dormancy across a restart. |
| `fair_timers` | `FairChordServer.cfg` | 95,579 | `SettledFingersKeepAnswering`. |
| `representation` | `FingerList.cfg` | 25,395 | The linked list implements the table. |
| `ring` | `ChordRing.cfg` | 42,022 | Servers behave, ranges are disjoint, the dead are forgotten. |
| `wire` | `Wire.cfg` | 504 | Packets reach their handlers with what was sent. |
| `dhash` | `DHash.cfg` | 58,323 | The properties of DHash. |
| `loggers` | `Clog.cfg` | 23,737 | Loggers are found and messages come out in order. |
| `stab_reply_race` | `ChordServerStabReply.cfg` | | Violated: see Findings. |
| `clean_up` | `ChordServerClean.cfg` | | Violated: see Findings. |
| `dhash_unanswered` | `DHashUnanswered.cfg` | | Violated: see Findings. |
| `dhash_offers` | `DHashOffers.cfg` | | Violated: see Findings. |

One server:

- `PassiveFingersCounted`: the counter three functions adjust is the number of
  passive fingers, and is within its limit.
- `RangeFollowsPredecessor`: the cached range starts at the current predecessor.
- `AssertionsHold`: the assertions of `finger.c:173` (there is a passive finger to
  evict), `process.c:350` (a pong loses no predecessor) and `stabilize.c:75` (a
  successor implies a predecessor) do not fail. Those of `util.c:53` and `:76` are the
  range of `to_fix_finger` in `TypeOK`; the one of `sendpkt.c:158` can fail (end of Findings).
- `PredecessorOutlivesInsertion`: the pointer to the predecessor that `process_stab`
  holds across `insert_finger` is not the finger evicted and freed there.
- `ActiveFingersWerePinged`: an active finger was pinged by this run of the server.
- `AddressWasAskedFor`: a server that knows its address asked for it in this run. An
  old reply that came after a restart would otherwise wake the server early.
- `DormantUntilAddressKnown`: no finger and no stabilization before the address is
  known, exactly one timer at any time, never oneself in the table.
- `ForwardingMakesProgress`: no packet is sent on to the server itself; a hop not
  marked *last* lies strictly between the server and the target.
- `ActiveFingersAreKept` (of steps): an active finger leaves only for unanswered
  pings, in a clean-up, or with the process.
- `SettledFingersKeepAnswering` (liveness): if the process lives and the set of
  fingers settles, every finger is pinged again and again and answers again and again.

The list:

- `ListIsLinked`: the `next` and `prev` pointers run through the same allocated
  fingers, in clockwise order from the server, and nothing else is allocated.
- `DrawnIdsLieBetween`: a random identifier drawn between two others lies there.
- `ImplementsTable` (refinement): every operation does what `FingerSet` says.

The ring:

- `ServersBehave` (of steps): see above.
- `PeersShareNoIdentifier`: two servers that have each other as active fingers never
  claim the same identifier.
- `DeadNodesAreForgotten` (liveness): a node that is down is in the end in no table,
  and stays out, although servers that still have it name it to others.

Packets:

- `HandlersReadWhatWasSent`: the handlers a packet is meant for are called, no others,
  with the fields the sender assigned.
- `HandlersGetTheirArguments`: each finds its arguments in the places its argument
  structure has them, and the server is the one the packet came to.
- `UnhandledPacketsTravelOn`: a Data packet travels on exactly when this node did not
  deal with what is inside.
- `HandledPacketsAreFreed`: structures stay allocated only for packets that are
  dropped or passed on.

DHash:

- `PublishedFilesSurvive`: the copy a file was published from is never overwritten.
- `TransfersFreedOnce`: a transfer is freed at most once, after its thread has returned
  and when no event will look at it.
- `AnsweredAtMostOnce`: a client is not told more than it asked, duplicates aside.
- `LookupsAreDirect`: a packet visits no node twice on its way forward and, once it is
  marked *last*, no node twice on its way back. When tables are wrong the two ways may
  share nodes, so a packet marked *last* has made fewer than twice as many hops as
  there are nodes.
- `RequestsAnswered` (liveness): a client is answered, unless a packet is lost, the
  connection fails, the content is wrong or a process ends.
- `DownloadsAreReplicated` (liveness): a file given to a client gets a second copy,
  unless something goes wrong.

The logger:

- `EveryLoggerIsFound`: no logger is lost when the table grows.
- `LogsMessagesInOrder` (refinement): the log holds the messages of high enough level,
  whole and in order.

**Bounds of one server.** Three peers (two and an unreachable node with a restart) and
3-bit identifiers. In `server` one finger may be passive, so that fingers are evicted
while another is active. In `fair_timers` two may be, so that an eviction has a
choice; there it happens only when no finger is active. In `restart` two peers and a
limit of two leave evictions out: its question is about tickets and dormancy. Two
unanswered pings (`PING_THRESH`) drop a finger; a clean-up happens every second round,
the predecessor is pinged every round. Identifiers 1, 4, 6, 7 with the server at 4 put
fingers on both sides of the wrap-around; in `server` they are 1, 4, 5, 6, so that a
clean-up meets a finger (6) that is exactly `id + 2^k`. All nodes are IPv4 nodes, but
for one in `restart`, which is no peer but is named in replies and in requests sent
on. `NSUCCESSORS` is 1 in most runs, so that a clean-up has fingers to remove, and 2
in `fair_timers`, so that backups are walked. One well known node is the server
itself. The proofs have none of these bounds. The process may end by a fault, so
deadlock is not checked.

**Bounds of the other runs.** `representation`: identifiers of three bytes of two
bits; the server at 00 11 11 makes its successors carry over two bytes, and one of the
three peers lies beyond the wrap-around; one is exactly `id + 2^2`. `ring`: two
servers and a node that is down, one datagram in flight (so any of several is lost),
one crash; the starts include tables that name the dead node. `wire`: two servers, so
that an argument of the wrong one shows. `dhash`: three nodes, one file, two requests
or duplicates in all and one fault of any other kind; one of the starts has a wrong
table, in which a query is turned back. `DATA_TTL` is 10 as in the code, so no ttl
runs out on three nodes. `loggers`: a table of 8 places with chains of 2, and four
names whose chains collide: the fourth doubles the table, and moving the elements
doubles it once more.

**Fairness.** `FairChordServer` is one run of the process, without `Restart`. Only the
timers are fair, together: whichever is added fires again, since both are persistent
libevent events and the loop runs expired timers in every iteration. Peers may be
silent for ever and any datagram may be lost. The bit `ticks` flips with every firing,
and `WF_ticks(TimerFires)` says it goes on flipping while the process lives; one of
the two timers is always added (`DormantUntilAddressKnown`), so this asks nothing the
next-state relation cannot do. `ChordRing` assumes the same of the timers of every
server that is up, and nothing of the network. `DHash` assumes weak fairness of
`Progress`: the event loops and threads go on taking steps while there are any. Faults
and requests are not fair.

### Findings

1. `process_stab_reply` reads `succ->node` without a test (`process.c:265`). When a
   reply arrives after its sender, the only active finger, was dropped, `succ` is NULL.
   Its comment presumes a "current successor". In TLC's trace the round that sends the
   request ends with a clean-up that removes the finger; unanswered pings do as well.
2. `clean_finger_list` is to keep the predecessor (`stabilize.c:279`). It keeps the
   last `NPREDECESSORS` fingers of the list, active or not. When they are passive, the
   active predecessor before them may be removed, and the server takes over its range.
3. When `UDT::connect` fails, the thread of a transfer returns without activating the
   failure event (`transfer.cpp:267`): neither callback runs, the client that waits for
   the file is not told, and the transfer is not freed. `send.cpp:150` has a function
   to tell it.
4. `dhash_process_query` offers a file "if we have the file" (`process.cpp:35`). It
   tests that the file exists. A transfer creates the file before its contents arrive,
   so a node that is still receiving a file offers it to the next.

Two more things the model shows, which no run asks about:

- `clean_finger_list` removes a proper finger that is exactly `id + 2^k`, with every
  finger before it down to the last backup successor: its predecessor is looked for
  between two equal identifiers (`stabilize.c:336`), and `id_is_between` finds every
  other identifier there. `improper_fingers` has this case, and `representation` meets
  it. With 160 bits it is rare.
- An IPv4 server that is to send a datagram to an IPv6 node, because it was asked for
  that node's successor or told of it in a reply, fails `assert(V4_MAPPED(addr))`
  (`sendpkt.c:158`) and ends, although the repository's README (35-37) has IPv4 and IPv6
  peers in one ring. It is the fault `"family"` of the model, met in `restart`.

## What is proved

Eight modules hold proofs, checked by TLAPS. They have none of the bounds above.

### One server

`ChordServerProofs` proves, for any number of peers, any identifier length, any
limits and any number of restarts, that `Spec` implies `TypeOK`, the safety invariants
above and the action property `ActiveFingersAreKept`. Assumed are the named
assumptions of the modules: addresses hash to different identifiers; limits are
positive; a server with an IPv4 socket has an IPv4 address; `CHORD_CLEAN_PERIOD` is a multiple of `PERIOD_PING_PRED` and more than 1;
`2^CHORD_ID_BITS` is a positive number (arithmetic the provers do not know).

None of the properties is inductive alone; the invariant `Inv` joins them. That the
range is right after an eviction needs the evicted finger to be passive, hence the
counter to be exact, so that there is a passive finger when the limit is reached. The
counter is exact only if an insertion adds a new identifier, and never the server's
own. An active finger was pinged only because a finger is filed under the hash of
its own address, so that no insertion replaces the address of an active finger. So
`Consistent` (in `FingerTableProofs`) says: typed, filed under the hash, counted, not
containing the server, range at the predecessor.

The argument goes bottom up:

1. `ChordIdProofs`: seen from a node, `id_is_between` is a strict total order
   (`BetweenIsTotalOrder`), by the distance going clockwise; every non-empty set has
   a first and a last (`FirstFromIsFirst`, `LastFromIsLast`).
2. `FingerTableProofs`: every operation on the table keeps `Consistent` and says what
   it does to the active fingers; the next hop chosen from a table is closer to the
   target.
3. `HandlerProofs`: every handler but `process_pong`, and every timer callback, keeps
   the server consistent and activates nothing (`Follows`); `process_pong` activates
   the sender, if the ticket is ours.
4. `ChordServerProofs`: every action keeps `Inv`, and the theorems follow. Routing
   needs one more argument: if the target is not local there is an active finger
   (else the range would be the circle), and if it lies beyond the successor, then the
   successor, and so the closest preceding finger, lies before it.

### DHash

Proved for any number of nodes, files, requests, duplicates and faults, and any
finger tables, right or wrong.

- `DHashProofs`: `PublishedFilesSurvive` (`FilesSurvive`) and `TransfersFreedOnce`
  (`FreedOnce`). The invariant says that a query, a reply that offers a file, and a
  receiving transfer exist only for a node that did not publish the file (so opening
  it for writing empties no original), that the two ends of a connection know each
  other, are in the same state and agree on the file, and that a transfer whose thread
  runs is not freed and has no event.
- `DHashProofs`, last part: `AnsweredAtMostOnce` (`AnsweredOnce`). The invariant `DebtsBounded`
  counts what a client is owed: every copy in the network of a query of its node and of a
  reply to it, every transfer with callbacks that has not called back, and the answers
  given. This sum is at most the number of requests and duplicates. Each handler pays
  for what it does (`Modest`): it sends one packet, starts one transfer or gives one
  answer, and only when the packet it consumes was owed for.
- `QueryProofs`: `TypeOK` (`TypeCorrect`) and `LookupsAreDirect` (`DirectLookups`). A
  query that is not marked *last* has the nodes between itself and its target `Ahead`
  of it; one that is has the nodes `Behind` it, between the target and itself. A hop
  takes at least one node from its set, since the closest preceding finger lies
  strictly between; turning round starts the second set. Hops made and nodes left stay
  below the number of nodes, or twice that. It rests on the routing lemmas of
  `FingerTableProofs`, which need the tables consistent, not right.

### Packets

`WireProofs` proves `HandlersReadWhatWasSent`, `HandlersGetTheirArguments`,
`UnhandledPacketsTravelOn` and `HandledPacketsAreFreed`, for any sets of tickets,
addresses, ports, names and times to live, and any number of servers. The facts about
messages it rests on are in `WireMessageProofs`.

- `RoundTrip` is the fact about packing: for every well-formed descriptor, a buffer
  that carries the fields that were packed unpacks to the message, with defaults for
  fields that were left out. Fields of a newer version in the buffer make no difference.
- `ServerForms`, `DHashForms`: the generated descriptors are well formed.
- `ServerTable`, `DHashTable`, `StartedTable`: which handler each type has, before and
  after `dhash_start`. `PushPop`: the argument DHash pushes around a call leaves the
  table as it was.
- The invariant `WireInv` says that the tables stay as registered and that the last
  packet was handled soundly; there is one lemma for each kind of packet
  (`StepChord`, `StepData`, `StepDHash`, `StepReply`).

### What is only model-checked

- The liveness properties (`SettledFingersKeepAnswering`, `DeadNodesAreForgotten`,
  `RequestsAnswered`, `DownloadsAreReplicated`): the prover has no reasoning about
  fairness and ENABLED.
- `ServersBehave` and `PeersShareNoIdentifier`: the ring has no proofs. An argument for
  the second: a range starts at the last active finger, so that an active finger of n
  is not inside n's range; two ranges that end at their servers and do not contain each
  other's are disjoint.
- `ListIsLinked` and `DrawnIdsLieBetween`: the pointers and the arithmetic on bytes.
- `ImplementsTable`: the mapping turns byte arrays into numbers with powers of two, and
  compares the loops with closed forms that pick the first or last of a set by the
  numbers. The provers know nothing of powers.
- `EveryLoggerIsFound` and `LogsMessagesInOrder`: `hashmap_put` and `hashmap_rehash` call
  each other, so `HashMap` uses recursive operators, which TLAPS does not handle.
- The four violated properties.

## Not modelled

- Configuration parsing, host names and sockets (`chord.c`, `hosts.c`), error printing
  and drawing (`eprintf.c`, `grid.c`, `message_print.c`): input and output only.
- Round-trip times: recorded and read nowhere.
- Functions nobody calls: removal from and iteration over the logger's hash table,
  `free_finger_list`, the dispatcher's list of handlers beyond the size of its table.
- Several servers in one process sharing the static counter of `stabilize()`; each
  server of the ring has its own.
- Finger tables that change while a query is under way: `DHash` has tables at rest.
