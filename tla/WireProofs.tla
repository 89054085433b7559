---------------------------- MODULE WireProofs ----------------------------
(***************************************************************************)
(* Proofs about the way of a packet: every packet of the program reaches   *)
(* its handler with its fields and arguments.                              *)
(***************************************************************************)
EXTENDS WireMessageProofs

-----------------------------------------------------------------------------
(***************************************************************************)
(* What became of a packet.                                                *)
(***************************************************************************)
Plain(name) == IF name = "dhash_unpack_chord_data" THEN "process_data" ELSE name

\* The handlers that DHash packets are for.
DHashProcess == {p.process : p \in DHashPackets}

\* The four properties, of one packet received.
Read(r) ==
  {<<Plain(c.process), c.msg>> : c \in Range(r.calls)} = {<<p.process, p.msg>> : p \in Meant(r)}

\* The handlers' arguments,
Argued(r) ==
  \A c \in Range(r.calls) :
    c.args = CASE c.process = "dhash_unpack_chord_data" -> <<r.at, DHash>>
               [] c.process \in DHashProcess -> <<DHash, r.at>>
               [] OTHER -> <<r.at>>

\* what is forwarded,
Travelled(r) ==
  Len(r.packets) = 2 =>
    CASE r.packets[2].process = "none: unknown type" -> r.forwarded
      [] r.packets[2].process = "none: required field missing" -> TRUE
      [] OTHER -> r.forwarded <=> r.returned # 0

\* what is freed,
Freed(r) ==
  r.returned = 0 /\ r.calls # <<>> =>
    r.leaked = IF Len(r.packets) = 1 THEN 0 ELSE IF Len(r.calls) = 2 THEN 1 ELSE 2

\* and all of them.
Sound(r) == Read(r) /\ Argued(r) /\ Travelled(r) /\ Freed(r)

\* The invariants say that of every packet received.
LEMMA SoundIs ==
  /\ HandlersReadWhatWasSent <=> \A r \in received : Read(r)
  /\ HandlersGetTheirArguments <=> \A r \in received : Argued(r)
  /\ UnhandledPacketsTravelOn <=> \A r \in received : Travelled(r)
  /\ HandledPacketsAreFreed <=> \A r \in received : Freed(r)
<1>1. HandlersReadWhatWasSent <=> \A r \in received : Read(r)
  BY Zenon DEF HandlersReadWhatWasSent, Read, Plain
<1>2. HandlersGetTheirArguments <=> \A r \in received : Argued(r)
  BY Zenon DEF HandlersGetTheirArguments, Argued, DHashProcess
<1>3. UnhandledPacketsTravelOn <=> \A r \in received : Travelled(r)
  BY Zenon DEF UnhandledPacketsTravelOn, Travelled
<1>4. HandledPacketsAreFreed <=> \A r \in received : Freed(r)
  BY Zenon DEF HandledPacketsAreFreed, Freed
<1> QED
  BY <1>1, <1>2, <1>3, <1>4

\* DHash packets are for handlers of DHash.
LEMMA DHashNames ==
  /\ DHashProcess \subseteq DHashHandlers
  /\ "dhash_unpack_chord_data" \notin DHashProcess
<1>1. ASSUME NEW p \in DHashPackets
      PROVE  p.process \in DHashHandlers /\ Ours(p.process)
  BY DHashSealed, Zenon
<1> QED
  BY <1>1, Zenon DEF DHashProcess, Ours

\* The sets of calls and packets, as long as there are at most two.
LEMMA Members ==
  ASSUME NEW x, NEW y
  PROVE  /\ Range(<<x, y>>) = {x, y} /\ Range(<<x>>) = {x} /\ Range(<<>>) = {}
         /\ Len(<<x, y>>) = 2 /\ Len(<<x>>) = 1 /\ <<x>> # <<>> /\ <<x, y>> # <<>>
         /\ <<x, y>>[2] = y /\ Len(<<x>>) # 2 /\ Len(<<x, y>>) # 1
BY DEF Range

\* Two single calls, one after the other.
LEMMA Joined ==
  ASSUME NEW x, NEW y
  PROVE  <<x>> \o <<y>> = <<x, y>>
BY Pairs, Zenon

\* A packet that its handler took.
LEMMA OneCall ==
  ASSUME NEW s, NEW v, NEW returned, NEW c, Ours(v.process), v.process \notin DHashHandlers,
         c.process = v.process, c.msg = v.msg, c.args = <<s>>,
         NEW leaked, returned = 0 => leaked = 0,
         NEW r, r = Received(s, <<v>>, returned, <<c>>, FALSE, leaked)
  PROVE  Sound(r)
<1>1. /\ r.at = s /\ r.packets = <<v>> /\ r.returned = returned /\ r.calls = <<c>>
      /\ r.leaked = leaked
  BY DEF Received
<1>2. Range(r.calls) = {c} /\ Range(r.packets) = {v} /\ Len(r.packets) = 1
  BY <1>1, Members, Zenon
<1>3. Read(r)
  <2>1. Meant(r) = {v}
    BY <1>2, Zenon DEF Meant, Ours
  <2>2. Plain(c.process) = v.process
    BY Zenon DEF Plain, Ours
  <2> QED
    BY <1>2, <2>1, <2>2, Zenon DEF Read
<1>4. Argued(r)
  BY <1>1, <1>2, DHashNames, Zenon DEF Argued, Ours
<1>a. Len(r.packets) = 1 /\ Len(r.packets) # 2
  BY <1>1, Members, Zenon
<1>5. Travelled(r)
  BY <1>a, Zenon DEF Travelled
<1>6. Freed(r)
  BY <1>1, <1>a, Zenon DEF Freed
<1> QED
  BY <1>3, <1>4, <1>5, <1>6, Zenon DEF Sound

\* A packet that no handler took.
LEMMA NoCall ==
  ASSUME NEW s, NEW v, NEW returned, NEW leaked,
         v.process = "none: required field missing" \/ v.process = "none: unknown type",
         NEW r, r = Received(s, <<v>>, returned, <<>>, FALSE, leaked)
  PROVE  Sound(r)
<1>1. r.packets = <<v>> /\ r.calls = <<>>
  BY Zenon DEF Received
<1>2. Range(r.calls) = {} /\ Range(r.packets) = {v} /\ Len(r.packets) = 1
  BY <1>1, Members, Zenon
<1>3. Meant(r) = {}
  BY <1>2, Zenon DEF Meant
<1>4. Read(r) /\ Argued(r)
  BY <1>2, <1>3, Zenon DEF Read, Argued
<1>a. Len(r.packets) = 1 /\ Len(r.packets) # 2
  BY <1>1, Members, Zenon
<1>5. Travelled(r)
  BY <1>a, Zenon DEF Travelled
<1>6. Freed(r)
  BY <1>1, <1>a, Zenon DEF Freed
<1> QED
  BY <1>4, <1>5, <1>6, Zenon DEF Sound

\* A Data packet under DHash whose inner packet a handler took.
LEMMA TwoCalls ==
  ASSUME NEW s, NEW p, NEW v, NEW returned, NEW c, NEW d,
         p.process = "process_data", c.process = "dhash_unpack_chord_data",
         c.msg = p.msg, c.args = <<s, DHash>>,
         Ours(v.process), v.process \in DHashProcess,
         d.process = v.process, d.msg = v.msg, d.args = <<DHash, s>>,
         NEW forwarded, forwarded <=> returned # 0,
         NEW leaked, returned = 0 => leaked = 1,
         NEW r, r = Received(s, <<p, v>>, returned, <<c, d>>, forwarded, leaked)
  PROVE  Sound(r)
<1>1. /\ r.at = s /\ r.packets = <<p, v>> /\ r.returned = returned /\ r.calls = <<c, d>>
      /\ r.leaked = leaked /\ r.forwarded = forwarded
  BY DEF Received
<1>2. /\ Range(r.calls) = {c, d} /\ Range(r.packets) = {p, v} /\ Len(r.packets) = 2
      /\ Len(r.calls) = 2 /\ r.packets[2] = v
  <2>1. Range(<<c, d>>) = {c, d} /\ Len(<<c, d>>) = 2
    BY Members, Zenon
  <2>2. Range(<<p, v>>) = {p, v} /\ Len(<<p, v>>) = 2 /\ <<p, v>>[2] = v
    BY Members, Zenon
  <2> QED
    BY <1>1, <2>1, <2>2, Zenon
<1>3. Read(r)
  <2>1. Meant(r) = {p, v}
    BY <1>2, Zenon DEF Meant, Ours
  <2>2. Plain(c.process) = p.process /\ Plain(d.process) = v.process
    BY Zenon DEF Plain, Ours
  <2> QED
    BY <1>2, <2>1, <2>2 DEF Read
<1>4. Argued(r)
  BY <1>1, <1>2, DHashNames, Zenon DEF Argued, Ours
<1>5. Travelled(r)
  BY <1>1, <1>2, Zenon DEF Travelled, Ours
<1>6. Freed(r)
  BY <1>1, <1>2 DEF Freed
<1> QED
  BY <1>3, <1>4, <1>5, <1>6 DEF Sound

\* A Data packet under DHash whose inner packet no handler took.
LEMMA InnerNotCalled ==
  ASSUME NEW s, NEW p, NEW v, NEW returned, NEW c,
         p.process = "process_data", c.process = "dhash_unpack_chord_data",
         c.msg = p.msg, c.args = <<s, DHash>>,
         v.process = "none: required field missing" \/ v.process = "none: unknown type",
         NEW forwarded, v.process = "none: unknown type" => forwarded = TRUE,
         NEW r, r = Received(s, <<p, v>>, returned, <<c>>, forwarded, 2)
  PROVE  Sound(r)
<1>1. /\ r.at = s /\ r.packets = <<p, v>> /\ r.returned = returned /\ r.calls = <<c>>
      /\ r.leaked = 2 /\ r.forwarded = forwarded
  BY Zenon DEF Received
<1>2. /\ Range(r.calls) = {c} /\ Range(r.packets) = {p, v} /\ Len(r.packets) = 2
      /\ Len(r.calls) = 1 /\ r.packets[2] = v
  <2>1. Range(<<c>>) = {c} /\ Len(<<c>>) = 1
    BY Members, Zenon
  <2>2. Range(<<p, v>>) = {p, v} /\ Len(<<p, v>>) = 2 /\ <<p, v>>[2] = v
    BY Members, Zenon
  <2> QED
    BY <1>1, <2>1, <2>2, Zenon
<1>3. Read(r)
  <2>1. Meant(r) = {p}
    BY <1>2, Zenon DEF Meant
  <2>2. Plain(c.process) = p.process
    BY Zenon DEF Plain
  <2>3. {<<Plain(x.process), x.msg>> : x \in Range(r.calls)} = {<<Plain(c.process), c.msg>>}
    BY <1>2, Zenon
  <2>4. {<<x.process, x.msg>> : x \in Meant(r)} = {<<p.process, p.msg>>}
    BY <2>1, Zenon
  <2> QED
    BY <2>2, <2>3, <2>4, Zenon DEF Read
<1>4. Argued(r)
  BY <1>1, <1>2, DHashNames, Zenon DEF Argued
<1>5. Travelled(r)
  BY <1>1, <1>2, Zenon DEF Travelled
<1>6. Freed(r)
  <2>1. Len(r.packets) # 1 /\ Len(r.calls) # 2
    BY <1>1, Members, Zenon
  <2> QED
    BY <1>1, <2>1, Zenon DEF Freed
<1> QED
  BY <1>3, <1>4, <1>5, <1>6, Zenon DEF Sound

-----------------------------------------------------------------------------
(***************************************************************************)
(* The steps.                                                              *)
(***************************************************************************)
Tables ==
  /\ \/ dispatcher = [s \in Server |-> new_server(s)]
     \/ dispatcher = [s \in Server |-> dhash_start(s)]
  /\ chord_dispatcher = new_dhash

\* The table of a server, with or without DHash.
LEMMA ServerEntries ==
  ASSUME Tables, NEW s \in Server
  PROVE  LET d == dispatcher[s]
         IN  /\ DOMAIN d = 0 .. 9
             /\ \A type \in 0 .. 9 : type # 2 => d[type] = new_server(s)[type]
             /\ d[2].unpack = data__descriptor
             /\ d[2].process = "process_data" => d[2].process_args = <<s>>
             /\ d[2].process = "dhash_unpack_chord_data" => d[2].process_args = <<s, DHash>>
             /\ d[2].process \in {"process_data", "dhash_unpack_chord_data"}
<1> DEFINE d == dispatcher[s]
<1>1. d = new_server(s) \/ d = dhash_start(s)
  BY DEF Tables
<1>2. ASSUME d = new_server(s)
      PROVE  /\ DOMAIN d = 0 .. 9
             /\ d[2] = [unpack |-> data__descriptor, process |-> "process_data",
                        process_args |-> <<s>>]
  <2>1. IsTable(d, 9) /\ d[2] = init_handler(s, data__descriptor, "process_data")
    BY <1>2, ServerTable
  <2> HIDE DEF d
  <2> QED
    BY <2>1 DEF IsTable, init_handler
<1>3. ASSUME d = dhash_start(s)
      PROVE  /\ DOMAIN d = 0 .. 9
             /\ \A type \in 0 .. 9 : type # 2 => d[type] = new_server(s)[type]
             /\ d[2] = [unpack |-> data__descriptor, process |-> "dhash_unpack_chord_data",
                        process_args |-> <<s, DHash>>]
  <2>1. /\ IsTable(d, 9)
        /\ \A type \in 0 .. 9 : type # 2 => d[type] = new_server(s)[type]
        /\ d[2] = [unpack |-> data__descriptor, process |-> "dhash_unpack_chord_data",
                   process_args |-> <<s, DHash>>]
    BY <1>3, StartedTable
  <2> HIDE DEF d
  <2>2. DOMAIN d = 0 .. 9
    BY <2>1 DEF IsTable
  <2> QED
    BY <2>1, <2>2
<1> HIDE DEF d
<1>4. CASE d = new_server(s)
  BY <1>2, <1>4 DEF d
<1>5. CASE d = dhash_start(s)
  BY <1>3, <1>5 DEF d
<1> QED
  BY <1>1, <1>4, <1>5, Zenon

\* The server that is pushed is the second argument of the handler, and popped again.
LEMMA PushPop ==
  ASSUME NEW type, NEW s
  PROVE  LET e == dispatcher_push_arg(new_dhash, type, s)
         IN  /\ dispatcher_pop_arg(e, type) = new_dhash
             /\ DOMAIN e = 0 .. 4
             /\ \A desc, process :
                  type \in 0 .. 4 /\ new_dhash[type] = init_handler(DHash, desc, process) =>
                    e[type] = [unpack |-> desc, process |-> process, process_args |-> <<DHash, s>>]
<1> DEFINE e == dispatcher_push_arg(new_dhash, type, s)
<1>1. IsTable(new_dhash, 4) /\ DOMAIN new_dhash = 0 .. 4
  BY DHashTable DEF IsTable
<1>2. CASE type \notin 0 .. 4
  <2>1. e = new_dhash
    BY <1>1, <1>2 DEF dispatcher_push_arg, has_handler
  <2> HIDE DEF e
  <2>2. dispatcher_pop_arg(e, type) = new_dhash
    BY <1>1, <1>2, <2>1 DEF dispatcher_pop_arg, has_handler
  <2> QED
    BY <1>1, <1>2, <2>1, <2>2 DEF e
<1>3. CASE type \in 0 .. 4
  <2>1. PICK desc, process : new_dhash[type] = init_handler(DHash, desc, process)
    <3>1. type = 0 \/ type = 1 \/ type = 2 \/ type = 3 \/ type = 4
      BY <1>3
    <3> QED
      BY <3>1, DHashTable, Zenon
  <2> DEFINE h == [unpack |-> desc, process |-> process, process_args |-> <<DHash>>]
             k == [unpack |-> desc, process |-> process, process_args |-> <<DHash, s>>]
  <2>2. new_dhash[type] = h
    BY <2>1 DEF init_handler
  <2>3. Append(<<DHash>>, s) = <<DHash, s>> /\ Front(<<DHash, s>>) = <<DHash>>
    BY Pairs, Zenon
  <2>4. [h EXCEPT !.process_args = Append(@, s)] = k /\ [k EXCEPT !.process_args = Front(@)] = h
    BY <2>3
  <2>5. e = [new_dhash EXCEPT ![type].process_args = Append(@, s)]
    BY <1>1, <1>3, Zenon DEF dispatcher_push_arg, has_handler
  <2>6. e = [new_dhash EXCEPT ![type] = k]
    BY <2>2, <2>4, <2>5, Zenon
  <2> HIDE DEF e, h, k
  <2>7. DOMAIN e = 0 .. 4 /\ e[type] = k
    BY <1>1, <1>3, <2>6, Zenon
  <2>8. dispatcher_pop_arg(e, type) = [e EXCEPT ![type].process_args = Front(@)]
    BY <1>3, <2>7 DEF dispatcher_pop_arg, has_handler
  <2>9. dispatcher_pop_arg(e, type) = [e EXCEPT ![type] = h]
    BY <2>4, <2>7, <2>8, Zenon
  <2>10. [e EXCEPT ![type] = h] = new_dhash
    BY <1>1, <1>3, <2>2, <2>6, Zenon DEF IsTable
  <2>11. ASSUME NEW x, NEW y, new_dhash[type] = init_handler(DHash, x, y)
         PROVE  x = desc /\ y = process
    BY <2>1, <2>11 DEF init_handler
  <2> QED
    BY <2>7, <2>9, <2>10, <2>11 DEF k, e
<1> QED
  BY <1>2, <1>3

\* A packet for a handler of the server.
LEMMA StepChord ==
  ASSUME Tables, NEW s \in Server, ReceiveChord(s)
  PROVE  /\ UNCHANGED <<dispatcher, chord_dispatcher>>
         /\ \E r : received' = {r} /\ Sound(r)
<1> DEFINE d == dispatcher[s]
<1>1. PICK p \in ChordPackets : \E v \in SameMeaning(p) \cup NotKnown(p) : handle_packet(s, v)
  BY DEF ReceiveChord
<1>2. PICK v \in SameMeaning(p) \cup NotKnown(p) : handle_packet(s, v)
  BY <1>1
<1>3. PICK returned \in {0, 1} :
        LET r == dispatch_packet(d, v.buf, returned)
        IN  /\ received' = {Received(s, <<v>>, returned, r.calls, FALSE, r.leaked)}
            /\ UNCHANGED <<dispatcher, chord_dispatcher>>
  BY <1>2, Zenon DEF handle_packet
<1>4. PICK type \in 0 .. 9 : \E desc :
        /\ type # 2 /\ Sealed(p, type, desc)
        /\ new_server(s)[type] = init_handler(s, desc, p.process)
        /\ Ours(p.process) /\ p.process \notin DHashHandlers
  BY ChordSealed
<1>4a. PICK desc :
        /\ type # 2 /\ Sealed(p, type, desc)
        /\ new_server(s)[type] = init_handler(s, desc, p.process)
        /\ Ours(p.process) /\ p.process \notin DHashHandlers
  BY <1>4
<1>5. DOMAIN d = 0 .. 9 /\ d[type] = init_handler(s, desc, p.process)
  BY <1>4a, ServerEntries, Zenon
<1> HIDE DEF d
<1> DEFINE q == dispatch_packet(d, v.buf, returned)
           r == Received(s, <<v>>, returned, q.calls, FALSE, q.leaked)
<1>6. CASE v \in SameMeaning(p)
  <2> DEFINE c == Call(d[type], p.msg)
             leaked == IF returned = 0 THEN 0 ELSE 2
  <2>1. /\ v.process = p.process /\ v.msg = p.msg /\ IsHeader(v.buf) /\ v.buf[2] = type
        /\ Carries(desc, v.buf[3], protobuf_c_message_pack(desc, p.msg))
    BY <1>4a, <1>6, SameBytes
  <2>2. d[type].unpack = desc /\ WellFormed(desc) /\ IsMessage(p.msg, desc)
    BY <1>4a, <1>5 DEF Sealed, init_handler
  <2>3. q = Dispatched(1, <<c>>, leaked)
    BY <1>5, <2>1, <2>2, DispatchTaken
  <2>4. c.process = v.process /\ c.msg = v.msg /\ c.args = <<s>>
    BY <1>5, <2>1 DEF Call, init_handler
  <2> HIDE DEF c, q, leaked
  <2>5. q.calls = <<c>> /\ q.leaked = leaked
    BY <2>3 DEF Dispatched
  <2>6. returned = 0 => leaked = 0
    BY DEF leaked
  <2>7. Sound(r)
    BY <1>4a, <2>1, <2>4, <2>5, <2>6, OneCall, Zenon
  <2> HIDE DEF r
  <2> QED
    BY <1>3, <2>7, Zenon DEF q, r
<1>7. CASE v \in NotKnown(p)
  <2>1. v.process = "none: unknown type" /\ IsHeader(v.buf) /\ v.buf[2] = 10
    BY <1>4a, <1>7, UnknownBytes, Zenon
  <2>a. 10 \notin 0 .. 9
    OBVIOUS
  <2>2. v.buf[2] \notin DOMAIN d
    BY <1>5, <2>1, <2>a, Zenon
  <2>3. q = Dispatched(0, <<>>, 1)
    BY <2>1, <2>2, Dispatch, Zenon
  <2> HIDE DEF q
  <2>4. q.calls = <<>>
    BY <2>3 DEF Dispatched
  <2>5. Sound(Received(s, <<v>>, returned, <<>>, FALSE, q.leaked))
    BY <2>1, NoCall, Zenon
  <2> QED
    BY <1>3, <2>4, <2>5, Zenon DEF q
<1> QED
  BY <1>6, <1>7

\* A packet with data, at a server that DHash has not registered with yet.
LEMMA StepData ==
  ASSUME Tables, NEW s \in Server, ReceiveData(s)
  PROVE  /\ UNCHANGED <<dispatcher, chord_dispatcher>>
         /\ \E r : received' = {r} /\ Sound(r)
<1> DEFINE d == dispatcher[s]
<1>1. PICK inner \in DHashPackets, last \in BOOLEAN, ttl \in Ttl, id \in Name :
        LET p == DataPacket(last, ttl, id, inner.buf)
        IN  /\ d[CHORD_DATA].process = "process_data"
            /\ \E v \in SameMeaning(p) \cup NotUnpacked(p) : handle_packet(s, v)
  BY DEF ReceiveData
<1> DEFINE p == DataPacket(last, ttl, id, inner.buf)
<1>2. PICK v \in SameMeaning(p) \cup NotUnpacked(p) : handle_packet(s, v)
  BY <1>1
<1>3. PICK returned \in {0, 1} :
        LET r == dispatch_packet(d, v.buf, returned)
        IN  /\ received' = {Received(s, <<v>>, returned, r.calls, FALSE, r.leaked)}
            /\ UNCHANGED <<dispatcher, chord_dispatcher>>
  BY <1>2, Zenon DEF handle_packet
<1>4. /\ Sealed(p, 2, data__descriptor)
      /\ FirstRequired(data__descriptor)
      /\ p.process = "process_data"
  BY DataSealed
<1>5. 2 \in DOMAIN d /\ d[2].unpack = data__descriptor /\ d[2].process = "process_data"
  BY <1>1, ServerEntries DEF CHORD_DATA
<1>6. d[2].process_args = <<s>>
  BY <1>5, ServerEntries, Zenon
<1> HIDE DEF d, p
<1> DEFINE q == dispatch_packet(d, v.buf, returned)
           r == Received(s, <<v>>, returned, q.calls, FALSE, q.leaked)
<1>7. CASE v \in SameMeaning(p)
  <2> DEFINE c == Call(d[2], p.msg)
             leaked == IF returned = 0 THEN 0 ELSE 2
  <2>1. /\ v.process = p.process /\ v.msg = p.msg /\ IsHeader(v.buf) /\ v.buf[2] = 2
        /\ Carries(data__descriptor, v.buf[3], protobuf_c_message_pack(data__descriptor, p.msg))
    BY <1>4, <1>7, SameBytes
  <2>2. WellFormed(data__descriptor) /\ IsMessage(p.msg, data__descriptor)
    BY <1>4 DEF Sealed
  <2>3. q = Dispatched(1, <<c>>, leaked)
    BY <1>5, <2>1, <2>2, DispatchTaken
  <2>4. c.process = v.process /\ c.msg = v.msg /\ c.args = <<s>>
    BY <1>4, <1>5, <1>6, <2>1, Zenon DEF Call
  <2> HIDE DEF c, q, leaked
  <2>5. q.calls = <<c>> /\ q.leaked = leaked
    BY <2>3 DEF Dispatched
  <2>6. returned = 0 => leaked = 0
    BY DEF leaked
  <2>7. Ours(v.process) /\ v.process \notin DHashHandlers
    BY <1>4, <2>1 DEF Ours, DHashHandlers
  <2>8. Sound(r)
    BY <2>4, <2>5, <2>6, <2>7, OneCall, Zenon
  <2> HIDE DEF r
  <2> QED
    BY <1>3, <2>8, Zenon DEF q, r
<1>8. CASE v \in NotUnpacked(p)
  <2>1. /\ v.process = "none: required field missing" /\ IsHeader(v.buf) /\ v.buf[2] = 2
        /\ ~Unpacks(data__descriptor, v.buf[3])
    <3>1. Sealed(p, 2, data__descriptor) /\ FirstRequired(data__descriptor)
      BY <1>4
    <3>2. v \in NotUnpacked(p)
      BY <1>8
    <3>3. IsShort(v, 2, data__descriptor)
      BY <3>1, <3>2, ShortBytes
    <3> QED
      BY <3>3, Zenon DEF IsShort
  <2>2. q = Dispatched(1, <<>>, 1)
    BY <1>5, <2>1, Dispatch, Zenon
  <2> HIDE DEF q
  <2>3. q.calls = <<>>
    BY <2>2 DEF Dispatched
  <2>4. Sound(Received(s, <<v>>, returned, <<>>, FALSE, q.leaked))
    BY <2>1, NoCall, Zenon
  <2> QED
    BY <1>3, <2>3, <2>4, Zenon DEF q
<1> QED
  BY <1>2, <1>7, <1>8

\* A packet with a message of DHash in it.
LEMMA StepDHash ==
  ASSUME Tables, NEW s \in Server, ReceiveDHash(s)
  PROVE  /\ UNCHANGED <<dispatcher, chord_dispatcher>>
         /\ \E r : received' = {r} /\ Sound(r)
<1> DEFINE d == dispatcher[s]
<1>1. PICK inner \in DHashPackets, last \in BOOLEAN, ttl \in Ttl, id \in Name :
        \E v \in SameMeaning(inner) \cup NotUnpacked(inner) \cup NotKnown(inner) :
          handle_dhash_packet(s, DataPacket(last, ttl, id, v.buf), v)
  BY DEF ReceiveDHash
<1>2. PICK v \in SameMeaning(inner) \cup NotUnpacked(inner) \cup NotKnown(inner) :
        handle_dhash_packet(s, DataPacket(last, ttl, id, v.buf), v)
  BY <1>1
<1> DEFINE p == DataPacket(last, ttl, id, v.buf)
           r == dispatch_packet(d, p.buf, 0)
           c == Call(d[2], p.msg)
<1>3. /\ Sealed(p, 2, data__descriptor) /\ p.process = "process_data" /\ p.msg["data"] = v.buf
  BY DataSealed
<1>4. 2 \in DOMAIN d /\ d[2].unpack = data__descriptor
  BY ServerEntries
<1>5. /\ d[2].process = "dhash_unpack_chord_data" => d[2].process_args = <<s, DHash>>
  BY ServerEntries, Zenon
<1>6. r = Dispatched(1, <<c>>, 0)
  <2> HIDE DEF p
  <2>1. p \in SameMeaning(p)
    BY DEF SameMeaning
  <2>2. /\ IsHeader(p.buf) /\ p.buf[2] = 2
        /\ Carries(data__descriptor, p.buf[3], protobuf_c_message_pack(data__descriptor, p.msg))
    BY <1>3, <2>1, SameBytes
  <2>3. WellFormed(data__descriptor) /\ IsMessage(p.msg, data__descriptor)
    BY <1>3 DEF Sealed
  <2> HIDE DEF d
  <2> QED
    BY <1>4, <2>2, <2>3, DispatchTaken
<1>7. PICK returned \in {0, 1}, garbage \in {0, 1} :
        LET u == dhash_unpack_chord_data(r.calls[1].args, r.calls[1].msg, returned, garbage)
        IN  /\ r.calls[1].process = "dhash_unpack_chord_data"
            /\ received' = {Received(s, <<p, v>>, returned, r.calls \o u.calls, u.forwarded,
                                     r.leaked + u.leaked)}
            /\ chord_dispatcher' = u.chord_dispatcher
            /\ UNCHANGED dispatcher
  BY <1>2, Zenon DEF handle_dhash_packet
<1> HIDE DEF p, d, c, r
<1>8. r.calls = <<c>> /\ r.calls[1] = c /\ r.leaked = 0
  BY <1>6 DEF Dispatched
<1>9. c.process = "dhash_unpack_chord_data" /\ c.msg = p.msg /\ c.args = <<s, DHash>>
  <2>1. c.process = "dhash_unpack_chord_data"
    BY <1>7, <1>8
  <2>2. c.process = d[2].process /\ c.msg = p.msg /\ c.args = d[2].process_args
    BY DEF c, Call
  <2> QED
    BY <1>5, <2>1, <2>2
<1> DEFINE type == v.buf[2]
           e == dispatcher_push_arg(new_dhash, type, s)
           q == dispatch_packet(e, v.buf, returned)
           u == dhash_unpack_chord_data(c.args, c.msg, returned, garbage)
           process_ret == IF q.calls = <<>> THEN garbage ELSE returned
<1>10. /\ dispatcher_pop_arg(e, type) = new_dhash /\ DOMAIN e = 0 .. 4
       /\ \A desc, process :
            type \in 0 .. 4 /\ new_dhash[type] = init_handler(DHash, desc, process) =>
              e[type] = [unpack |-> desc, process |-> process, process_args |-> <<DHash, s>>]
  BY PushPop, Zenon
<1>11. PICK t \in 0 .. 4 : \E desc :
         /\ Sealed(inner, t, desc) /\ FirstRequired(desc)
         /\ new_dhash[t] = init_handler(DHash, desc, inner.process)
         /\ Ours(inner.process) /\ inner.process \in DHashHandlers
  BY DHashSealed
<1>11a. PICK desc :
         /\ Sealed(inner, t, desc) /\ FirstRequired(desc)
         /\ new_dhash[t] = init_handler(DHash, desc, inner.process)
         /\ Ours(inner.process) /\ inner.process \in DHashHandlers
  BY <1>11, Zenon
<1>12. ASSUME IsHeader(v.buf)
       PROVE  u = [chord_dispatcher |-> new_dhash, calls |-> q.calls, leaked |-> q.leaked + 1,
                   forwarded |-> q.ret = 0 \/ process_ret # 0]
  <2>1. dispatcher_get_type(v.buf) = type
    BY <1>12, Dispatch, Zenon
  <2>2. c.msg.data = v.buf /\ c.args[1] = s
    BY <1>3, <1>9
  <2>3. chord_dispatcher = new_dhash
    BY DEF Tables
  <2>4. dispatcher_push_arg(chord_dispatcher, dispatcher_get_type(c.msg.data), c.args[1]) = e
    BY <2>1, <2>2, <2>3
  <2> HIDE DEF e, type
  <2> QED
    BY <1>10, <2>1, <2>2, <2>4, Zenon DEF dhash_unpack_chord_data
<1>13. ASSUME IsHeader(v.buf)
       PROVE  /\ received' = {Received(s, <<p, v>>, returned, <<c>> \o q.calls,
                                       q.ret = 0 \/ process_ret # 0, 0 + (q.leaked + 1))}
              /\ UNCHANGED <<dispatcher, chord_dispatcher>>
  <2>1. u = [chord_dispatcher |-> new_dhash, calls |-> q.calls, leaked |-> q.leaked + 1,
             forwarded |-> q.ret = 0 \/ process_ret # 0]
    BY <1>12, <1>13, Zenon
  <2> HIDE DEF u, q, process_ret
  <2>2. /\ u.chord_dispatcher = new_dhash /\ u.calls = q.calls /\ u.leaked = q.leaked + 1
        /\ u.forwarded = (q.ret = 0 \/ process_ret # 0)
    BY <2>1
  <2>3. chord_dispatcher = new_dhash
    BY DEF Tables
  <2> QED
    BY <1>7, <1>8, <2>2, <2>3, Zenon DEF u
<1> HIDE DEF e
<1>14. CASE v \in SameMeaning(inner)
  <2> DEFINE b == Call(e[t], inner.msg)
             leaked == IF returned = 0 THEN 0 ELSE 2
             forwarded == q.ret = 0 \/ process_ret # 0
  <2>1. /\ v.process = inner.process /\ v.msg = inner.msg /\ IsHeader(v.buf) /\ v.buf[2] = t
        /\ Carries(desc, v.buf[3], protobuf_c_message_pack(desc, inner.msg))
    BY <1>11a, <1>14, SameBytes
  <2>2. e[t] = [unpack |-> desc, process |-> inner.process, process_args |-> <<DHash, s>>]
    BY <1>10, <1>11a, <2>1, Zenon
  <2>3. /\ t \in DOMAIN e /\ e[t].unpack = desc /\ WellFormed(desc) /\ IsMessage(inner.msg, desc)
    BY <1>10, <1>11a, <2>2 DEF Sealed
  <2>4. b.process = v.process /\ b.msg = v.msg /\ b.args = <<DHash, s>>
    BY <2>1, <2>2 DEF Call
  <2>5. q = Dispatched(1, <<b>>, leaked)
    BY <2>1, <2>3, DispatchTaken
  <2> HIDE DEF b, q, leaked
  <2>6. q.ret = 1 /\ q.calls = <<b>> /\ q.leaked = leaked
    BY <2>5 DEF Dispatched
  <2>7. <<b>> # <<>> /\ <<c>> \o <<b>> = <<c, b>>
    <3>1. <<b>> # <<>>
      BY Members, Zenon
    <3>2. <<c>> \o <<b>> = <<c, b>>
      BY Joined, Zenon
    <3> QED
      BY <3>1, <3>2, Zenon
  <2>8. forwarded <=> returned # 0
    BY <2>6, <2>7
  <2>9. returned = 0 => 0 + (leaked + 1) = 1
    BY DEF leaked
  <2>10. Ours(v.process) /\ v.process \in DHashProcess
    BY <1>11a, <2>1, Zenon DEF DHashProcess
  <2> HIDE DEF forwarded
  <2>11. Sound(Received(s, <<p, v>>, returned, <<c, b>>, forwarded, 0 + (leaked + 1)))
    BY <1>3, <1>9, <2>4, <2>8, <2>9, <2>10, TwoCalls, Zenon
  <2> QED
    BY <1>13, <2>1, <2>6, <2>7, <2>11, Zenon DEF forwarded
<1>15. CASE v \in NotUnpacked(inner)
  <2> DEFINE forwarded == q.ret = 0 \/ process_ret # 0
  <2>1. /\ v.process = "none: required field missing" /\ IsHeader(v.buf) /\ v.buf[2] = t
        /\ ~Unpacks(desc, v.buf[3])
    <3>1. Sealed(inner, t, desc) /\ FirstRequired(desc)
      BY <1>11a
    <3>2. v \in NotUnpacked(inner)
      BY <1>15
    <3>3. IsShort(v, t, desc)
      BY <3>1, <3>2, ShortBytes
    <3> QED
      BY <3>3, Zenon DEF IsShort
  <2>a. e[t] = [unpack |-> desc, process |-> inner.process, process_args |-> <<DHash, s>>]
    BY <1>10, <1>11a, <2>1, Zenon
  <2>2. e[t].unpack = desc /\ t \in DOMAIN e
    BY <1>10, <2>a
  <2>3. q = Dispatched(1, <<>>, 1)
    BY <2>1, <2>2, Dispatch, Zenon
  <2> HIDE DEF q
  <2>4. q.calls = <<>> /\ q.leaked = 1
    BY <2>3 DEF Dispatched
  <2>5. <<c>> \o <<>> = <<c>> /\ 0 + (q.leaked + 1) = 2
    BY <2>4
  <2>6. v.process # "none: unknown type"
    BY <2>1, Zenon
  <2> HIDE DEF forwarded
  <2>7. Sound(Received(s, <<p, v>>, returned, <<c>>, forwarded, 2))
    BY <1>3, <1>9, <2>1, <2>6, InnerNotCalled, Zenon
  <2> QED
    BY <1>13, <2>1, <2>4, <2>5, <2>7, Zenon DEF forwarded
<1>16. CASE v \in NotKnown(inner)
  <2> DEFINE forwarded == q.ret = 0 \/ process_ret # 0
  <2>1. v.process = "none: unknown type" /\ IsHeader(v.buf) /\ v.buf[2] = 10
    BY <1>11a, <1>16, UnknownBytes, Zenon
  <2>2. 10 \notin 0 .. 4
    OBVIOUS
  <2>3. v.buf[2] \notin DOMAIN e
    BY <1>10, <2>1, <2>2, Zenon
  <2>4. q = Dispatched(0, <<>>, 1)
    BY <2>1, <2>3, Dispatch, Zenon
  <2> HIDE DEF q
  <2>5. q.ret = 0 /\ q.calls = <<>> /\ q.leaked = 1
    BY <2>4 DEF Dispatched
  <2>6. <<c>> \o <<>> = <<c>> /\ 0 + (q.leaked + 1) = 2
    BY <2>5
  <2>7. forwarded = TRUE
    BY <2>5
  <2> HIDE DEF forwarded
  <2>8. Sound(Received(s, <<p, v>>, returned, <<c>>, forwarded, 2))
    BY <1>3, <1>9, <2>1, <2>7, InnerNotCalled, Zenon
  <2> QED
    BY <1>13, <2>1, <2>5, <2>6, <2>8, Zenon DEF forwarded
<1> QED
  BY <1>2, <1>14, <1>15, <1>16

\* The answer of DHash that the control process reads.
LEMMA StepReply ==
  ASSUME handle_reply
  PROVE  /\ UNCHANGED <<dispatcher, chord_dispatcher>>
         /\ \E r : received' = {r} /\ Sound(r)
<1>1. PICK name \in Name, code \in {DHASH_CLIENT_REPLY_LOCAL, DHASH_CLIENT_REPLY_SUCCESS,
                                   DHASH_CLIENT_REPLY_FAILURE} :
        LET buf == dhash_pack_control_request_reply(code, name)
            p == Packet("process_reply", [name |-> name, code |-> code], buf)
            c == [process |-> "process_reply", args |-> <<Client>>,
                  msg |-> dhash_client_unpack_request_reply(buf)]
        IN  /\ received' = {Received(Client, <<p>>, 0, <<c>>, FALSE, 0)}
            /\ UNCHANGED <<dispatcher, chord_dispatcher>>
  BY Zenon DEF handle_reply
<1> DEFINE desc == client_request_reply__descriptor
           msg == [name |-> name, code |-> code]
           buf == dhash_pack_control_request_reply(code, name)
           p == Packet("process_reply", msg, buf)
           c == [process |-> "process_reply", args |-> <<Client>>,
                 msg |-> dhash_client_unpack_request_reply(buf)]
<1>2. WellFormed(desc) /\ Names(desc) = {"name", "code"}
  <2>1. Len(desc) = 2 /\ IsField(desc[1], 1, "name") /\ IsField(desc[2], 2, "code")
    BY Fields DEF client_request_reply__descriptor
  <2> QED
    BY <2>1, Form2 DEF IsField
<1>3. msg = [n \in Names(desc) |-> msg[n]]
  BY <1>2
<1>4. buf = protobuf_c_message_pack(desc, msg)
  BY DEF dhash_pack_control_request_reply
<1> HIDE DEF desc, msg, buf
<1>5. Carries(desc, buf, buf)
  BY <1>2, <1>4, OwnBytes
<1>6. dhash_client_unpack_request_reply(buf) = msg
  BY <1>2, <1>3, <1>4, <1>5, RoundTripAll DEF dhash_client_unpack_request_reply, desc
<1>7. /\ p.process = "process_reply" /\ p.msg = msg
      /\ c.process = "process_reply" /\ c.args = <<Client>> /\ c.msg = msg
  BY <1>6 DEF Packet
<1>8. received' = {Received(Client, <<p>>, 0, <<c>>, FALSE, 0)}
  BY <1>1 DEF msg, buf
<1> HIDE DEF p, c
<1>9. Ours(p.process) /\ p.process \notin DHashHandlers
  BY <1>7 DEF Ours, DHashHandlers
<1>10. Sound(Received(Client, <<p>>, 0, <<c>>, FALSE, 0))
  BY <1>7, <1>9, OneCall, Zenon
<1> QED
  BY <1>1, <1>8, <1>10, Zenon

-----------------------------------------------------------------------------
(***************************************************************************)
(* The invariant: the tables are the ones that were built, and the last    *)
(* packet was dealt with.                                                  *)
(***************************************************************************)
WireInv == Tables /\ \A r \in received : Sound(r)

\* The tables stay as registered, and what is received is handled soundly.
LEMMA WireInvariant == Spec => []WireInv
<1>1. Init => WireInv
  BY DEF Init, WireInv, Tables
<1>2. ASSUME WireInv, [Next]_vars
      PROVE  WireInv'
  <2>1. ASSUME UNCHANGED <<dispatcher, chord_dispatcher>>, NEW r, received' = {r}, Sound(r)
        PROVE  WireInv'
    <3>1. Tables'
      BY <1>2, <2>1 DEF WireInv, Tables
    <3>2. \A x \in received' : Sound(x)
      BY <2>1
    <3> QED
      BY <3>1, <3>2 DEF WireInv
  <2>2. CASE UNCHANGED vars
    BY <1>2, <2>2 DEF WireInv, Tables, vars
  <2>3. CASE \E s \in Server : ReceiveChord(s) \/ ReceiveData(s) \/ ReceiveDHash(s)
    BY <1>2, <2>1, <2>3, StepChord, StepData, StepDHash DEF WireInv
  <2>4. CASE handle_reply
    BY <2>1, <2>4, StepReply
  <2> QED
    BY <1>2, <2>2, <2>3, <2>4 DEF Next
<1> QED
  BY <1>1, <1>2, PTL DEF Spec

(***************************************************************************)
(* A packet that is packed by pack.c or pack.cpp, sent as it is or inside  *)
(* Data, and unpacked through the dispatch tables calls the handler it is  *)
(* meant for, with the fields the sender assigned.                         *)
(***************************************************************************)
THEOREM HandlersReadWhatWasSentHolds == Spec => []HandlersReadWhatWasSent
<1>1. WireInv => HandlersReadWhatWasSent
  BY SoundIs DEF WireInv, Sound
<1> QED
  BY <1>1, WireInvariant, PTL

(***************************************************************************)
(* Every handler finds the server the packet came in on, and DHash, where  *)
(* its argument structure has them, although dispatcher_push_arg and       *)
(* dispatcher_pop_arg change the shared table for every packet.            *)
(***************************************************************************)
THEOREM HandlersGetTheirArgumentsHolds == Spec => []HandlersGetTheirArguments
<1>1. WireInv => HandlersGetTheirArguments
  BY SoundIs DEF WireInv, Sound
<1> QED
  BY <1>1, WireInvariant, PTL

(***************************************************************************)
(* dhash_unpack_chord_data hands a Data packet on to process_data exactly  *)
(* when the packet inside is of no known type or its handler asks for it.  *)
(***************************************************************************)
THEOREM UnhandledPacketsTravelOnHolds == Spec => []UnhandledPacketsTravelOn
<1>1. WireInv => UnhandledPacketsTravelOn
  BY SoundIs DEF WireInv, Sound
<1> QED
  BY <1>1, WireInvariant, PTL

(***************************************************************************)
(* dispatch_packet frees the message and the header of every packet whose  *)
(* handler succeeds; what stays is the header of dispatcher_get_type.      *)
(***************************************************************************)
THEOREM HandledPacketsAreFreedHolds == Spec => []HandledPacketsAreFreed
<1>1. WireInv => HandledPacketsAreFreed
  BY SoundIs DEF WireInv, Sound
<1> QED
  BY <1>1, WireInvariant, PTL
=============================================================================
