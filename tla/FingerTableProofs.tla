------------------------- MODULE FingerTableProofs -------------------------
(***************************************************************************)
(* What the operations of finger.c preserve, and the next hop that is      *)
(* chosen from a table, for tables of any size.                            *)
(***************************************************************************)
EXTENDS Process, ChordIdProofs, FiniteSetTheorems

(***************************************************************************)
(* A consistent table: every finger is filed under the hash of its         *)
(* address, the passive ones are counted, the server is not in its own     *)
(* table, and the range starts at the predecessor.                         *)
(***************************************************************************)
Consistent(s) ==
  /\ IsServer(s)
  /\ \A x \in fingers(s) : get_address_id(s.flist[x].addr) = x
  /\ s.num_passive_fingers = Cardinality(passive_fingers(s))
  /\ s.num_passive_fingers <= MAX_PASSIVE_FINGERS
  /\ s.id \notin fingers(s)
  /\ s.pred_bound = PredecessorOrSelf(s)

\* Nothing but the table, its counter and the range has changed.
SameButTable(s, t) ==
  /\ t.addr = s.addr /\ t.id = s.id /\ t.sock = s.sock
  /\ t.to_fix_finger = s.to_fix_finger /\ t.to_fix_backup = s.to_fix_backup
  /\ t.to_ping = s.to_ping
  /\ t.discover_addr_event = s.discover_addr_event /\ t.stab_event = s.stab_event
  /\ t.ticket_salt = s.ticket_salt /\ t.fault = s.fault

-----------------------------------------------------------------------------
\* A server with another table is a server.
LEMMA ServerWithTable ==
  ASSUME NEW s, IsServer(s), NEW n \in Nat, NEW F, F \subseteq Id, NEW fl \in [F -> Finger]
  PROVE  IsServer([s EXCEPT !.num_passive_fingers = n, !.flist = fl])
BY DEF IsServer, fingers

\* A set of fingers is finite.
LEMMA FingersFinite ==
  ASSUME NEW S, S \subseteq Id
  PROVE  IsFiniteSet(S) /\ Cardinality(S) \in Nat
<1>1. IsFiniteSet(Id)
  BY FS_Interval, IdAssumption DEF Id
<1> QED
  BY <1>1, FS_Subset, FS_CardinalityType

(***************************************************************************)
(* The first and the last finger of a set (get_worst_passive_finger,       *)
(* succ_finger, pred_finger) are in it, and NULL just when it is empty.    *)
(***************************************************************************)
LEMMA FirstAndLastFinger ==
  ASSUME NEW s, s.id \in Id, NEW S, S \subseteq Id
  PROVE  /\ S # {} => FirstFinger(s, S) \in S /\ LastFinger(s, S) \in S
         /\ FirstFinger(s, S) = NULL <=> S = {}
         /\ LastFinger(s, S) = NULL <=> S = {}
BY FirstFromIsFirst, LastFromIsLast, AddrAssumption DEF FirstFinger, LastFinger

\* The successor and the predecessor are active, and there is one iff there is the other.
LEMMA SuccAndPred ==
  ASSUME NEW s, IsServer(s)
  PROVE  /\ active_fingers(s) # {} => /\ succ_finger(s) \in active_fingers(s)
                                      /\ pred_finger(s) \in active_fingers(s)
         /\ succ_finger(s) = NULL <=> active_fingers(s) = {}
         /\ pred_finger(s) = NULL <=> active_fingers(s) = {}
<1>1. s.id \in Id /\ active_fingers(s) \subseteq Id
  BY DEF IsServer, active_fingers
<1> QED
  BY <1>1, FirstAndLastFinger DEF succ_finger, pred_finger

\* The range only depends on the active fingers.
LEMMA BoundFromActive ==
  ASSUME NEW s, NEW t, t.id = s.id, active_fingers(t) = active_fingers(s)
  PROVE  PredecessorOrSelf(t) = PredecessorOrSelf(s) /\ pred_finger(t) = pred_finger(s) /\ succ_finger(t) = succ_finger(s)
BY DEF PredecessorOrSelf, pred_finger, succ_finger, FirstFinger, LastFinger

\* The left bound of the range is an identifier.
LEMMA BoundType ==
  ASSUME NEW s, IsServer(s)
  PROVE  PredecessorOrSelf(s) \in Id
<1>1. s.id \in Id /\ active_fingers(s) \subseteq Id
  BY DEF IsServer, active_fingers
<1> QED
  BY <1>1, SuccAndPred DEF PredecessorOrSelf

-----------------------------------------------------------------------------
(***************************************************************************)
(* When the table is full there is a passive finger to drop: the search of *)
(* get_worst_passive_finger finds one, and assert(worst_finger) holds.     *)
(***************************************************************************)
LEMMA WorstPassiveFinger ==
  ASSUME NEW s, IsServer(s), passive_fingers(s) # {}
  PROVE  get_worst_passive_finger(s) \in passive_fingers(s)
<1> DEFINE count(x) == IF s.flist[x].npings >= PING_THRESH - 1
                       THEN PING_THRESH - 1 ELSE s.flist[x].npings
           T == {PING_THRESH - count(x) : x \in passive_fingers(s)}
           W == {x \in passive_fingers(s) : \A y \in passive_fingers(s) : count(y) <= count(x)}
<1>1. \A x \in passive_fingers(s) : s.flist[x].npings \in 0 .. PING_THRESH
  BY DEF IsServer, passive_fingers, fingers, Finger
<1>2. \A x \in passive_fingers(s) : count(x) \in 0 .. PING_THRESH
  BY <1>1, FingerAssumption
<1>3. T \subseteq Nat /\ T # {}
  BY <1>2, FingerAssumption
<1>4. PICK m \in T : \A n \in T : m <= n
  BY <1>3, NatMin
<1>5. PICK x \in passive_fingers(s) : m = PING_THRESH - count(x)
  BY <1>4
<1>6. \A y \in passive_fingers(s) : PING_THRESH - count(x) <= PING_THRESH - count(y)
  BY <1>4, <1>5
<1>7. \A y \in passive_fingers(s) : count(y) <= count(x)
  BY <1>2, <1>6, FingerAssumption
<1>8. W # {} /\ W \subseteq Id /\ s.id \in Id
  BY <1>7 DEF IsServer, passive_fingers
<1>9. FirstFinger(s, W) \in W
  BY <1>8, FirstAndLastFinger
<1> QED
  BY <1>9 DEF get_worst_passive_finger

-----------------------------------------------------------------------------
(***************************************************************************)
(* remove_finger, any number of times (ping, clean_finger_list, eviction), *)
(* leaves a consistent table: it keeps the count and moves the range.      *)
(***************************************************************************)
LEMMA RemoveFingersConsistent ==
  ASSUME NEW s, Consistent(s), NEW R
  PROVE  LET t == remove_fingers(s, R)
         IN  /\ Consistent(t)
             /\ SameButTable(s, t)
             /\ t.flist = [x \in fingers(s) \ R |-> s.flist[x]]
             /\ t.num_passive_fingers =
                  s.num_passive_fingers - Cardinality(R \cap passive_fingers(s))
<1> DEFINE t == remove_fingers(s, R)
           n == s.num_passive_fingers - Cardinality(R \cap passive_fingers(s))
           u == [s EXCEPT !.num_passive_fingers = n,
                          !.flist = [x \in fingers(s) \ R |-> s.flist[x]]]
           pf == pred_finger(u)
<1>1. IsServer(s)
  BY DEF Consistent
<1>2. /\ passive_fingers(s) \subseteq Id
      /\ R \cap passive_fingers(s) \subseteq Id
      /\ passive_fingers(s) \ R \subseteq Id
  BY <1>1 DEF IsServer, passive_fingers
<1>3. /\ n = Cardinality(passive_fingers(s) \ R)
      /\ n \in Nat /\ n <= s.num_passive_fingers
  <2>1. /\ IsFiniteSet(passive_fingers(s))
        /\ Cardinality(passive_fingers(s)) \in Nat
        /\ Cardinality(R \cap passive_fingers(s)) \in Nat
        /\ Cardinality(passive_fingers(s) \ R) \in Nat
    BY <1>2, FingersFinite
  <2>2. Cardinality(passive_fingers(s) \ R) =
          Cardinality(passive_fingers(s)) - Cardinality(passive_fingers(s) \cap R)
    BY <2>1, FS_Difference
  <2>3. passive_fingers(s) \cap R = R \cap passive_fingers(s)
    OBVIOUS
  <2> QED
    BY <2>1, <2>2, <2>3 DEF Consistent
<1> HIDE DEF n
<1>4. /\ u.flist = [x \in fingers(s) \ R |-> s.flist[x]]
      /\ u.num_passive_fingers = n
      /\ SameButTable(s, u)
      /\ u.pred_bound = s.pred_bound
      /\ fingers(u) = fingers(s) \ R
  BY <1>1 DEF IsServer, SameButTable, fingers
<1>5. IsServer(u)
  BY <1>1, <1>3, <1>4 DEF IsServer, fingers
<1>6. /\ passive_fingers(u) = passive_fingers(s) \ R
      /\ \A x \in fingers(u) : u.flist[x] = s.flist[x]
  BY <1>4 DEF passive_fingers
<1>7. t = IF pred_finger(s) = pf THEN u
          ELSE chord_update_range(u, IF pf = NULL THEN s.id ELSE pf, s.id)
  BY DEF remove_fingers, n
<1> HIDE DEF u
<1>8. /\ t.flist = u.flist
      /\ t.num_passive_fingers = n
      /\ SameButTable(s, t)
      /\ t.pred_bound = IF pred_finger(s) = pf THEN s.pred_bound
                        ELSE IF pf = NULL THEN s.id ELSE pf
  BY <1>4, <1>5, <1>7 DEF IsServer, SameButTable, chord_update_range
<1>9. /\ fingers(t) = fingers(u)
      /\ active_fingers(t) = active_fingers(u)
      /\ passive_fingers(t) = passive_fingers(u)
      /\ t.id = u.id
  BY <1>4, <1>8 DEF fingers, active_fingers, passive_fingers, SameButTable
<1>10. pred_finger(t) = pf
  BY <1>9, BoundFromActive
<1>11. t.pred_bound = PredecessorOrSelf(t)
  BY <1>4, <1>8, <1>10 DEF PredecessorOrSelf, Consistent, SameButTable
<1>12. t.pred_bound \in Id
  <2>1. PredecessorOrSelf(u) \in Id
    BY <1>5, BoundType
  <2>2. PredecessorOrSelf(t) = PredecessorOrSelf(u)
    BY <1>9, BoundFromActive
  <2> QED
    BY <1>11, <2>1, <2>2
<1>13. IsServer(t)
  <2>1. CASE pred_finger(s) = pf
    BY <2>1, <1>5, <1>7
  <2>2. CASE pred_finger(s) # pf
    <3>1. t = [u EXCEPT !.pred_bound = t.pred_bound, !.id = s.id]
      BY <2>2, <1>7, <1>8 DEF chord_update_range
    <3> HIDE DEF t
    <3> QED
      BY <3>1, <1>1, <1>5, <1>9, <1>12 DEF IsServer, fingers
  <2> QED
    BY <2>1, <2>2
<1> HIDE DEF t
<1>14. Consistent(t)
  <2>1. \A x \in fingers(t) : get_address_id(t.flist[x].addr) = x
    BY <1>4, <1>6, <1>8, <1>9 DEF Consistent
  <2>2. t.num_passive_fingers = Cardinality(passive_fingers(t))
    BY <1>3, <1>6, <1>8, <1>9
  <2>3. t.num_passive_fingers <= MAX_PASSIVE_FINGERS
    BY <1>1, <1>3, <1>8, FingerAssumption DEF Consistent, IsServer
  <2>4. t.id \notin fingers(t)
    BY <1>4, <1>8, <1>9 DEF Consistent, SameButTable
  <2> QED
    BY <2>1, <2>2, <2>3, <2>4, <1>11, <1>13 DEF Consistent
<1> QED
  BY <1>4, <1>8, <1>14 DEF t, n

-----------------------------------------------------------------------------
(***************************************************************************)
(* Making room: there is always a passive finger to drop when the table is *)
(* full, and no active finger is touched.                                  *)
(***************************************************************************)
LEMMA DropWorstConsistent ==
  ASSUME NEW s, Consistent(s)
  PROVE  LET d == drop_worst_passive_finger(s)
         IN  /\ ~ cannot_drop_passive_finger(s)
             /\ Consistent(d)
             /\ SameButTable(s, d)
             /\ d.num_passive_fingers < MAX_PASSIVE_FINGERS
             /\ fingers(d) \subseteq fingers(s)
             /\ active_fingers(d) = active_fingers(s)
             /\ \A x \in active_fingers(s) : d.flist[x] = s.flist[x]
<1> DEFINE d == drop_worst_passive_finger(s)
           w == get_worst_passive_finger(s)
<1>1. /\ IsServer(s)
      /\ s.num_passive_fingers \in Nat
      /\ s.num_passive_fingers = Cardinality(passive_fingers(s))
      /\ MAX_PASSIVE_FINGERS \in Nat \ {0}
  BY FingerAssumption DEF Consistent, IsServer
<1>2. CASE ~ (s.num_passive_fingers >= MAX_PASSIVE_FINGERS)
  <2>1. d = s /\ ~ cannot_drop_passive_finger(s)
    BY <1>2 DEF drop_worst_passive_finger, cannot_drop_passive_finger
  <2>2. SameButTable(s, s)
    BY DEF SameButTable
  <2> HIDE DEF d
  <2>3. d.num_passive_fingers < MAX_PASSIVE_FINGERS
    BY <2>1, <1>1, <1>2
  <2> QED
    BY <2>1, <2>2, <2>3 DEF d
<1>3. CASE s.num_passive_fingers >= MAX_PASSIVE_FINGERS
  <2>1. passive_fingers(s) # {}
    BY <1>1, <1>3, FS_EmptySet
  <2>2. w \in passive_fingers(s)
    BY <1>1, <2>1, WorstPassiveFinger
  <2>3. w # NULL /\ w \notin active_fingers(s)
    BY <1>1, <2>2, AddrAssumption DEF IsServer, passive_fingers, active_fingers
  <2>4. ~ cannot_drop_passive_finger(s)
    BY <2>3 DEF cannot_drop_passive_finger
  <2>5. d = remove_fingers(s, {w})
    BY <1>3 DEF drop_worst_passive_finger, remove_finger
  <2>6. /\ Consistent(d)
        /\ SameButTable(s, d)
        /\ d.flist = [x \in fingers(s) \ {w} |-> s.flist[x]]
        /\ d.num_passive_fingers = s.num_passive_fingers - Cardinality({w} \cap passive_fingers(s))
    BY <2>5, RemoveFingersConsistent
  <2> HIDE DEF d
  <2>7. Cardinality({w} \cap passive_fingers(s)) = 1
    <3>1. {w} \cap passive_fingers(s) = {w}
      BY <2>2
    <3> QED
      BY <3>1, FS_Singleton
  <2>8. d.num_passive_fingers < MAX_PASSIVE_FINGERS
    BY <1>1, <2>6, <2>7 DEF Consistent
  <2>9. /\ fingers(d) = fingers(s) \ {w}
        /\ \A x \in fingers(d) : d.flist[x] = s.flist[x]
    BY <2>6 DEF fingers
  <2>10. /\ active_fingers(d) = active_fingers(s)
         /\ \A x \in active_fingers(s) : d.flist[x] = s.flist[x]
    BY <2>3, <2>9 DEF active_fingers
  <2> QED
    BY <2>4, <2>6, <2>8, <2>9, <2>10 DEF d
<1> QED
  BY <1>2, <1>3

(***************************************************************************)
(* A new passive finger under the hash of its address keeps the table      *)
(* consistent as long as there is room for it.                             *)
(***************************************************************************)
LEMMA ListInsertConsistent ==
  ASSUME NEW s, Consistent(s), s.num_passive_fingers < MAX_PASSIVE_FINGERS,
         NEW addr \in Addr, get_address_id(addr) \notin fingers(s),
         get_address_id(addr) # s.id
  PROVE  LET id == get_address_id(addr)
             t == fingerlist_insert([s EXCEPT !.num_passive_fingers = @ + 1],
                                    id, new_finger(addr))
         IN  /\ Consistent(t)
             /\ SameButTable(s, t)
             /\ fingers(t) = fingers(s) \cup {id}
             /\ t.flist[id] = new_finger(addr)
             /\ \A x \in fingers(s) : t.flist[x] = s.flist[x]
             /\ active_fingers(t) = active_fingers(s)
<1> DEFINE id == get_address_id(addr)
           fl == [x \in fingers(s) \cup {id} |-> IF x = id THEN new_finger(addr) ELSE s.flist[x]]
           t == fingerlist_insert([s EXCEPT !.num_passive_fingers = @ + 1], id, new_finger(addr))
<1>1. /\ IsServer(s)
      /\ s.num_passive_fingers \in Nat
      /\ id \in Id
      /\ new_finger(addr) \in Finger
      /\ new_finger(addr).addr = addr
      /\ new_finger(addr).status = "PASSIVE"
  BY AddrAssumption, FingerAssumption
  DEF Consistent, IsServer, get_address_id, new_finger, Finger
<1>2. t = [[s EXCEPT !.num_passive_fingers = s.num_passive_fingers + 1] EXCEPT !.flist = fl]
  BY <1>1 DEF fingerlist_insert, IsServer, fingers
<1> HIDE DEF t, id
<1>3. /\ t.flist = fl
      /\ t.num_passive_fingers = s.num_passive_fingers + 1
      /\ SameButTable(s, t)
      /\ t.pred_bound = s.pred_bound
      /\ fingers(t) = fingers(s) \cup {id}
  BY <1>1, <1>2 DEF IsServer, SameButTable, fingers
<1>4. IsServer(t)
  <2>1. fl \in [fingers(s) \cup {id} -> Finger]
    BY <1>1 DEF IsServer, fingers
  <2>2. fingers(s) \cup {id} \subseteq Id
    BY <1>1 DEF IsServer
  <2> DEFINE n == s.num_passive_fingers + 1
  <2>3. t = [s EXCEPT !.num_passive_fingers = n, !.flist = fl]
    BY <1>2
  <2>4. n \in Nat
    BY <1>1
  <2> HIDE DEF fl, n
  <2>5. IsServer([s EXCEPT !.num_passive_fingers = n, !.flist = fl])
    BY <1>1, <2>1, <2>2, <2>4, ServerWithTable
  <2> QED
    BY <2>3, <2>5
<1>5. /\ t.flist[id] = new_finger(addr)
      /\ \A x \in fingers(s) : t.flist[x] = s.flist[x]
  BY <1>3 DEF id
<1>6. /\ active_fingers(t) = active_fingers(s)
      /\ passive_fingers(t) = passive_fingers(s) \cup {id}
      /\ id \notin passive_fingers(s)
  BY <1>1, <1>3, <1>5 DEF active_fingers, passive_fingers, id
<1>7. t.num_passive_fingers = Cardinality(passive_fingers(t))
  <2>1. IsFiniteSet(passive_fingers(s))
    <3>1. passive_fingers(s) \subseteq Id
      BY <1>1 DEF IsServer, passive_fingers
    <3> QED
      BY <3>1, FingersFinite
  <2>2. Cardinality(passive_fingers(t)) = Cardinality(passive_fingers(s)) + 1
    BY <1>6, <2>1, FS_AddElement
  <2>3. t.num_passive_fingers = s.num_passive_fingers + 1
    BY <1>3
  <2> QED
    BY <2>2, <2>3 DEF Consistent
<1>8. t.num_passive_fingers <= MAX_PASSIVE_FINGERS
  BY <1>1, <1>3, FingerAssumption
<1>9. t.pred_bound = PredecessorOrSelf(t)
  BY <1>3, <1>6, BoundFromActive DEF Consistent, SameButTable
<1>10. \A x \in fingers(t) : get_address_id(t.flist[x].addr) = x
  BY <1>1, <1>3, <1>5 DEF Consistent, id
<1>11. t.id \notin fingers(t)
  BY <1>3 DEF Consistent, SameButTable, id
<1> QED
  BY <1>3, <1>4, <1>5, <1>6, <1>7, <1>8, <1>9, <1>10, <1>11 DEF Consistent, t, id

(***************************************************************************)
(* insert_finger leaves a consistent table, no assertion fails in it, and  *)
(* no active finger is touched; unless the address is our own it is in the *)
(* table afterwards.  Two addresses do not share a hash, so the branch     *)
(* that replaces the address of a finger is never taken.                   *)
(***************************************************************************)
LEMMA InsertFingerConsistent ==
  ASSUME NEW s, Consistent(s), s.addr \in Addr, s.id = get_address_id(s.addr),
         NEW addr \in Addr
  PROVE  LET t == insert_finger(s, addr)
         IN  /\ Consistent(t)
             /\ SameButTable(s, t)
             /\ active_fingers(t) = active_fingers(s)
             /\ \A x \in active_fingers(s) : t.flist[x] = s.flist[x]
             /\ addr # s.addr => /\ get_address_id(addr) \in fingers(t)
                                 /\ t.flist[get_address_id(addr)].addr = addr
<1> DEFINE id == get_address_id(addr)
           d == drop_worst_passive_finger(s)
           t == insert_finger(s, addr)
<1>1. SameButTable(s, s)
  BY DEF SameButTable
<1>2. CASE addr = s.addr
  BY <1>1, <1>2 DEF insert_finger
<1>3. CASE addr # s.addr /\ id \in fingers(s)
  <2>1. s.flist[id].addr \in Addr /\ get_address_id(s.flist[id].addr) = id
    BY <1>3 DEF Consistent, IsServer, fingers, Finger
  <2>2. s.flist[id].addr = addr
    BY <2>1, AddrAssumption DEF get_address_id
  <2>3. t = s
    BY <1>3, <2>2 DEF insert_finger
  <2> QED
    BY <1>1, <1>3, <2>2, <2>3
<1>4. CASE addr # s.addr /\ id \notin fingers(s)
  <2>1. /\ ~ cannot_drop_passive_finger(s)
        /\ Consistent(d)
        /\ SameButTable(s, d)
        /\ d.num_passive_fingers < MAX_PASSIVE_FINGERS
        /\ fingers(d) \subseteq fingers(s)
        /\ active_fingers(d) = active_fingers(s)
        /\ \A x \in active_fingers(s) : d.flist[x] = s.flist[x]
    BY DropWorstConsistent
  <2>2. t = fingerlist_insert([d EXCEPT !.num_passive_fingers = @ + 1], id, new_finger(addr))
    BY <1>4, <2>1 DEF insert_finger
  <2> HIDE DEF d, t
  <2>3. id \notin fingers(d) /\ id # d.id
    BY <1>4, <2>1, AddrAssumption DEF get_address_id, SameButTable
  <2>4. /\ Consistent(t)
        /\ SameButTable(d, t)
        /\ fingers(t) = fingers(d) \cup {id}
        /\ t.flist[id] = new_finger(addr)
        /\ \A x \in fingers(d) : t.flist[x] = d.flist[x]
        /\ active_fingers(t) = active_fingers(d)
    BY <2>1, <2>2, <2>3, ListInsertConsistent
  <2>5. SameButTable(s, t)
    BY <2>1, <2>4 DEF SameButTable
  <2>6. \A x \in active_fingers(s) : t.flist[x] = s.flist[x]
    BY <2>1, <2>4 DEF active_fingers
  <2>7. t.flist[id].addr = addr
    BY <2>4 DEF new_finger
  <2> QED
    BY <2>1, <2>4, <2>5, <2>6, <2>7 DEF t
<1> QED
  BY <1>2, <1>3, <1>4

-----------------------------------------------------------------------------
\* The table after a pong from finger f: it owes no answer and is active.
Answered(s, f) == activate_finger([s EXCEPT !.flist[f].npings = 0], f)

\* What the two assignments do to the finger.
LEMMA FingerAnswers ==
  ASSUME NEW r \in Finger
  PROVE  LET h == [r EXCEPT !.npings = 0]
             g == [h EXCEPT !.status = "ACTIVE"]
         IN  /\ h \in Finger /\ h.status = r.status
             /\ g \in Finger /\ g.status = "ACTIVE" /\ g.addr = r.addr
<1> DEFINE h == [r EXCEPT !.npings = 0]
<1>1. h \in Finger /\ h.status = r.status /\ h.addr = r.addr
  BY FingerAssumption DEF Finger
<1> HIDE DEF h
<1>2. LET g == [h EXCEPT !.status = "ACTIVE"]
      IN  g \in Finger /\ g.status = "ACTIVE" /\ g.addr = h.addr
  BY <1>1 DEF Finger
<1> QED
  BY <1>1, <1>2 DEF h

(***************************************************************************)
(* process_pong leaves a consistent table: an activated finger is counted  *)
(* off, and the range follows if it became the predecessor.  There is a    *)
(* predecessor then, so assert(newpred || (pred == newpred)) holds.        *)
(***************************************************************************)
LEMMA ActivateConsistent ==
  ASSUME NEW s, Consistent(s), NEW f \in fingers(s)
  PROVE  LET u == Answered(s, f)
             t == IF pred_finger(s) = pred_finger(u) THEN u
                  ELSE chord_update_range(u, pred_finger(u), s.id)
         IN  /\ pred_finger(u) # NULL
             /\ Consistent(t)
             /\ SameButTable(s, t)
             /\ fingers(t) = fingers(s)
             /\ active_fingers(t) = active_fingers(s) \cup {f}
             /\ \A x \in fingers(s) : t.flist[x].addr = s.flist[x].addr
<1> DEFINE u == Answered(s, f)
           n == IF s.flist[f].status = "PASSIVE" THEN s.num_passive_fingers - 1
                ELSE s.num_passive_fingers
           h == [s.flist[f] EXCEPT !.npings = 0]
           g == [h EXCEPT !.status = "ACTIVE"]
           w == [s EXCEPT !.flist[f].npings = 0]
           t == IF pred_finger(s) = pred_finger(u) THEN u
                ELSE chord_update_range(u, pred_finger(u), s.id)
<1>1. IsServer(s) /\ s.num_passive_fingers \in Nat /\ s.flist[f] \in Finger
  BY DEF Consistent, IsServer, fingers
<1>2. /\ h \in Finger /\ h.status = s.flist[f].status
      /\ g \in Finger /\ g.status = "ACTIVE" /\ g.addr = s.flist[f].addr
  BY <1>1, FingerAnswers
<1>3. w = [s EXCEPT !.flist = [s.flist EXCEPT ![f] = h]]
  BY <1>1 DEF IsServer
<1> HIDE DEF h
<1>4. /\ w.flist = [s.flist EXCEPT ![f] = h]
      /\ w.num_passive_fingers = s.num_passive_fingers
      /\ w.pred_bound = s.pred_bound
      /\ SameButTable(s, w)
  BY <1>1, <1>3 DEF IsServer, SameButTable
<1>5. w.flist[f] = h /\ IsServer(w) /\ fingers(w) = fingers(s)
  BY <1>1, <1>2, <1>3, <1>4 DEF IsServer, fingers
<1> HIDE DEF w
<1>6. u = [w EXCEPT !.num_passive_fingers = n, !.flist = [w.flist EXCEPT ![f] = g]]
  BY <1>2, <1>4, <1>5 DEF Answered, activate_finger, IsServer, w
<1> HIDE DEF u, g, n
<1>7. /\ u.flist = [w.flist EXCEPT ![f] = g]
      /\ u.num_passive_fingers = n
      /\ u.pred_bound = w.pred_bound
      /\ SameButTable(w, u)
  BY <1>5, <1>6 DEF IsServer, SameButTable
<1>8. /\ fingers(u) = fingers(s)
      /\ u.flist[f] = g
      /\ \A x \in fingers(s) \ {f} : u.flist[x] = s.flist[x]
      /\ [w.flist EXCEPT ![f] = g] \in [fingers(s) -> Finger]
  BY <1>1, <1>2, <1>4, <1>5, <1>7 DEF IsServer, fingers
<1>9. /\ active_fingers(u) = active_fingers(s) \cup {f}
      /\ passive_fingers(u) = passive_fingers(s) \ {f}
      /\ f \in passive_fingers(s) <=> s.flist[f].status = "PASSIVE"
  BY <1>2, <1>8 DEF active_fingers, passive_fingers
<1>10. n = Cardinality(passive_fingers(u)) /\ n \in Nat /\ n <= s.num_passive_fingers
  <2>1. passive_fingers(s) \subseteq Id /\ passive_fingers(u) \subseteq Id
    BY <1>1, <1>9 DEF IsServer, passive_fingers
  <2>2. IsFiniteSet(passive_fingers(s)) /\ Cardinality(passive_fingers(u)) \in Nat
    BY <2>1, FingersFinite
  <2>3. Cardinality(passive_fingers(u)) =
          IF f \in passive_fingers(s) THEN Cardinality(passive_fingers(s)) - 1
          ELSE Cardinality(passive_fingers(s))
    BY <1>9, <2>2, FS_RemoveElement
  <2>4. s.num_passive_fingers = Cardinality(passive_fingers(s))
    BY DEF Consistent
  <2> QED
    BY <1>1, <1>9, <2>2, <2>3, <2>4 DEF n
<1>11. IsServer(u)
  <2>1. fingers(s) \subseteq Id
    BY <1>1 DEF IsServer
  <2> DEFINE fl == [w.flist EXCEPT ![f] = g]
  <2>2. fl \in [fingers(s) -> Finger]
    BY <1>8
  <2> HIDE DEF fl
  <2>3. IsServer([w EXCEPT !.num_passive_fingers = n, !.flist = fl])
    BY <1>5, <1>10, <2>1, <2>2, ServerWithTable
  <2> QED
    BY <1>6, <2>3 DEF fl
<1>12. /\ pred_finger(u) \in Id /\ pred_finger(u) # NULL
       /\ SameButTable(s, u) /\ u.pred_bound = s.pred_bound
  <2>1. pred_finger(u) \in active_fingers(u)
    BY <1>9, <1>11, SuccAndPred
  <2> QED
    BY <1>4, <1>7, <1>11, <2>1, AddrAssumption DEF IsServer, active_fingers, SameButTable
<1>13. /\ t.flist = u.flist
       /\ t.num_passive_fingers = n
       /\ SameButTable(s, t)
       /\ t.pred_bound = IF pred_finger(s) = pred_finger(u) THEN s.pred_bound
                         ELSE pred_finger(u)
       /\ IsServer(t)
  <2>1. CASE pred_finger(s) = pred_finger(u)
    BY <1>7, <1>11, <1>12, <2>1
  <2>2. CASE pred_finger(s) # pred_finger(u)
    <3>1. t = [u EXCEPT !.pred_bound = pred_finger(u), !.id = s.id]
      BY <2>2 DEF chord_update_range
    <3> DEFINE b == pred_finger(u)
    <3>2. b \in Id /\ t = [u EXCEPT !.pred_bound = b, !.id = s.id]
      BY <1>12, <3>1
    <3> HIDE DEF b, t
    <3>3. /\ t.flist = u.flist
          /\ t.num_passive_fingers = u.num_passive_fingers
          /\ t.pred_bound = b
          /\ SameButTable(s, t)
      BY <1>11, <1>12, <3>2 DEF IsServer, SameButTable
    <3>4. IsServer(t)
      BY <1>1, <1>11, <3>2, <3>3 DEF IsServer, fingers
    <3> QED
      BY <1>7, <2>2, <3>3, <3>4 DEF b
  <2> QED
    BY <2>1, <2>2
<1> HIDE DEF t
<1>14. /\ fingers(t) = fingers(u)
       /\ active_fingers(t) = active_fingers(u)
       /\ passive_fingers(t) = passive_fingers(u)
       /\ t.id = u.id
  BY <1>12, <1>13 DEF fingers, active_fingers, passive_fingers, SameButTable
<1>15. pred_finger(t) = pred_finger(u)
  BY <1>14, BoundFromActive
<1>16. \A x \in fingers(s) : t.flist[x].addr = s.flist[x].addr
  BY <1>2, <1>8, <1>13
<1>17. Consistent(t)
  <2>1. \A x \in fingers(t) : get_address_id(t.flist[x].addr) = x
    BY <1>8, <1>14, <1>16 DEF Consistent
  <2>2. t.num_passive_fingers = Cardinality(passive_fingers(t))
    BY <1>10, <1>13, <1>14
  <2>3. t.num_passive_fingers <= MAX_PASSIVE_FINGERS
    BY <1>1, <1>10, <1>13, FingerAssumption DEF Consistent
  <2>4. t.id \notin fingers(t)
    BY <1>8, <1>13, <1>14 DEF Consistent, SameButTable
  <2>5. t.pred_bound = PredecessorOrSelf(t)
    BY <1>12, <1>13, <1>15 DEF PredecessorOrSelf, Consistent
  <2> QED
    BY <2>1, <2>2, <2>3, <2>4, <2>5, <1>13 DEF Consistent
<1> QED
  BY <1>8, <1>9, <1>12, <1>13, <1>14, <1>16, <1>17 DEF t, u

-----------------------------------------------------------------------------
(***************************************************************************)
(* Routing.  When the target lies beyond the successor, the closest        *)
(* preceding node of next_route_node and process_fs is a finger, strictly  *)
(* between the server and the target.                                      *)
(***************************************************************************)
LEMMA ClosestPrecedingNode ==
  ASSUME NEW s, Consistent(s), succ_finger(s) # NULL, NEW id \in Id,
         ~ id_is_between(id, s.id, succ_finger(s)), id # succ_finger(s)
  PROVE  /\ closest_preceding_node(s, id, FALSE) \in Addr
         /\ id_is_between(get_address_id(closest_preceding_node(s, id, FALSE)), s.id, id)
<1> DEFINE S == {x \in active_fingers(s) : id_is_between(x, s.id, id)}
           f == LastFinger(s, S)
<1>1. /\ IsServer(s) /\ s.id \in Id /\ active_fingers(s) \subseteq Id
      /\ active_fingers(s) \subseteq fingers(s)
      /\ \A x \in fingers(s) : s.flist[x].addr \in Addr /\ get_address_id(s.flist[x].addr) = x
  BY DEF Consistent, IsServer, active_fingers, Finger
<1>2. succ_finger(s) \in active_fingers(s)
  BY <1>1, SuccAndPred
<1>3. succ_finger(s) \in S
  BY <1>1, <1>2, BetweenIsTotalOrder
<1>4. f \in S /\ f # NULL
  BY <1>1, <1>3, FirstAndLastFinger
<1>5. closest_preceding_finger(s, id, FALSE) = f
  BY DEF closest_preceding_finger
<1> HIDE DEF f
<1>6. closest_preceding_node(s, id, FALSE) = s.flist[f].addr
  BY <1>4, <1>5, Zenon DEF closest_preceding_node
<1> QED
  BY <1>1, <1>4, <1>6, Zenon

(***************************************************************************)
(* The next hop of a target outside the server's range is not the server.  *)
(* Unless it is told it should be responsible, it is strictly closer.  Of  *)
(* a packet that is marked last it is the predecessor, which is not before *)
(* the target.                                                             *)
(***************************************************************************)
LEMMA NextRouteNode ==
  ASSUME NEW s, Consistent(s), NEW id \in Id, ~ chord_id_is_local(s, id), NEW last \in BOOLEAN
  PROVE  LET next == next_route_node(s, id, last)
             x == get_address_id(next.addr)
         IN  /\ next.addr \in Addr /\ next.last \in BOOLEAN
             /\ x # s.id
             /\ next.last \/ id_is_between(x, s.id, id)
             /\ last => next.last /\ (x = id \/ id_is_between(x, id, s.id))
<1> DEFINE next == next_route_node(s, id, last)
           pf == pred_finger(s)
           sf == succ_finger(s)
<1>1. /\ IsServer(s) /\ s.id \in Id /\ active_fingers(s) \subseteq fingers(s)
      /\ active_fingers(s) \subseteq Id
      /\ \A x \in fingers(s) : s.flist[x].addr \in Addr /\ get_address_id(s.flist[x].addr) = x
      /\ s.id \notin fingers(s) /\ s.pred_bound = PredecessorOrSelf(s)
  BY DEF Consistent, IsServer, active_fingers, Finger
<1>2. active_fingers(s) # {}
  <2> SUFFICES ASSUME active_fingers(s) = {} PROVE FALSE
    OBVIOUS
  <2>1. s.pred_bound = s.id
    BY <1>1, SuccAndPred DEF PredecessorOrSelf
  <2> QED
    BY <2>1 DEF chord_id_is_local, id_is_between
<1>3. /\ sf \in active_fingers(s) /\ pf \in active_fingers(s)
      /\ sf # NULL /\ pf # NULL
  BY <1>1, <1>2, SuccAndPred
<1>4. /\ get_address_id(s.flist[sf].addr) = sf /\ sf # s.id
      /\ get_address_id(s.flist[pf].addr) = pf /\ pf # s.id
      /\ s.flist[sf].addr \in Addr /\ s.flist[pf].addr \in Addr
  BY <1>1, <1>3
<1>5. CASE last
  <2>1. next = [addr |-> s.flist[pf].addr, last |-> TRUE]
    BY <1>3, <1>5 DEF next_route_node
  <2>2. s.pred_bound = pf
    BY <1>1, <1>3 DEF PredecessorOrSelf
  <2>3. pf = id \/ id_is_between(pf, id, s.id)
    <3>1. pf \in Id
      BY <1>1, <1>3
    <3> HIDE DEF pf
    <3> QED
      BY <1>1, <1>4, <2>2, <3>1 DEF chord_id_is_local, id_is_between, Id
  <2> QED
    BY <1>4, <2>1, <2>3
<1>6. CASE ~ last /\ (id_is_between(id, s.id, sf) \/ id = sf)
  <2>1. next = [addr |-> s.flist[sf].addr, last |-> TRUE]
    BY <1>3, <1>6 DEF next_route_node
  <2> QED
    BY <1>4, <1>6, <2>1
<1>7. CASE ~ last /\ ~ (id_is_between(id, s.id, sf) \/ id = sf)
  <2> DEFINE a == closest_preceding_node(s, id, FALSE)
  <2>1. next = [addr |-> a, last |-> FALSE]
    BY <1>3, <1>7 DEF next_route_node
  <2>2. a \in Addr /\ id_is_between(get_address_id(a), s.id, id)
    BY <1>3, <1>7, ClosestPrecedingNode, Zenon
  <2> HIDE DEF a
  <2>3. get_address_id(a) # s.id
    BY <1>1, <2>2 DEF id_is_between, Id
  <2> QED
    BY <1>7, <2>1, <2>2, <2>3
<1> QED
  BY <1>5, <1>6, <1>7

\* The next hop is some node, the server itself where it knows of no other.
LEMMA NextHopType ==
  ASSUME NEW s, Consistent(s), s.addr \in Addr, NEW id, NEW last \in BOOLEAN
  PROVE  LET next == next_route_node(s, id, last)
         IN  next.addr \in Addr /\ next.last \in BOOLEAN
<1> DEFINE next == next_route_node(s, id, last)
           pf == pred_finger(s)
           sf == succ_finger(s)
           S == {x \in active_fingers(s) : id_is_between(x, s.id, id)}
           f == LastFinger(s, S)
           a == closest_preceding_node(s, id, FALSE)
<1>1. /\ IsServer(s) /\ s.id \in Id /\ active_fingers(s) \subseteq Id
      /\ \A x \in active_fingers(s) : s.flist[x].addr \in Addr
  BY DEF Consistent, IsServer, active_fingers, Finger
<1>2. /\ pf # NULL => s.flist[pf].addr \in Addr
      /\ sf # NULL => s.flist[sf].addr \in Addr
  BY <1>1, SuccAndPred
<1>3. a \in Addr
  <2>1. closest_preceding_finger(s, id, FALSE) = f
    BY DEF closest_preceding_finger
  <2>2. f # NULL => f \in S
    BY <1>1, FirstAndLastFinger
  <2> HIDE DEF f
  <2>3. a = IF f = NULL THEN s.addr ELSE s.flist[f].addr
    BY <2>1, Zenon DEF closest_preceding_node
  <2> QED
    BY <1>1, <2>2, <2>3, Zenon
<1> HIDE DEF a, pf, sf
<1>4. \/ pf # NULL /\ next = [addr |-> s.flist[pf].addr, last |-> TRUE]
      \/ sf # NULL /\ next = [addr |-> s.flist[sf].addr, last |-> TRUE]
      \/ next = [addr |-> a, last |-> FALSE]
  BY DEF next_route_node, a, pf, sf
<1> HIDE DEF next
<1>5. next.addr \in Addr
  BY <1>2, <1>3, <1>4
<1>6. next.last = TRUE \/ next.last = FALSE
  BY <1>4
<1> QED
  BY <1>5, <1>6, Zenon DEF next

=============================================================================
