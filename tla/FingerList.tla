----------------------------- MODULE FingerList -----------------------------
(***************************************************************************)
(* The finger table as the code keeps it (src/finger.c, src/stabilize.c):  *)
(* a doubly linked list of allocated Finger structures between head_flist  *)
(* and tail_flist, with identifiers that are arrays of bytes, and loops    *)
(* that follow the pointers.  ListRefinement relates it to FingerSet.      *)
(***************************************************************************)
EXTENDS IdBytes, Sequences, FiniteSets

CONSTANTS Addr, Self, NULL, WellKnown,
          AddrId,   \* SHA-1 of an address, as an array of bytes
          MAX_PASSIVE_FINGERS, PING_THRESH, NFINGERS, NSUCCESSORS, NPREDECESSORS

\* The blocks malloc may return.
Pointer == 1 .. Cardinality(Addr)

\* The hash is taken to be injective.  NSUCCESSORS is 8 and NPREDECESSORS 3 in the code.
ASSUME ListAssumption ==
  /\ IsFiniteSet(Addr) /\ Self \in Addr
  /\ NULL \notin Pointer
  /\ AddrId \in [Addr -> chordID]
  /\ \A a, b \in Addr : AddrId[a] = AddrId[b] => a = b
  /\ NFINGERS \in 1 .. CHORD_ID_BYTES * BYTE_BITS
  /\ NSUCCESSORS \in Nat \ {0} /\ NPREDECESSORS \in Nat \ {0}
  /\ NSUCCESSORS > 1 \/ NPREDECESSORS = 1

VARIABLES
  srv,   \* the fields of ChordServer that are about fingers, and the heap
  out    \* the last operation, and the type and destination of its messages

vars == <<srv, out>>

Allocated(s) == DOMAIN s.heap

Field(s, f, name) == s.heap[f][name]

next(s, f) == s.heap[f].next

prev(s, f) == s.heap[f].prev

-----------------------------------------------------------------------------
\* n steps from f along the next or the prev pointers; NULL from the end of the list on.
Steps(s, f, dir, n) ==
  LET walk[k \in Nat] ==
        IF k = 0 THEN f
        ELSE LET g == walk[k - 1] IN IF g = NULL THEN NULL ELSE Field(s, g, dir)
  IN  walk[n]

(***************************************************************************)
(* The first finger from f on that is in S, or NULL: every search loop of  *)
(* finger.c.  A list has no more fingers than there are structures.        *)
(***************************************************************************)
Search(s, f, dir, S) ==
  LET hits == {n \in 0 .. Cardinality(Allocated(s)) - 1 : Steps(s, f, dir, n) \in S}
  IN  IF hits = {} THEN NULL
      ELSE Steps(s, f, dir, CHOOSE n \in hits : \A m \in hits : n <= m)

is_active(s, f) == s.heap[f].status = "ACTIVE"

active_fingers(s) == {f \in Allocated(s) : is_active(s, f)}

succ_finger(s) == Search(s, s.head, "next", active_fingers(s))

pred_finger(s) == Search(s, s.tail, "prev", active_fingers(s))

closest_preceding_finger(s, id, fall) ==
  Search(s, s.tail, "prev",
         {f \in IF fall THEN Allocated(s) ELSE active_fingers(s) :
            id_is_between(s.heap[f].id, s.id, id)})

get_finger(s, id) ==
  Search(s, s.head, "next", {f \in Allocated(s) : id_equals(id, s.heap[f].id)})

\* worst[n] is worst_finger after n rounds.  npings_record is -1 before there is one.
get_worst_passive_finger(s) ==
  LET worst[n \in Nat] ==
        IF n = 0 THEN NULL
        ELSE LET w == worst[n - 1]
                 f == Steps(s, s.head, "next", n - 1)
                 npings_record == IF w = NULL THEN -1 ELSE s.heap[w].npings
             IN  IF npings_record >= PING_THRESH - 1 THEN w
                 ELSE IF f = NULL THEN w
                 ELSE IF ~is_active(s, f) /\ s.heap[f].npings > npings_record THEN f
                 ELSE w
  IN  worst[Cardinality(Allocated(s))]

-----------------------------------------------------------------------------
\* An assignment through a pointer, if it is not NULL.
Set(heap, f, name, v) == IF f = NULL THEN heap ELSE [heap EXCEPT ![f][name] = v]

chord_update_range(s, l) == [s EXCEPT !.pred_bound = l]

\* Mutant: the new finger's successor is not told of it.
fingerlist_insert_one_way(s, f) ==
  LET prec_f == closest_preceding_finger(s, s.heap[f].id, TRUE)
  IN  IF s.head = NULL THEN [s EXCEPT !.head = f, !.tail = f]
      ELSE IF prec_f = NULL
      THEN [s EXCEPT !.heap = Set(Set(s.heap, f, "next", s.head), s.head, "prev", f),
                     !.head = f]
      ELSE [s EXCEPT !.heap = Set(Set(Set(s.heap, f, "next", next(s, prec_f)),
                                      f, "prev", prec_f),
                                  prec_f, "next", f),
                     !.tail = IF next(s, prec_f) = NULL THEN f ELSE @]

fingerlist_insert(s, f) ==
  LET prec_f == closest_preceding_finger(s, s.heap[f].id, TRUE)
  IN  IF s.head = NULL THEN [s EXCEPT !.head = f, !.tail = f]
      ELSE IF prec_f = NULL
      THEN [s EXCEPT !.heap = Set(Set(s.heap, f, "next", s.head), s.head, "prev", f),
                     !.head = f]
      ELSE [s EXCEPT !.heap = Set(Set(Set(Set(s.heap, f, "next", next(s, prec_f)),
                                          next(s, prec_f), "prev", f),
                                      f, "prev", prec_f),
                                  prec_f, "next", f),
                     !.tail = IF next(s, prec_f) = NULL THEN f ELSE @]

\* Take f out of the list; the structure is still there.
unlink_finger(s, f) ==
  [s EXCEPT !.head = IF s.head = f THEN next(s, f) ELSE @,
            !.tail = IF s.tail = f THEN prev(s, f) ELSE @,
            !.heap = Set(Set(s.heap, IF s.head = f THEN NULL ELSE prev(s, f), "next",
                             IF s.tail = f THEN NULL ELSE next(s, f)),
                         IF s.tail = f THEN NULL ELSE next(s, f), "prev",
                         IF s.head = f THEN NULL ELSE prev(s, f))]

free_finger(s, f) == [s EXCEPT !.heap = [g \in Allocated(s) \ {f} |-> s.heap[g]]]

remove_finger(s, f) ==
  LET pred == pred_finger(s)
      t  == unlink_finger([s EXCEPT !.num_passive_fingers =
                             IF is_active(s, f) THEN @ ELSE @ - 1], f)
      pf == pred_finger(t)
      u  == IF pred = pf THEN t
            ELSE chord_update_range(t, IF pf = NULL THEN s.id ELSE t.heap[pf].id)
  IN  free_finger(u, f)

\* emalloc, and the structure it returns.
new_finger(s, addr) ==
  LET f == CHOOSE p \in Pointer \ Allocated(s) : \A q \in Pointer \ Allocated(s) : p <= q
  IN  [ptr |-> f,
       srv |-> [s EXCEPT !.heap = [g \in Allocated(s) \cup {f} |->
                  IF g # f THEN s.heap[g]
                  ELSE [addr |-> addr, id |-> AddrId[addr], status |-> "PASSIVE",
                        npings |-> 0, next |-> NULL, prev |-> NULL]]]]

(***************************************************************************)
(* The server and the pointer insert_finger returns.  The hash being       *)
(* injective, a finger that is found has the given address.                *)
(***************************************************************************)
insert_finger(s, addr) ==
  LET f == get_finger(s, AddrId[addr])
      worst_finger == get_worst_passive_finger(s)
      t == IF s.num_passive_fingers >= MAX_PASSIVE_FINGERS
           THEN remove_finger(s, worst_finger) ELSE s
      n == new_finger([t EXCEPT !.num_passive_fingers = @ + 1], addr)
  IN  IF addr = Self THEN [ptr |-> NULL, srv |-> s]
      ELSE IF f # NULL THEN [ptr |-> f, srv |-> s]
      ELSE IF s.num_passive_fingers >= MAX_PASSIVE_FINGERS /\ worst_finger = NULL
      THEN [ptr |-> NULL, srv |-> [s EXCEPT !.fault = "assert"]]
      ELSE [ptr |-> n.ptr, srv |-> fingerlist_insert(n.srv, n.ptr)]

activate_finger(s, f) ==
  IF is_active(s, f) THEN s
  ELSE [s EXCEPT !.num_passive_fingers = @ - 1, !.heap[f].status = "ACTIVE"]

process_pong(s, from) ==
  LET r == insert_finger(s, from)
      t == [r.srv EXCEPT !.heap[r.ptr].npings = 0]
      u == activate_finger(t, r.ptr)
      newpred == pred_finger(u)
  IN  IF r.ptr = NULL THEN r.srv
      ELSE IF pred_finger(t) = newpred THEN u
      ELSE chord_update_range(u, u.heap[newpred].id)

-----------------------------------------------------------------------------
(***************************************************************************)
(* The loops of src/stabilize.c.  Those that change the table go over      *)
(* records of the loop's variables: round[n] is what they are after n      *)
(* rounds.  A loop that is over stays where it is.                         *)
(***************************************************************************)
Message(type, addr) == [type |-> type, to |-> addr]

Result(s, msgs) == [srv |-> s, out |-> msgs]

\* f->next is read before the finger is freed.
ping_round(r) ==
  LET s == r.srv
      f == r.f
      turn == s.to_ping = r.i
  IN  IF f = NULL THEN r
      ELSE IF s.heap[f].npings >= PING_THRESH
      THEN [r EXCEPT !.srv = remove_finger(s, f), !.f = next(s, f), !.i = @ + 1]
      ELSE IF s.heap[f].npings > 0 \/ turn
      THEN [srv |-> [s EXCEPT !.heap[f].npings = @ + 1], f |-> next(s, f), i |-> r.i + 1,
            f_pinged |-> IF turn THEN f ELSE r.f_pinged,
            sent |-> r.sent \cup {Message("PING", s.heap[f].addr)}]
      ELSE [r EXCEPT !.f = next(s, f), !.i = @ + 1]

ping(s) ==
  LET round[n \in Nat] ==
        IF n = 0 THEN [srv |-> s, f |-> s.head, i |-> 0, f_pinged |-> NULL, sent |-> {}]
        ELSE ping_round(round[n - 1])
      last == round[Cardinality(Allocated(s))]
      more == last.f_pinged # NULL /\ next(last.srv, last.f_pinged) # NULL
  IN  Result([last.srv EXCEPT !.to_ping = IF more THEN @ + 1 ELSE 0], last.sent)

\* k steps from f along next, or as many as there are.
Skip(s, f, k) ==
  LET walk[n \in Nat] ==
        IF n = 0 THEN f
        ELSE LET g == walk[n - 1] IN IF next(s, g) = NULL THEN g ELSE next(s, g)
  IN  walk[k]

(***************************************************************************)
(* The walk back from our predecessor sends its only message when k is     *)
(* to_fix_backup, if it gets there: not past the head or the finger just   *)
(* asked (which it does not recognize at the tail).                        *)
(***************************************************************************)
fix_succs_preds(s) ==
  LET f == Skip(s, succ_finger(s), s.to_fix_backup)
      g(k) == Steps(s, pred_finger(s), "prev", k)
      j == s.to_fix_backup
      fix_pred == /\ j < NPREDECESSORS
                  /\ \A k \in 0 .. j : g(k) # NULL
                  /\ prev(s, g(j)) # NULL
                  /\ next(s, g(j)) # NULL
                  /\ \A k \in 0 .. j : g(k) = f => next(s, g(k)) = NULL
  IN  IF next(s, f) = NULL THEN Result([s EXCEPT !.to_fix_backup = 0], {})
      ELSE Result([s EXCEPT !.to_fix_backup = IF @ + 1 >= NSUCCESSORS THEN 0 ELSE @ + 1],
                  {Message("FS", s.heap[f].addr)}
                    \cup IF fix_pred THEN {Message("FS", s.heap[g(j)].addr)} ELSE {})

fix_fingers(s, rnd) ==
  LET succ  == succ_finger(s)
      id    == chord_id_successor(s.id, s.to_fix_finger)
      to_id == chord_id_successor(s.id, NFINGERS - 1)
      wraps == id_is_between(id, s.id, s.heap[succ].id) \/ s.to_fix_finger = 0
      prec  == closest_preceding_finger(s, to_id, FALSE)
      f     == IF prec = NULL THEN succ ELSE prec
  IN  Result([s EXCEPT !.to_fix_finger = IF wraps THEN NFINGERS - 1 ELSE @ - 1],
             {Message("FS", s.heap[f].addr)}
               \cup {Message("FS", WellKnown[i]) :
                        i \in {j \in 1 .. Len(WellKnown) : wraps /\ j = rnd}})

(***************************************************************************)
(* A round of the loop over k, or, while "inner", of the loop inside it    *)
(* that drops f and what precedes it while id has a better finger.         *)
(***************************************************************************)
clean_round(r, f_lastsucc, f_lastpred) ==
  LET s  == r.srv
      f  == r.f
      p  == prev(s, f)
      id == chord_id_successor(s.id, r.k)
      lastpred == s.heap[f_lastpred].id
      continue == [r EXCEPT !.k = @ - 1]
      return   == [r EXCEPT !.k = -1]
  IN  IF r.k < 0 THEN r
      ELSE IF r.inner
      THEN IF p = NULL \/ f = f_lastsucc THEN return
           ELSE IF id_is_between(s.heap[p].id, id, s.heap[f].id) \/ id_equals(s.heap[p].id, id)
           THEN [r EXCEPT !.srv = remove_finger(s, f), !.f = p]
           ELSE [continue EXCEPT !.f = p, !.inner = FALSE]
      ELSE IF f = f_lastsucc THEN return
      ELSE IF id_is_between(id, lastpred, s.id) \/ id_equals(id, lastpred) THEN continue
      ELSE IF id_is_between(id, s.id, s.heap[f_lastsucc].id) \/ id_equals(id, s.id)
      THEN return
      ELSE IF id_is_between(s.heap[f].id, s.id, id) THEN continue
      ELSE [r EXCEPT !.inner = TRUE]

\* Every round ends one for k, starts the inner loop for it, or drops a finger.
clean_from(s, f_lastsucc, f_lastpred) ==
  LET round[n \in Nat] ==
        IF n = 0 THEN [srv |-> s, f |-> prev(s, f_lastpred), k |-> NFINGERS - 1,
                       inner |-> FALSE]
        ELSE clean_round(round[n - 1], f_lastsucc, f_lastpred)
  IN  round[2 * NFINGERS + Cardinality(Allocated(s))].srv

\* Mutant: one predecessor more is kept.
clean_finger_list_short(s) ==
  LET f_lastsucc == Steps(s, s.head, "next", NSUCCESSORS - 1)
      back(k)    == Steps(s, s.tail, "prev", k)
  IN  IF f_lastsucc = NULL THEN s
      ELSE IF next(s, f_lastsucc) = NULL THEN s
      ELSE IF \E k \in 0 .. NPREDECESSORS - 1 : back(k) = f_lastsucc THEN s
      ELSE clean_from(s, f_lastsucc, back(NPREDECESSORS))

\* The walk from the tail over the predecessors ends early at f_lastsucc.
clean_finger_list(s) ==
  LET f_lastsucc == Steps(s, s.head, "next", NSUCCESSORS - 1)
      back(k)    == Steps(s, s.tail, "prev", k)
  IN  IF f_lastsucc = NULL THEN s
      ELSE IF next(s, f_lastsucc) = NULL THEN s
      ELSE IF \E k \in 0 .. NPREDECESSORS - 2 : back(k) = f_lastsucc THEN s
      ELSE clean_from(s, f_lastsucc, back(NPREDECESSORS - 1))

-----------------------------------------------------------------------------
Init ==
  /\ srv = [id |-> AddrId[Self], pred_bound |-> AddrId[Self], head |-> NULL, tail |-> NULL,
            heap |-> <<>>, num_passive_fingers |-> 0, to_ping |-> 0, to_fix_backup |-> 0,
            to_fix_finger |-> NFINGERS - 1, fault |-> "none"]
  /\ out = [op |-> "start", msgs |-> {}]

Does(op, r) == srv' = r.srv /\ out' = [op |-> op, msgs |-> r.out]

Insert(a) == Does("insert", Result(insert_finger(srv, a).srv, {}))

Pong(a) == Does("pong", Result(process_pong(srv, a), {}))

Ping == Does("ping", ping(srv))

FixBackup == succ_finger(srv) # NULL /\ Does("fix_succs_preds", fix_succs_preds(srv))

FixFinger(rnd) == succ_finger(srv) # NULL /\ Does("fix_fingers", fix_fingers(srv, rnd))

Clean == Does("clean", Result(clean_finger_list(srv), {}))

Next ==
  \/ \E a \in Addr : Insert(a) \/ Pong(a)
  \/ Ping \/ FixBackup \/ Clean
  \/ \E rnd \in 0 .. Len(WellKnown) - 1 : FixFinger(rnd)

Spec == Init /\ [][Next]_vars

-----------------------------------------------------------------------------
(***************************************************************************)
(* The list is linked both ways: from the head along next and from the     *)
(* tail along prev one meets the same fingers, every structure allocated   *)
(* and none that was freed, in clockwise order from the server             *)
(* (fingerlist_insert, remove_finger, and the loops that call it).         *)
(***************************************************************************)
ListIsLinked ==
  LET n == Cardinality(Allocated(srv))
      forward(i)  == Steps(srv, srv.head, "next", i)
      backward(i) == Steps(srv, srv.tail, "prev", i)
  IN  /\ {forward(i) : i \in 0 .. n - 1} = Allocated(srv)
      /\ \A i \in 0 .. n - 1 : backward(n - 1 - i) = forward(i)
      /\ forward(n) = NULL /\ backward(n) = NULL
      /\ \A i \in 0 .. n - 2 : id_is_between(srv.heap[forward(i)].id, srv.id,
                                             srv.heap[forward(i + 1)].id)

(***************************************************************************)
(* The identifiers fix_fingers and fix_succs_preds draw between two nodes  *)
(* lie between them, though id_random_between scales each byte of the      *)
(* distance by itself, and successor and predecessor by a power of two     *)
(* cancel, carries and borrows included (util.c).                          *)
(***************************************************************************)
DrawnIdsLieBetween ==
  LET ids == {srv.id} \cup {srv.heap[f].id : f \in Allocated(srv)}
  IN  \A a \in ids :
        /\ \A b \in ids, m \in 1 .. 10 :
             LET id == id_random_between(a, b, m)
             IN  id_equals(id, a) \/ id_is_between(id, a, b)
        /\ \A k \in 0 .. NFINGERS - 1 :
             id_equals(chord_id_predecessor(chord_id_successor(a, k), k), a)
=============================================================================
