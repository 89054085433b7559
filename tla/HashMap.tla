------------------------------ MODULE HashMap ------------------------------
(***************************************************************************)
(* The open-addressing hash table of the logger (src/logger/hashmap.c):    *)
(* linear probing over at most MAX_CHAIN_LENGTH places, and a table that   *)
(* is doubled when it is half full or a chain is too long.  The functions  *)
(* the program calls: it never removes an element.                         *)
(***************************************************************************)
EXTENDS Naturals

CONSTANTS
  INITIAL_SIZE,
  MAX_CHAIN_LENGTH,
  HashValue,   \* the hash of a key before it is reduced to the size of the table
  NULL

Free == [in_use |-> 0, key |-> NULL, data |-> NULL]

EmptyTable(n) == [i \in 0 .. n - 1 |-> Free]

hashmap_new == [table_size |-> INITIAL_SIZE, size |-> 0, data |-> EmptyTable(INITIAL_SIZE)]

hashmap_hash_int(m, key) == HashValue[key] % m.table_size

\* The places a key may be in, in the order they are probed.
Chain(m, key) ==
  [i \in 1 .. MAX_CHAIN_LENGTH |-> (hashmap_hash_int(m, key) + i - 1) % m.table_size]

\* The first place of the chain that is free or holds the key; NULL for MAP_FULL.
hashmap_hash(m, key) ==
  LET chain == Chain(m, key)
      fits == {i \in DOMAIN chain : m.data[chain[i]].in_use = 0 \/ m.data[chain[i]].key = key}
  IN  IF m.size >= m.table_size \div 2 \/ fits = {} THEN NULL
      ELSE chain[CHOOSE i \in fits : \A j \in fits : i <= j]

hashmap_doubled(m) ==
  [table_size |-> 2 * m.table_size, size |-> 0, data |-> EmptyTable(2 * m.table_size)]

RECURSIVE hashmap_put(_, _, _), RehashFrom(_, _, _)

\* The elements of the old table from place i on, put into m one by one.
RehashFrom(m, old, i) ==
  IF i \notin DOMAIN old THEN m
  ELSE RehashFrom(IF old[i].in_use = 0 THEN m ELSE hashmap_put(m, old[i].key, old[i].data),
                  old, i + 1)

\* Mutant: the loop misses the first place of the old table.
hashmap_rehash_from_1(m) == RehashFrom(hashmap_doubled(m), m.data, 1)

hashmap_rehash(m) == RehashFrom(hashmap_doubled(m), m.data, 0)

hashmap_put(m, key, value) ==
  LET index == hashmap_hash(m, key)
  IN  IF index = NULL THEN hashmap_put(hashmap_rehash(m), key, value)
      ELSE [m EXCEPT !.data[index] = [in_use |-> 1, key |-> key, data |-> value],
                     !.size = @ + 1]

\* All of the chain is searched; NULL for MAP_MISSING.
hashmap_get(m, key) ==
  LET chain == Chain(m, key)
      found == {i \in DOMAIN chain : m.data[chain[i]].key = key}
  IN  IF found = {} THEN NULL
      ELSE m.data[chain[CHOOSE i \in found : \A j \in found : i <= j]].data
=============================================================================
