--------------------------------- MODULE Table ---------------------------------
(***************************************************************************)
(* The hash table of src/src/table.c, as operators: open addressing with   *)
(* linear probing, tombstones where keys were deleted, and a table of      *)
(* twice the size when the load would pass three quarters.                 *)
(*                                                                         *)
(* A key is the address of a StringObj, and tables compare the addresses;  *)
(* hash[k] is its hashcode.                                                *)
(***************************************************************************)
EXTENDS Integers, FiniteSetsExt

CONSTANTS
  Key,      \* the addresses of strings
  Null,     \* no key; also the value of an entry that was never written
  Least     \* the capacity of the first allocation (32 in GROW_CAPACITY)

ASSUME TableAssumption == Null \notin Key /\ Least \in Nat /\ Least > 1

EmptyEntry == [key |-> Null, tombstone |-> FALSE, value |-> Null]
EmptyTable == [count |-> 0, capacity |-> 0, entries |-> [i \in {} |-> EmptyEntry]]

NoEntry == -1     \* the NULL that find_entry returns

(* A slot that was never written since the entries were allocated.         *)
Unused(e) == e.key = Null /\ ~e.tombstone

(* The slot that the n-th step of a search from hashcode h looks at.       *)
Probe(h, n, capacity) == (h + n) % capacity

(* Mutant: a search ends at the first tombstone as if it had no key.       *)
FindEntryStopsAtTombstone(entries, capacity, key, hash) ==
  LET At(n) == Probe(hash[key], n, capacity)
      ends  == {n \in 0 .. capacity - 1 :
                  \/ entries[At(n)].key = key
                  \/ entries[At(n)].key = Null}
  IN IF ends = {} THEN NoEntry ELSE At(Min(ends))

(* The slot of the key, or else the one to put it in: the first tombstone  *)
(* on the way to the first unused slot, or that slot.                      *)
FindEntry(entries, capacity, key, hash) ==
  LET At(n) == Probe(hash[key], n, capacity)
      ends  == {n \in 0 .. capacity - 1 :
                  entries[At(n)].key = key \/ Unused(entries[At(n)])}
      end   == IF ends = {} THEN capacity ELSE Min(ends)
      tombs == {n \in 0 .. end - 1 : entries[At(n)].tombstone}
  IN CASE ends # {} /\ entries[At(end)].key = key -> At(end)
       [] OTHER -> IF tombs # {} THEN At(Min(tombs))
                   ELSE IF ends # {} THEN At(end) ELSE NoEntry

GrowCapacity(capacity) == IF capacity < Least THEN Least ELSE 2 * capacity

(* One slot's key, if it has one, moves to a larger array.                 *)
Move(entries, capacity, e, hash) ==
  IF e.key = Null THEN entries
  ELSE [entries EXCEPT ![FindEntry(entries, capacity, e.key, hash)] =
          [@ EXCEPT !.key = e.key, !.value = e.value]]

(* The keys move in the order of their slots; tombstones stay behind.      *)
TableExpand(t, hash) ==
  LET capacity == GrowCapacity(t.capacity)
      Moved[n \in 0 .. t.capacity] ==
        IF n = 0 THEN [i \in 0 .. capacity - 1 |-> EmptyEntry]
        ELSE Move(Moved[n - 1], capacity, t.entries[n - 1], hash)
  IN [count    |-> t.count,
      capacity |-> capacity,
      entries  |-> Moved[t.capacity]]

(* Mutant: the table grows only when it is full.                           *)
MustExpandLate(t) == t.count + 1 > t.capacity

(* count + 1 > MAX_LOAD * capacity                                         *)
MustExpand(t) == 4 * (t.count + 1) > 3 * t.capacity

(* Put a key and a value in an entry.                                      *)
Fill(t, i, key, value) ==
  [t EXCEPT !.entries[i] = [key |-> key, tombstone |-> FALSE, value |-> value]]

(* table_set once there is room: the table, and whether the key was there. *)
SetInPlace(t, key, value, hash) ==
  LET i     == FindEntry(t.entries, t.capacity, key, hash)
      exist == t.entries[i].key = key
  IN [table |-> [Fill(t, i, key, value) EXCEPT
                   !.count = IF exist THEN @ ELSE @ + 1],
      exist |-> exist]

TableSet(t, key, value, hash) ==
  SetInPlace(IF MustExpand(t) THEN TableExpand(t, hash) ELSE t, key, value, hash)

(* table_get: the value, or Null when the key is not there.                *)
TableGet(t, key, hash) ==
  IF t.capacity = 0 THEN Null
  ELSE LET e == t.entries[FindEntry(t.entries, t.capacity, key, hash)]
       IN IF e.key = Null THEN Null ELSE e.value

(* Mutant: the slot becomes unused again.                                  *)
TableDeleteForgets(t, key, hash) ==
  LET i == FindEntry(t.entries, t.capacity, key, hash)
  IN [t EXCEPT !.count = @ - 1, !.entries[i] = EmptyEntry]

(* table_delete of a key that is there, the only use the program makes.    *)
TableDelete(t, key, hash) ==
  LET i == FindEntry(t.entries, t.capacity, key, hash)
  IN [t EXCEPT !.count = @ - 1,
               !.entries[i].key = Null, !.entries[i].tombstone = TRUE]

(* table_remove_unmarked_object, slot after slot.                          *)
Visit(t, i, marked, hash) ==
  IF t.entries[i].key \in Key \ marked
  THEN TableDelete(t, t.entries[i].key, hash) ELSE t

TableRemoveUnmarked(t, marked, hash) ==
  LET Visited[n \in 0 .. t.capacity] ==
        IF n = 0 THEN t ELSE Visit(Visited[n - 1], n - 1, marked, hash)
  IN Visited[t.capacity]

(* table_add_all: every pair of src goes to dest.                          *)
AddEntry(t, e, hash) ==
  IF e.key = Null THEN t ELSE TableSet(t, e.key, e.value, hash).table

(* Mutant: the last entry of src is left out.                              *)
TableAddAllShort(dest, src, hash) ==
  LET Added[n \in 0 .. src.capacity] ==
        IF n = 0 THEN dest ELSE AddEntry(Added[n - 1], src.entries[n - 1], hash)
  IN Added[IF src.capacity = 0 THEN 0 ELSE src.capacity - 1]

TableAddAll(dest, src, hash) ==
  LET Added[n \in 0 .. src.capacity] ==
        IF n = 0 THEN dest ELSE AddEntry(Added[n - 1], src.entries[n - 1], hash)
  IN Added[src.capacity]

-------------------------------------------------------------------------------
Keys(t) == {t.entries[i].key : i \in 0 .. t.capacity - 1} \ {Null}

(* What makes a table sound: no key twice, the count of keys right, and    *)
(* each key met by the search for it before any unused slot.               *)
Sound(t, hash) ==
  /\ t.count = Cardinality(Keys(t))
  /\ t.count = Cardinality({i \in 0 .. t.capacity - 1 : t.entries[i].key # Null})
  /\ \A k \in Keys(t) :
       t.entries[FindEntry(t.entries, t.capacity, k, hash)].key = k
===============================================================================
