------------------------------- MODULE DataProofs -------------------------------
(***************************************************************************)
(* Hash tables and their two uses, for every capacity, every hash and any  *)
(* set of keys, and values in boxes, for every computation.                *)
(*                                                                         *)
(* First, what the operations do: where a search ends, that an insertion,  *)
(* a deletion and a move to a larger array keep every key findable, and    *)
(* which pairs the table then has.  The loops are recursive functions over *)
(* the slots; what holds of them is proved by taking the least number of   *)
(* iterations after which it would not.                                    *)
(*                                                                         *)
(* Then Tables: a table always keeps an unused slot, so that every search  *)
(* ends, and the tables of globals, fields and methods are the maps of     *)
(* Dictionary.                                                             *)
(*                                                                         *)
(* Then Interning: the entry that StringObj_construct found is good after  *)
(* the allocations and the collections in them, each string that exists is *)
(* found by its address and by its content, and equal strings are the same *)
(* object.                                                                 *)
(*                                                                         *)
(* Last, Boxing: no box is taken for a value of another type, and          *)
(* comparisons of boxes give what those of tagged records give.            *)
(***************************************************************************)
EXTENDS Tables, Interning, Boxing, FiniteSetTheorems, SequenceTheorems,
        WellFoundedInduction, TLAPS

-------------------------------------------------------------------------------
(* Numbers.                                                                *)

Below == {p \in Nat \X Nat : p[1] < p[2]}

LEMMA LeastOf ==
  ASSUME NEW T, T \subseteq Nat, T # {}
  PROVE  \E n \in T : \A m \in T : n <= m
<1>1. Below = OpToRel(<, Nat)
  BY DEF Below, OpToRel
<1>2. IsWellFoundedOn(Below, Nat)
  BY <1>1, NatLessThanWellFounded
<1>3. PICK n \in T : \A m \in T : ~(<<m, n>> \in Below)
  BY <1>2, WFMin
<1>4. \A m \in T : ~(m < n) /\ m \in Nat /\ n \in Nat
  BY <1>3 DEF Below
<1>5. QED
  BY <1>4

LEMMA MinOf ==
  ASSUME NEW T, T \subseteq Nat, T # {}
  PROVE  Min(T) \in T /\ \A m \in T : Min(T) <= m
BY LeastOf DEF Min

(* If something holds of 0, and of n if it holds of n - 1, it holds up to N*)
LEMMA UpTo ==
  ASSUME NEW N \in Nat, NEW T, 0 \in T,
         \A n \in 1 .. N : n - 1 \in T => n \in T
  PROVE  \A n \in 0 .. N : n \in T
<1> DEFINE F == {n \in 0 .. N : n \notin T}
<1>1. SUFFICES ASSUME F # {} PROVE FALSE
  OBVIOUS
<1>2. PICK n \in F : \A m \in F : n <= m
  <2>1. F \subseteq Nat
    OBVIOUS
  <2> HIDE DEF F
  <2>2. QED
    BY <1>1, <2>1, LeastOf
<1>3. n \in 1 .. N /\ n - 1 \in 0 .. N /\ n - 1 \notin F
  BY <1>2
<1>4. QED
  BY <1>2, <1>3

LEMMA Multiple ==
  ASSUME NEW a \in Int, NEW c \in Nat, c > 0, a >= 1
  PROVE  c * a >= c
OBVIOUS

LEMMA ModUnique ==
  ASSUME NEW c \in Nat, c > 0, NEW q \in Nat, NEW r \in 0 .. c - 1
  PROVE  (c * q + r) % c = r
<1> DEFINE p == (c * q + r) \div c
           s == (c * q + r) % c
<1>1. p \in Nat /\ s \in 0 .. c - 1 /\ c * q + r = c * p + s
  OBVIOUS
<1> HIDE DEF p, s
<1>2. c * (q - p) = s - r
  BY <1>1
<1>3. ~(q - p >= 1)
  BY <1>1, <1>2, Multiple
<1>4. ~(p - q >= 1)
  <2>1. c * (p - q) = r - s
    BY <1>1
  <2>2. QED
    BY <1>1, <2>1, Multiple
<1>5. QED
  BY <1>1, <1>3, <1>4 DEF s

(* The search visits every slot.                                           *)
LEMMA ProbeOnto ==
  ASSUME NEW h \in Nat, NEW c \in Nat, c > 0
  PROVE  /\ \A n \in Nat : Probe(h, n, c) \in 0 .. c - 1
         /\ \A i \in 0 .. c - 1 : \E n \in 0 .. c - 1 : Probe(h, n, c) = i
<1>1. \A n \in Nat : Probe(h, n, c) \in 0 .. c - 1
  BY DEF Probe
<1>2. ASSUME NEW i \in 0 .. c - 1
      PROVE  \E n \in 0 .. c - 1 : Probe(h, n, c) = i
  <2> DEFINE q == h \div c
             r == h % c
  <2>1. q \in Nat /\ r \in 0 .. c - 1 /\ h = c * q + r
    OBVIOUS
  <2> HIDE DEF q, r
  <2>2. CASE i >= r
    <3>1. i - r \in 0 .. c - 1 /\ h + (i - r) = c * q + i
      BY <2>1, <2>2
    <3>2. (c * q + i) % c = i
      BY <2>1, ModUnique
    <3>3. QED
      BY <3>1, <3>2 DEF Probe
  <2>3. CASE i < r
    <3>1. c + i - r \in 0 .. c - 1
      BY <2>1, <2>3
    <3>2. h + (c + i - r) = c * (q + 1) + i
      BY <2>1
    <3>3. (c * (q + 1) + i) % c = i
      BY <2>1, ModUnique
    <3>4. QED
      BY <3>1, <3>2, <3>3 DEF Probe
  <2>4. QED
    BY <2>1, <2>2, <2>3
<1>3. QED
  BY <1>1, <1>2

-------------------------------------------------------------------------------
(* The entries of a table.                                                 *)

Entries(c, V) ==
  [0 .. c - 1 -> [key : Key \cup {Null}, tombstone : BOOLEAN, value : V]]

(* No search from hashcode h ends before it comes to slot i.               *)
PathTo(es, c, h, i) ==
  \E n \in 0 .. c - 1 : /\ Probe(h, n, c) = i
                        /\ \A m \in 0 .. n - 1 : ~Unused(es[Probe(h, m, c)])

(* No key is in two slots or in a tombstone, and the search for each comes *)
(* to its slot.                                                            *)
Well(es, c, hash) ==
  /\ \A i, j \in 0 .. c - 1 : es[i].key # Null /\ es[i].key = es[j].key => i = j
  /\ \A i \in 0 .. c - 1 : es[i].key # Null =>
       ~es[i].tombstone /\ PathTo(es, c, hash[es[i].key], i)

Has(es, c, k) == \E i \in 0 .. c - 1 : es[i].key = k

(* Where find_entry ends, if there is a slot for the key.                  *)
Place(es, c, k, hash, i) ==
  /\ i \in 0 .. c - 1
  /\ es[i].key = k \/ (es[i].key = Null /\ ~Has(es, c, k))
  /\ PathTo(es, c, hash[k], i)

LEMMA FindsPlace ==
  ASSUME NEW c \in Nat, c > 0, NEW V, NEW es \in Entries(c, V), NEW hash \in [Key -> Nat],
         Well(es, c, hash), NEW k \in Key, Has(es, c, k) \/ Has(es, c, Null)
  PROVE  Place(es, c, k, hash, FindEntry(es, c, k, hash))
<1> DEFINE At(n) == Probe(hash[k], n, c)
           ends  == {n \in 0 .. c - 1 : es[At(n)].key = k \/ Unused(es[At(n)])}
           end   == IF ends = {} THEN c ELSE Min(ends)
           tombs == {n \in 0 .. end - 1 : es[At(n)].tombstone}
           found == FindEntry(es, c, k, hash)
<1>1. found = CASE ends # {} /\ es[At(end)].key = k -> At(end)
                [] OTHER -> IF tombs # {} THEN At(Min(tombs))
                            ELSE IF ends # {} THEN At(end) ELSE NoEntry
  BY DEF FindEntry
<1>2. /\ hash[k] \in Nat /\ k # Null
      /\ \A n \in Nat : At(n) \in 0 .. c - 1
      /\ \A i \in 0 .. c - 1 : \E n \in 0 .. c - 1 : At(n) = i
  BY ProbeOnto, TableAssumption
<1>3. /\ ends # {} => end \in ends /\ \A n \in ends : end <= n
      /\ end \in 0 .. c
      /\ \A n \in 0 .. end - 1 : n \notin ends
      /\ ends \subseteq 0 .. c - 1
  <2>1. CASE ends = {}
    BY <2>1
  <2>2. CASE ends # {}
    <3>1. ends \subseteq Nat /\ ends \subseteq 0 .. c - 1
      OBVIOUS
    <3>2. end = Min(ends)
      BY <2>2
    <3> HIDE DEF ends, end
    <3>3. end \in ends /\ \A n \in ends : end <= n
      BY <2>2, <3>1, <3>2, MinOf
    <3>4. QED
      BY <2>2, <3>1, <3>3
  <2>3. QED
    BY <2>1, <2>2
<1>4. tombs \subseteq Nat /\ (tombs # {} => Min(tombs) \in tombs /\ \A n \in tombs : Min(tombs) <= n)
  <2>1. tombs \subseteq Nat
    BY <1>3
  <2> HIDE DEF tombs
  <2>2. QED
    BY <2>1, MinOf
<1>5. \A n \in 0 .. c - 1 : n \notin ends => es[At(n)].key # k /\ ~Unused(es[At(n)])
  OBVIOUS
<1>6. \A n \in ends : n \in 0 .. c - 1 /\ (es[At(n)].key = k \/ Unused(es[At(n)]))
  OBVIOUS
<1>7. \A n \in tombs : n \in 0 .. end - 1 /\ es[At(n)].tombstone
  OBVIOUS
<1>8. \A n \in 0 .. c - 1 : n < end /\ n \notin tombs => ~es[At(n)].tombstone
  BY <1>3
<1> HIDE DEF ends, end, tombs, found
<1>9. CASE Has(es, c, k)
  <2>1. PICK j \in 0 .. c - 1 : es[j].key = k
    BY <1>9 DEF Has
  <2>2. PICK n \in 0 .. c - 1 : At(n) = j /\ \A m \in 0 .. n - 1 : ~Unused(es[At(m)])
    BY <1>2, <2>1 DEF Well, PathTo
  <2>3. n \in ends
    BY <2>1, <2>2, <1>5
  <2>4. end <= n /\ end \in 0 .. c - 1 /\ ends # {}
    BY <1>3, <2>3
  <2>5. es[At(end)].key = k
    BY <1>3, <1>6, <2>1, <2>2, <2>4
  <2>6. found = At(end)
    BY <1>1, <2>4, <2>5
  <2>7. PathTo(es, c, hash[k], found)
    BY <1>3, <1>5, <2>4, <2>6 DEF PathTo
  <2>8. QED
    BY <1>2, <2>4, <2>5, <2>6, <2>7 DEF Place, found
<1>10. CASE ~Has(es, c, k)
  <2>1. \A n \in 0 .. c - 1 : es[At(n)].key # k
    BY <1>2, <1>10 DEF Has
  <2>2. \A n \in ends : n \in 0 .. c - 1 /\ Unused(es[At(n)])
    BY <1>6, <2>1
  <2>3. CASE tombs # {}
    <3>1. PICK n \in tombs : n = Min(tombs)
      BY <1>4, <2>3
    <3>2. n \in 0 .. c - 1 /\ n < end /\ es[At(n)].tombstone
      BY <1>3, <1>7, <3>1
    <3>3. found = At(n)
      BY <1>1, <1>3, <2>1, <2>3, <3>1, <3>2
    <3>4. es[At(n)].key = Null
      BY <1>2, <3>2 DEF Well
    <3>5. PathTo(es, c, hash[k], At(n))
      BY <1>3, <1>5, <3>2 DEF PathTo
    <3>6. QED
      BY <1>2, <1>10, <3>2, <3>3, <3>4, <3>5 DEF Place, found
  <2>4. CASE tombs = {} /\ ends # {}
    <3>1. end \in 0 .. c - 1 /\ Unused(es[At(end)])
      BY <1>3, <2>2, <2>4
    <3>2. found = At(end)
      BY <1>1, <2>1, <2>4, <3>1
    <3>3. PathTo(es, c, hash[k], At(end))
      BY <1>3, <1>5, <3>1 DEF PathTo
    <3>4. QED
      BY <1>2, <1>10, <3>1, <3>2, <3>3 DEF Place, found, Unused
  <2>5. CASE tombs = {} /\ ends = {}
    <3>1. PICK j \in 0 .. c - 1 : es[j].key = Null
      BY <1>10 DEF Has
    <3>2. PICK n \in 0 .. c - 1 : At(n) = j
      BY <1>2
    <3>3. end = c
      BY <2>5 DEF end
    <3>4. es[At(n)].tombstone
      BY <1>5, <2>5, <3>1, <3>2 DEF Unused
    <3>5. QED
      BY <1>8, <2>5, <3>2, <3>3, <3>4
  <2>6. QED
    BY <2>3, <2>4, <2>5
<1>11. QED
  BY <1>9, <1>10

-------------------------------------------------------------------------------
(* One entry is written or deleted.                                        *)

Used(es, c) == {i \in 0 .. c - 1 : es[i].key # Null}

Binds(es, c, k, v) == \E i \in 0 .. c - 1 : es[i].key = k /\ es[i].value = v

(* An entry that is no longer unused cuts no path.                         *)
LEMMA PathKept ==
  ASSUME NEW c \in Nat, NEW h \in Nat, NEW i, NEW es, NEW now, PathTo(es, c, h, i),
         \A j \in 0 .. c - 1 : ~Unused(es[j]) => ~Unused(now[j])
  PROVE  PathTo(now, c, h, i)
<1>1. PICK n \in 0 .. c - 1 : /\ Probe(h, n, c) = i
                              /\ \A m \in 0 .. n - 1 : ~Unused(es[Probe(h, m, c)])
  BY DEF PathTo
<1>2. \A m \in 0 .. n - 1 : Probe(h, m, c) \in 0 .. c - 1
  <2>1. c > 0 /\ \A m \in 0 .. n - 1 : m \in Nat
    BY <1>1
  <2>2. QED
    BY <2>1, ProbeOnto
<1>3. QED
  BY <1>1, <1>2 DEF PathTo

Written(es, i, k, v) ==
  [es EXCEPT ![i] = [key |-> k, tombstone |-> FALSE, value |-> v]]

LEMMA PutEntry ==
  ASSUME NEW c \in Nat, NEW V, NEW es \in Entries(c, V), NEW hash \in [Key -> Nat],
         Well(es, c, hash), NEW k \in Key, NEW v \in V, NEW i, Place(es, c, k, hash, i),
         NEW now, now = Written(es, i, k, v)
  PROVE  /\ now \in Entries(c, V) /\ Well(now, c, hash)
         /\ Used(now, c) = Used(es, c) \cup {i}
         /\ i \in Used(es, c) <=> Has(es, c, k)
         /\ \A x \in Key : Has(now, c, x) <=> x = k \/ Has(es, c, x)
         /\ \A x \in Key : \A w : Binds(now, c, x, w) <=>
                               IF x = k THEN w = v ELSE Binds(es, c, x, w)
<1>1. /\ i \in 0 .. c - 1 /\ k # Null
      /\ es[i].key = k \/ (es[i].key = Null /\ ~Has(es, c, k))
      /\ PathTo(es, c, hash[k], i)
  BY TableAssumption DEF Place
<1>2. /\ now[i] = [key |-> k, tombstone |-> FALSE, value |-> v]
      /\ \A j \in 0 .. c - 1 : j # i => now[j] = es[j]
  BY <1>1 DEF Entries, Written
<1>3. now \in Entries(c, V)
  BY <1>1 DEF Entries, Written
<1>4. now[i].key = k /\ ~now[i].tombstone /\ now[i].value = v /\ ~Unused(now[i])
  BY <1>1, <1>2 DEF Unused
<1>5. \A j \in 0 .. c - 1 : ~Unused(es[j]) => ~Unused(now[j])
  BY <1>2, <1>4
<1>6. \A j \in 0 .. c - 1 : j # i => es[j].key # k
  <2>1. CASE es[i].key = k
    BY <1>1, <2>1 DEF Well
  <2>2. CASE ~Has(es, c, k)
    BY <2>2 DEF Has
  <2>3. QED
    BY <1>1, <2>1, <2>2
<1>7. Well(now, c, hash)
  <2>1. ASSUME NEW j \in 0 .. c - 1, NEW l \in 0 .. c - 1,
               now[j].key # Null, now[j].key = now[l].key
        PROVE  j = l
    BY <1>2, <1>4, <1>6, <2>1 DEF Well
  <2>2. ASSUME NEW j \in 0 .. c - 1, now[j].key # Null
        PROVE  ~now[j].tombstone /\ PathTo(now, c, hash[now[j].key], j)
    <3>1. /\ ~now[j].tombstone
          /\ now[j].key \in Key /\ PathTo(es, c, hash[now[j].key], j)
      BY <1>1, <1>2, <1>4, <2>2 DEF Well, Entries
    <3>2. QED
      BY <1>5, <3>1, PathKept
  <2>3. QED
    BY <2>1, <2>2 DEF Well
<1>8. Used(now, c) = Used(es, c) \cup {i}
  BY <1>1, <1>2, <1>4 DEF Used
<1>9. i \in Used(es, c) <=> Has(es, c, k)
  BY <1>1 DEF Used, Has
<1>10. \A x \in Key : Has(now, c, x) <=> x = k \/ Has(es, c, x)
  BY <1>1, <1>2, <1>4, TableAssumption DEF Has
<1>11. ASSUME NEW x \in Key, NEW w
       PROVE  Binds(now, c, x, w) <=> IF x = k THEN w = v ELSE Binds(es, c, x, w)
  BY <1>1, <1>2, <1>4, <1>6, TableAssumption DEF Binds
<1>12. QED
  BY <1>3, <1>7, <1>8, <1>9, <1>10, <1>11

(* A key becomes a tombstone.                                              *)
Buried(es, i) == [es EXCEPT ![i].key = Null, ![i].tombstone = TRUE]

LEMMA BuryEntry ==
  ASSUME NEW c \in Nat, NEW V, NEW es \in Entries(c, V), NEW hash \in [Key -> Nat],
         Well(es, c, hash), NEW i \in 0 .. c - 1, es[i].key # Null,
         NEW now, now = Buried(es, i)
  PROVE  /\ now \in Entries(c, V) /\ Well(now, c, hash)
         /\ Used(now, c) = Used(es, c) \ {i}
         /\ now[i].key = Null /\ now[i].tombstone
         /\ \A j \in 0 .. c - 1 : j # i => now[j] = es[j]
<1>1. /\ now[i] = [[es[i] EXCEPT !.key = Null] EXCEPT !.tombstone = TRUE]
      /\ \A j \in 0 .. c - 1 : j # i => now[j] = es[j]
  BY DEF Entries, Buried
<1>2. es[i] \in [key : Key \cup {Null}, tombstone : BOOLEAN, value : V]
  BY DEF Entries, Buried
<1>3. /\ now[i].key = Null /\ now[i].tombstone /\ ~Unused(now[i])
      /\ now[i] \in [key : Key \cup {Null}, tombstone : BOOLEAN, value : V]
  <2> DEFINE e == es[i]
  <2>1. /\ e \in [key : Key \cup {Null}, tombstone : BOOLEAN, value : V]
        /\ now[i] = [[e EXCEPT !.key = Null] EXCEPT !.tombstone = TRUE]
    BY <1>1, <1>2
  <2> HIDE DEF e
  <2>2. now[i] = [key |-> Null, tombstone |-> TRUE, value |-> e.value] /\ e.value \in V
    BY <2>1
  <2>3. now[i] \in [key : Key \cup {Null}, tombstone : BOOLEAN, value : V]
    <3>1. \A w \in V : [key |-> Null, tombstone |-> TRUE, value |-> w]
                         \in [key : Key \cup {Null}, tombstone : BOOLEAN, value : V]
      OBVIOUS
    <3>2. QED
      BY <2>2, <3>1
  <2>4. now[i].key = Null /\ now[i].tombstone = TRUE
    BY <2>2
  <2>5. QED
    BY <2>3, <2>4 DEF Unused
<1>4. now \in Entries(c, V)
  <2>1. DOMAIN now = 0 .. c - 1 /\ now = [j \in 0 .. c - 1 |-> now[j]]
    BY DEF Entries, Buried
  <2>2. QED
    BY <1>1, <1>3, <2>1 DEF Entries, Buried
<1>5. Well(now, c, hash)
  <2>1. ASSUME NEW j \in 0 .. c - 1, now[j].key # Null
        PROVE  ~now[j].tombstone /\ PathTo(now, c, hash[now[j].key], j)
    <3>1. /\ ~now[j].tombstone /\ now[j] = es[j]
          /\ now[j].key \in Key /\ PathTo(es, c, hash[now[j].key], j)
      BY <1>1, <1>3, <2>1 DEF Well, Entries, Buried
    <3>2. \A l \in 0 .. c - 1 : ~Unused(es[l]) => ~Unused(now[l])
      BY <1>1, <1>3
    <3>3. QED
      BY <3>1, <3>2, PathKept
  <2>2. ASSUME NEW j \in 0 .. c - 1, NEW l \in 0 .. c - 1,
               now[j].key # Null, now[j].key = now[l].key
        PROVE  j = l
    <3>1. j # i /\ l # i
      BY <1>3, <2>2
    <3>2. now[j] = es[j] /\ now[l] = es[l]
      BY <1>1, <3>1
    <3>3. es[j].key # Null /\ es[j].key = es[l].key
      BY <2>2, <3>2
    <3>4. \A a, b \in 0 .. c - 1 : es[a].key # Null /\ es[a].key = es[b].key => a = b
      BY DEF Well
    <3>5. QED
      BY <3>3, <3>4
  <2>3. QED
    BY <2>1, <2>2 DEF Well
<1>6. now[i].key = Null /\ now[i].tombstone
  BY <1>3
<1>7. Used(now, c) = Used(es, c) \ {i}
  <2>1. \A j \in 0 .. c - 1 : (now[j].key # Null) = (es[j].key # Null /\ j # i)
    BY <1>1, <1>6
  <2>2. QED
    BY <2>1 DEF Used
<1>8. QED
  BY <1>1, <1>4, <1>5, <1>6, <1>7

(* Room for one more.                                                      *)
LEMMA UsedFinite ==
  ASSUME NEW c \in Nat, NEW es
  PROVE  /\ IsFiniteSet(Used(es, c)) /\ Cardinality(Used(es, c)) \in 0 .. c
         /\ Cardinality(Used(es, c)) < c => Has(es, c, Null)
<1>1. IsFiniteSet(0 .. c - 1) /\ Cardinality(0 .. c - 1) = c
  <2>1. /\ IsFiniteSet(0 .. c - 1)
        /\ Cardinality(0 .. c - 1) = IF 0 > c - 1 THEN 0 ELSE c - 1 - 0 + 1
    BY FS_Interval
  <2>2. QED
    BY <2>1
<1>2. Used(es, c) \in SUBSET (0 .. c - 1)
  BY DEF Used
<1>3. IsFiniteSet(Used(es, c)) /\ Cardinality(Used(es, c)) <= c
  BY <1>1, <1>2, FS_Subset
<1>4. Cardinality(Used(es, c)) \in Nat
  BY <1>3, FS_CardinalityType
<1>5. ASSUME Cardinality(Used(es, c)) < c PROVE Has(es, c, Null)
  <2>1. Used(es, c) # 0 .. c - 1
    BY <1>1, <1>5
  <2>2. QED
    BY <2>1 DEF Used, Has
<1>6. QED
  BY <1>3, <1>4, <1>5

-------------------------------------------------------------------------------
(* The loops: each is a function of the slots visited so far.              *)

AreMoves(f, none, es, c, hash, N) ==
  f = [n \in 0 .. N |-> IF n = 0 THEN none
         ELSE Move(f[n - 1], c, es[n - 1], hash)]

LEMMA MovesExist ==
  ASSUME NEW none, NEW es, NEW c, NEW hash, NEW N \in Nat
  PROVE  \E f : AreMoves(f, none, es, c, hash, N)
<1> DEFINE T == {m \in Nat : \E f :
                   f = [n \in 0 .. m |-> IF n = 0 THEN none
                                        ELSE Move(f[n - 1], c, es[n - 1], hash)]}
<1>1. 0 \in T
  <2> DEFINE g == [n \in 0 .. 0 |-> none]
  <2>1. g = [n \in 0 .. 0 |-> IF n = 0 THEN none
                             ELSE Move(g[n - 1], c, es[n - 1], hash)]
    OBVIOUS
  <2>2. QED
    BY <2>1
<1>2. ASSUME NEW m \in 1 .. N, m - 1 \in T
      PROVE  m \in T
  <2>1. PICK f : f = [n \in 0 .. m - 1 |-> IF n = 0 THEN none
                                          ELSE Move(f[n - 1], c, es[n - 1], hash)]
    BY <1>2
  <2> DEFINE g == [n \in 0 .. m |-> IF n = m THEN Move(f[m - 1], c, es[m - 1], hash)
                                   ELSE f[n]]
  <2>2. ASSUME NEW n \in 0 .. m
        PROVE  g[n] = IF n = 0 THEN none
                      ELSE Move(g[n - 1], c, es[n - 1], hash)
    <3>1. CASE n = m
      BY <3>1
    <3>2. CASE n # m
      <4>1. n \in 0 .. m - 1 /\ g[n] = f[n] /\ (n # 0 => g[n - 1] = f[n - 1])
        BY <3>2
      <4>2. f[n] = IF n = 0 THEN none
                   ELSE Move(f[n - 1], c, es[n - 1], hash)
        BY <2>1, <4>1
      <4>3. QED
        BY <4>1, <4>2
    <3>3. QED
      BY <3>1, <3>2
  <2>3. g = [n \in 0 .. m |-> IF n = 0 THEN none
                             ELSE Move(g[n - 1], c, es[n - 1], hash)]
    BY <2>2
  <2> HIDE DEF g
  <2>4. m \in Nat
    OBVIOUS
  <2>5. QED
    BY <2>3, <2>4
<1> HIDE DEF T
<1>3. N \in T
  BY <1>1, <1>2, UpTo
<1>4. QED
  BY <1>3 DEF T, AreMoves

AreVisits(f, t, marked, hash, N) ==
  f = [n \in 0 .. N |-> IF n = 0 THEN t
         ELSE Visit(f[n - 1], n - 1, marked, hash)]

LEMMA VisitsExist ==
  ASSUME NEW t, NEW marked, NEW hash, NEW N \in Nat
  PROVE  \E f : AreVisits(f, t, marked, hash, N)
<1> DEFINE T == {m \in Nat : \E f :
                   f = [n \in 0 .. m |-> IF n = 0 THEN t
                                        ELSE Visit(f[n - 1], n - 1, marked, hash)]}
<1>1. 0 \in T
  <2> DEFINE g == [n \in 0 .. 0 |-> t]
  <2>1. g = [n \in 0 .. 0 |-> IF n = 0 THEN t
                             ELSE Visit(g[n - 1], n - 1, marked, hash)]
    OBVIOUS
  <2>2. QED
    BY <2>1
<1>2. ASSUME NEW m \in 1 .. N, m - 1 \in T
      PROVE  m \in T
  <2>1. PICK f : f = [n \in 0 .. m - 1 |-> IF n = 0 THEN t
                                          ELSE Visit(f[n - 1], n - 1, marked, hash)]
    BY <1>2
  <2> DEFINE g == [n \in 0 .. m |-> IF n = m THEN Visit(f[m - 1], m - 1, marked, hash)
                                   ELSE f[n]]
  <2>2. ASSUME NEW n \in 0 .. m
        PROVE  g[n] = IF n = 0 THEN t
                      ELSE Visit(g[n - 1], n - 1, marked, hash)
    <3>1. CASE n = m
      BY <3>1
    <3>2. CASE n # m
      <4>1. n \in 0 .. m - 1 /\ g[n] = f[n] /\ (n # 0 => g[n - 1] = f[n - 1])
        BY <3>2
      <4>2. f[n] = IF n = 0 THEN t
                   ELSE Visit(f[n - 1], n - 1, marked, hash)
        BY <2>1, <4>1
      <4>3. QED
        BY <4>1, <4>2
    <3>3. QED
      BY <3>1, <3>2
  <2>3. g = [n \in 0 .. m |-> IF n = 0 THEN t
                             ELSE Visit(g[n - 1], n - 1, marked, hash)]
    BY <2>2
  <2> HIDE DEF g
  <2>4. m \in Nat
    OBVIOUS
  <2>5. QED
    BY <2>3, <2>4
<1> HIDE DEF T
<1>3. N \in T
  BY <1>1, <1>2, UpTo
<1>4. QED
  BY <1>3 DEF T, AreVisits

AreAdds(f, dest, es, hash, N) ==
  f = [n \in 0 .. N |-> IF n = 0 THEN dest
         ELSE AddEntry(f[n - 1], es[n - 1], hash)]

LEMMA AddsExist ==
  ASSUME NEW dest, NEW es, NEW hash, NEW N \in Nat
  PROVE  \E f : AreAdds(f, dest, es, hash, N)
<1> DEFINE T == {m \in Nat : \E f :
                   f = [n \in 0 .. m |-> IF n = 0 THEN dest
                                        ELSE AddEntry(f[n - 1], es[n - 1], hash)]}
<1>1. 0 \in T
  <2> DEFINE g == [n \in 0 .. 0 |-> dest]
  <2>1. g = [n \in 0 .. 0 |-> IF n = 0 THEN dest
                             ELSE AddEntry(g[n - 1], es[n - 1], hash)]
    OBVIOUS
  <2>2. QED
    BY <2>1
<1>2. ASSUME NEW m \in 1 .. N, m - 1 \in T
      PROVE  m \in T
  <2>1. PICK f : f = [n \in 0 .. m - 1 |-> IF n = 0 THEN dest
                                          ELSE AddEntry(f[n - 1], es[n - 1], hash)]
    BY <1>2
  <2> DEFINE g == [n \in 0 .. m |-> IF n = m THEN AddEntry(f[m - 1], es[m - 1], hash)
                                   ELSE f[n]]
  <2>2. ASSUME NEW n \in 0 .. m
        PROVE  g[n] = IF n = 0 THEN dest
                      ELSE AddEntry(g[n - 1], es[n - 1], hash)
    <3>1. CASE n = m
      BY <3>1
    <3>2. CASE n # m
      <4>1. n \in 0 .. m - 1 /\ g[n] = f[n] /\ (n # 0 => g[n - 1] = f[n - 1])
        BY <3>2
      <4>2. f[n] = IF n = 0 THEN dest
                   ELSE AddEntry(f[n - 1], es[n - 1], hash)
        BY <2>1, <4>1
      <4>3. QED
        BY <4>1, <4>2
    <3>3. QED
      BY <3>1, <3>2
  <2>3. g = [n \in 0 .. m |-> IF n = 0 THEN dest
                             ELSE AddEntry(g[n - 1], es[n - 1], hash)]
    BY <2>2
  <2> HIDE DEF g
  <2>4. m \in Nat
    OBVIOUS
  <2>5. QED
    BY <2>3, <2>4
<1> HIDE DEF T
<1>3. N \in T
  BY <1>1, <1>2, UpTo
<1>4. QED
  BY <1>3 DEF T, AreAdds

-------------------------------------------------------------------------------
(* Tables.                                                                 *)

(* A table whose count is the number of its keys, each findable.           *)
Fine(t, V, hash) ==
  /\ t = [count |-> t.count, capacity |-> t.capacity, entries |-> t.entries]
  /\ t.capacity \in Nat
  /\ t.entries \in Entries(t.capacity, V)
  /\ Well(t.entries, t.capacity, hash)
  /\ t.count = Cardinality(Used(t.entries, t.capacity))

NoTombs(es, c) == \A i \in 0 .. c - 1 : ~es[i].tombstone

(* MAX_LOAD is kept.                                                       *)
Loaded(t) ==
  t.capacity = 0 \/ (t.capacity >= Least /\ 4 * t.count <= 3 * t.capacity)

LEMMA EmptyFine ==
  ASSUME NEW V, NEW hash
  PROVE  /\ Fine(EmptyTable, V, hash) /\ Loaded(EmptyTable)
         /\ NoTombs(EmptyTable.entries, EmptyTable.capacity)
         /\ \A x, w : ~Binds(EmptyTable.entries, EmptyTable.capacity, x, w)
<1>1. /\ EmptyTable.capacity = 0 /\ EmptyTable.count = 0
      /\ EmptyTable = [count |-> EmptyTable.count, capacity |-> EmptyTable.capacity,
                       entries |-> EmptyTable.entries]
      /\ EmptyTable.entries = [i \in {} |-> EmptyEntry]
  BY DEF EmptyTable
<1>2. 0 .. 0 - 1 = {}
  OBVIOUS
<1>3. EmptyTable.entries \in Entries(0, V) /\ Used(EmptyTable.entries, 0) = {}
  BY <1>1, <1>2 DEF Entries, Used
<1>4. Well(EmptyTable.entries, 0, hash)
  BY <1>2 DEF Well
<1>5. Cardinality({}) = 0
  BY FS_EmptySet
<1>6. Fine(EmptyTable, V, hash)
  <2> DEFINE u == EmptyTable
  <2>1. /\ u.capacity = 0 /\ u.count = 0
        /\ u.entries = EmptyTable.entries
    BY <1>1
  <2> HIDE DEF u
  <2>3. u = [count |-> u.count, capacity |-> u.capacity, entries |-> u.entries]
    BY <1>1 DEF u
  <2>4. /\ u.capacity \in Nat /\ u.entries \in Entries(u.capacity, V)
        /\ Well(u.entries, u.capacity, hash)
        /\ u.count = Cardinality(Used(u.entries, u.capacity))
    BY <1>3, <1>4, <1>5, <2>1
  <2>5. QED
    BY <2>3, <2>4 DEF Fine, u
<1>7. Loaded(EmptyTable)
  BY <1>1 DEF Loaded
<1>8. \A i : i \notin 0 .. EmptyTable.capacity - 1
  BY <1>1, <1>2
<1>9. QED
  BY <1>6, <1>7, <1>8 DEF NoTombs, Binds

LEMMA HasBinds ==
  ASSUME NEW es, NEW c, NEW x
  PROVE  Has(es, c, x) <=> \E w : Binds(es, c, x, w)
BY DEF Has, Binds

(* One slot further.                                                       *)
LEMMA OneMore ==
  ASSUME NEW n \in Nat, n >= 1, NEW es
  PROVE  /\ Used(es, n) = IF es[n - 1].key = Null THEN Used(es, n - 1)
                          ELSE Used(es, n - 1) \cup {n - 1}
         /\ n - 1 \notin Used(es, n - 1)
         /\ \A x, w : Binds(es, n, x, w) <=>
              \/ x = es[n - 1].key /\ w = es[n - 1].value
              \/ Binds(es, n - 1, x, w)
<1>1. 0 .. n - 1 = (0 .. n - 1 - 1) \cup {n - 1} /\ n - 1 \notin 0 .. n - 1 - 1
  OBVIOUS
<1>2. QED
  BY <1>1 DEF Used, Binds

(* An entry that is no tombstone gets a key.                               *)
LEMMA Rewritten ==
  ASSUME NEW V, NEW k, NEW v,
         NEW e \in [key : Key \cup {Null}, tombstone : BOOLEAN, value : V], ~e.tombstone,
         NEW r, r = [e EXCEPT !.key = k, !.value = v]
  PROVE  r = [key |-> k, tombstone |-> FALSE, value |-> v]
<1>1. e.tombstone = FALSE
  OBVIOUS
<1>2. QED
  BY <1>1

(* What has been moved after n slots.                                      *)
HasMoved(es, n, m, d, V, hash) ==
  /\ m \in Entries(d, V)
  /\ Well(m, d, hash)
  /\ NoTombs(m, d)
  /\ Cardinality(Used(m, d)) = Cardinality(Used(es, n))
  /\ \A x \in Key : \A w : Binds(m, d, x, w) <=> Binds(es, n, x, w)

LEMMA MoveOne ==
  ASSUME NEW c \in Nat, NEW d \in Nat, c < d, NEW V, NEW es \in Entries(c, V),
         NEW hash \in [Key -> Nat], Well(es, c, hash), NEW n \in 1 .. c, NEW m,
         HasMoved(es, n - 1, m, d, V, hash)
  PROVE  HasMoved(es, n, Move(m, d, es[n - 1], hash), d, V, hash)
<1> DEFINE e == es[n - 1]
           i == FindEntry(m, d, e.key, hash)
           now == Move(m, d, e, hash)
<1>1. /\ n - 1 \in 0 .. c - 1 /\ n \in Nat /\ n >= 1
      /\ e.key \in Key \cup {Null} /\ e.value \in V
  BY DEF Entries
<1>2. CASE e.key = Null
  <2>1. now = m
    BY <1>2 DEF Move
  <2>2. Used(es, n) = Used(es, n - 1)
    BY <1>1, <1>2, OneMore
  <2>3. \A x \in Key : \A w : Binds(es, n, x, w) <=> Binds(es, n - 1, x, w)
    BY <1>1, <1>2, OneMore, TableAssumption
  <2>4. QED
    BY <2>1, <2>2, <2>3 DEF HasMoved
<1>3. CASE e.key # Null
  <2>1. e.key \in Key
    BY <1>1, <1>3
  <2>2. ~Has(m, d, e.key)
    <3>1. \A w : ~Binds(es, n - 1, e.key, w)
      <4>1. ASSUME NEW j \in 0 .. n - 1 - 1 PROVE es[j].key # e.key
        BY <1>1, <1>3 DEF Well
      <4>2. QED
        BY <4>1 DEF Binds
    <3>2. \A w : ~Binds(m, d, e.key, w)
      BY <2>1, <3>1 DEF HasMoved
    <3>3. QED
      BY <3>2, HasBinds
  <2>3. Has(m, d, Null)
    <3>1. Cardinality(Used(es, n - 1)) \in 0 .. n - 1
      <4>1. n - 1 \in Nat
        BY <1>1
      <4>2. QED
        BY <4>1, UsedFinite
    <3>2. Cardinality(Used(m, d)) < d
      BY <3>1 DEF HasMoved
    <3>3. QED
      BY <3>2, UsedFinite
  <2>4. Place(m, d, e.key, hash, i)
    BY <2>1, <2>3, FindsPlace DEF HasMoved
  <2>5. i \in 0 .. d - 1 /\ m[i].key = Null /\ ~m[i].tombstone
    BY <2>2, <2>4 DEF Place, Has, HasMoved, NoTombs
  <2>6. PICK r : r = [m[i] EXCEPT !.key = e.key, !.value = e.value]
    OBVIOUS
  <2>7. now = Written(m, i, e.key, e.value)
    <3>1. m[i] \in [key : Key \cup {Null}, tombstone : BOOLEAN, value : V]
      BY <2>5 DEF HasMoved, Entries
    <3>2. now = [m EXCEPT ![i] = r]
      BY <1>3, <2>6 DEF Move
    <3>3. r = [key |-> e.key, tombstone |-> FALSE, value |-> e.value]
      <4> HIDE DEF e, i
      <4>1. QED
        BY <2>5, <2>6, <3>1, Rewritten
    <3>4. QED
      BY <3>2, <3>3 DEF Written
  <2> HIDE DEF e, i, now
  <2>8. /\ now \in Entries(d, V) /\ Well(now, d, hash)
        /\ Used(now, d) = Used(m, d) \cup {i}
        /\ i \in Used(m, d) <=> Has(m, d, e.key)
        /\ \A x \in Key : \A w : Binds(now, d, x, w) <=>
             IF x = e.key THEN w = e.value ELSE Binds(m, d, x, w)
    <3>1. m \in Entries(d, V) /\ Well(m, d, hash) /\ e.value \in V
      BY <1>1 DEF HasMoved, e
    <3>2. QED
      BY <2>1, <2>4, <2>7, <3>1, PutEntry
  <2>9. NoTombs(now, d)
    <3>1. \A j \in 0 .. d - 1 : now[j] = m[j] \/ ~now[j].tombstone
      BY <2>7 DEF HasMoved, Entries, Written
    <3>2. QED
      BY <3>1 DEF HasMoved, NoTombs
  <2>10. Cardinality(Used(now, d)) = Cardinality(Used(es, n))
    <3>1. IsFiniteSet(Used(m, d)) /\ IsFiniteSet(Used(es, n - 1))
      <4>1. n - 1 \in Nat
        BY <1>1
      <4>2. QED
        BY <4>1, UsedFinite
    <3>2. Cardinality(Used(now, d)) = Cardinality(Used(m, d)) + 1
      BY <2>2, <2>8, <3>1, FS_AddElement
    <3>3. Used(es, n) = Used(es, n - 1) \cup {n - 1} /\ n - 1 \notin Used(es, n - 1)
      BY <1>1, <1>3, OneMore DEF e
    <3>4. Cardinality(Used(es, n)) = Cardinality(Used(es, n - 1)) + 1
      BY <3>1, <3>3, FS_AddElement
    <3>5. QED
      BY <3>2, <3>4 DEF HasMoved
  <2>11. \A x \in Key : \A w : Binds(now, d, x, w) <=> Binds(es, n, x, w)
    <3>1. \A x, w : Binds(es, n, x, w) <=>
            (x = e.key /\ w = e.value) \/ Binds(es, n - 1, x, w)
      BY <1>1, OneMore DEF e
    <3>2. \A w : ~Binds(m, d, e.key, w)
      BY <2>2, HasBinds
    <3>3. \A x \in Key : \A w : Binds(m, d, x, w) <=> Binds(es, n - 1, x, w)
      BY DEF HasMoved
    <3>4. QED
      BY <2>1, <2>8, <3>1, <3>2, <3>3
  <2>12. HasMoved(es, n, now, d, V, hash)
    BY <2>8, <2>9, <2>10, <2>11 DEF HasMoved
  <2>13. QED
    BY <2>12 DEF now, e
<1>4. QED
  BY <1>2, <1>3

(* The larger table has the same pairs, and no tombstone.                  *)
LEMMA Expanded ==
  ASSUME NEW V, Null \in V, NEW hash \in [Key -> Nat], NEW t, Fine(t, V, hash),
         NEW u, u = TableExpand(t, hash)
  PROVE  /\ Fine(u, V, hash) /\ NoTombs(u.entries, u.capacity)
         /\ u.count = t.count
         /\ u.capacity = GrowCapacity(t.capacity) /\ u.capacity > t.capacity
         /\ \A x \in Key : \A w : Binds(u.entries, u.capacity, x, w) <=>
                               Binds(t.entries, t.capacity, x, w)
<1> DEFINE c == t.capacity
           d == GrowCapacity(c)
           none == [i \in 0 .. d - 1 |-> EmptyEntry]
           moved == CHOOSE f : f = [n \in 0 .. c |->
                      IF n = 0 THEN none ELSE Move(f[n - 1], d, t.entries[n - 1], hash)]
<1>1. u = [count |-> t.count, capacity |-> d, entries |-> moved[c]]
  BY DEF TableExpand
<1>2. /\ c \in Nat /\ t.entries \in Entries(c, V) /\ Well(t.entries, c, hash)
      /\ t.count = Cardinality(Used(t.entries, c))
  BY DEF Fine
<1>3. d \in Nat /\ c < d
  BY <1>2, TableAssumption DEF GrowCapacity
<1>4. moved = [n \in 0 .. c |->
                 IF n = 0 THEN none ELSE Move(moved[n - 1], d, t.entries[n - 1], hash)]
  <2> HIDE DEF d, none
  <2>1. \E f : AreMoves(f, none, t.entries, d, hash, c)
    BY <1>2, MovesExist
  <2>2. \E f : f = [n \in 0 .. c |->
                      IF n = 0 THEN none ELSE Move(f[n - 1], d, t.entries[n - 1], hash)]
    BY <2>1 DEF AreMoves
  <2>3. QED
    BY <2>2
<1> HIDE DEF moved, d
<1> DEFINE T == {n \in 0 .. c : HasMoved(t.entries, n, moved[n], d, V, hash)}
<1>5. 0 \in T
  <2>1. moved[0] = none /\ 0 \in 0 .. c
    BY <1>2, <1>4
  <2>2. none \in Entries(d, V)
    BY DEF Entries, EmptyEntry
  <2>3. /\ \A i \in 0 .. d - 1 : none[i].key = Null /\ ~none[i].tombstone
        /\ Used(none, d) = {} /\ Used(t.entries, 0) = {}
    BY DEF Used, EmptyEntry
  <2> HIDE DEF none
  <2>4. Well(none, d, hash) /\ NoTombs(none, d)
    BY <2>3 DEF Well, NoTombs
  <2>5. \A x \in Key : \A w : ~Binds(none, d, x, w) /\ ~Binds(t.entries, 0, x, w)
    BY <2>3, TableAssumption DEF Binds
  <2>6. HasMoved(t.entries, 0, none, d, V, hash)
    BY <2>2, <2>3, <2>4, <2>5 DEF HasMoved
  <2>7. QED
    BY <2>1, <2>6
<1>6. ASSUME NEW n \in 1 .. c, n - 1 \in T PROVE n \in T
  <2>1. moved[n] = Move(moved[n - 1], d, t.entries[n - 1], hash) /\ n \in 0 .. c
    <3> HIDE DEF none
    <3>1. n \in 0 .. c /\ n # 0
      BY <1>2, <1>6
    <3>2. QED
      BY <1>4, <3>1
  <2>2. HasMoved(t.entries, n - 1, moved[n - 1], d, V, hash)
    BY <1>6
  <2>3. HasMoved(t.entries, n, moved[n], d, V, hash)
    BY <1>2, <1>3, <2>1, <2>2, MoveOne
  <2>4. QED
    BY <2>1, <2>3
<1>7. HasMoved(t.entries, c, moved[c], d, V, hash)
  <2> HIDE DEF T
  <2>1. c \in T
    BY <1>2, <1>5, <1>6, UpTo
  <2>2. QED
    BY <2>1 DEF T
<1>8. /\ u.count = t.count /\ u.capacity = d /\ u.entries = moved[c]
      /\ u = [count |-> u.count, capacity |-> u.capacity, entries |-> u.entries]
  BY <1>1
<1>9. QED
  BY <1>2, <1>3, <1>7, <1>8 DEF HasMoved, Fine, d

(* What setting k to v gives.                                              *)
SetTo(t, k, v, r) ==
  /\ r.exist \in BOOLEAN /\ (r.exist <=> Has(t.entries, t.capacity, k))
  /\ r.table.count = IF r.exist THEN t.count ELSE t.count + 1
  /\ NoTombs(t.entries, t.capacity) => NoTombs(r.table.entries, r.table.capacity)
  /\ \A x \in Key : \A w : Binds(r.table.entries, r.table.capacity, x, w) <=>
       IF x = k THEN w = v ELSE Binds(t.entries, t.capacity, x, w)

(* table_set once there is room.                                           *)
LEMMA SetWithRoom ==
  ASSUME NEW V, NEW hash \in [Key -> Nat], NEW t, Fine(t, V, hash), t.capacity > 0,
         NEW k \in Key, NEW v \in V,
         Has(t.entries, t.capacity, k) \/ Has(t.entries, t.capacity, Null),
         NEW r, r = SetInPlace(t, k, v, hash)
  PROVE  Fine(r.table, V, hash) /\ r.table.capacity = t.capacity /\ SetTo(t, k, v, r)
<1> DEFINE c == t.capacity
           es == t.entries
           i == FindEntry(es, c, k, hash)
           now == Written(es, i, k, v)
           exist == es[i].key = k
           count == IF exist THEN t.count ELSE t.count + 1
<1>1. /\ c \in Nat /\ es \in Entries(c, V) /\ Well(es, c, hash)
      /\ t.count = Cardinality(Used(es, c))
      /\ t = [count |-> t.count, capacity |-> c, entries |-> es]
  BY DEF Fine
<1>2. Place(es, c, k, hash, i)
  <2> HIDE DEF c, es
  <2>1. c > 0 /\ (Has(es, c, k) \/ Has(es, c, Null))
    BY DEF c, es
  <2>2. QED
    BY <1>1, <2>1, FindsPlace
<1>3. r = [table |-> [count |-> count, capacity |-> c, entries |-> now], exist |-> exist]
  <2> DEFINE filled == [t EXCEPT !.entries[i] = [key |-> k, tombstone |-> FALSE, value |-> v]]
  <2>1. r = [table |-> [filled EXCEPT !.count = IF exist THEN @ ELSE @ + 1], exist |-> exist]
    BY DEF SetInPlace, Fill
  <2>2. filled = [count |-> t.count, capacity |-> c, entries |-> now]
    <3>1. filled = [t EXCEPT !.entries = now]
      BY DEF Written
    <3>2. PICK f : f = [t EXCEPT !.entries = now]
      OBVIOUS
    <3> HIDE DEF now, filled, c, es
    <3>3. f = [count |-> t.count, capacity |-> c, entries |-> now]
      BY <1>1, <3>2
    <3>4. QED
      BY <3>1, <3>2, <3>3
  <2> HIDE DEF filled, now, exist
  <2>3. [filled EXCEPT !.count = IF exist THEN @ ELSE @ + 1]
          = [count |-> count, capacity |-> c, entries |-> now]
    BY <2>2
  <2>4. QED
    BY <2>1, <2>3
<1>4. exist <=> Has(es, c, k)
  BY <1>2, TableAssumption DEF Place, Has
<1> HIDE DEF now, i, c, es
<1>5. /\ now \in Entries(c, V) /\ Well(now, c, hash)
      /\ Used(now, c) = Used(es, c) \cup {i}
      /\ i \in Used(es, c) <=> Has(es, c, k)
      /\ \A x \in Key : \A w : Binds(now, c, x, w) <=>
           IF x = k THEN w = v ELSE Binds(es, c, x, w)
  BY <1>1, <1>2, PutEntry DEF now
<1>6. count = Cardinality(Used(now, c))
  <2>1. IsFiniteSet(Used(es, c))
    BY <1>1, UsedFinite
  <2>2. CASE exist
    BY <1>1, <1>4, <1>5, <2>2
  <2>3. CASE ~exist
    <3>1. i \notin Used(es, c)
      BY <1>4, <1>5, <2>3
    <3>2. Cardinality(Used(es, c) \cup {i}) = Cardinality(Used(es, c)) + 1
      BY <2>1, <3>1, FS_AddElement
    <3>3. QED
      BY <1>1, <1>5, <2>3, <3>2
  <2>4. QED
    BY <2>2, <2>3
<1>7. NoTombs(es, c) => NoTombs(now, c)
  <2>1. \A j \in 0 .. c - 1 : now[j] = es[j] \/ ~now[j].tombstone
    BY <1>1 DEF Entries, Written, now
  <2>2. QED
    BY <2>1 DEF NoTombs
<1>8. /\ r.table.count = count /\ r.table.capacity = c /\ r.table.entries = now
      /\ r.exist = exist
      /\ r.table = [count |-> r.table.count, capacity |-> r.table.capacity,
                    entries |-> r.table.entries]
  BY <1>3
<1>9. Fine(r.table, V, hash)
  BY <1>1, <1>5, <1>6, <1>8 DEF Fine
<1>10. r.exist \in BOOLEAN /\ (r.exist <=> Has(es, c, k))
  BY <1>4, <1>8
<1>11. QED
  BY <1>5, <1>7, <1>8, <1>9, <1>10 DEF c, es, SetTo

LEMMA RoomLeft ==
  ASSUME NEW V, NEW hash, NEW t, Fine(t, V, hash), t.count < t.capacity
  PROVE  t.capacity > 0 /\ Has(t.entries, t.capacity, Null)
<1>1. /\ t.capacity \in Nat
      /\ t.count = Cardinality(Used(t.entries, t.capacity))
  BY DEF Fine
<1>2. QED
  BY <1>1, UsedFinite

(* table_set: a key is stored, whatever was in the table.                  *)
LEMMA Setting ==
  ASSUME NEW V, Null \in V, NEW hash \in [Key -> Nat], NEW t, Fine(t, V, hash),
         NEW k \in Key, NEW v \in V, NEW r, r = TableSet(t, k, v, hash)
  PROVE  /\ Fine(r.table, V, hash)
         /\ r.table.capacity > 0
         /\ Loaded(t) => Loaded(r.table)
         /\ SetTo(t, k, v, r)
<1>1. /\ t.capacity \in Nat /\ t.count \in Nat /\ t.count <= t.capacity
      /\ Least \in Nat /\ Least > 1
  <2>1. t.capacity \in Nat /\ t.count = Cardinality(Used(t.entries, t.capacity))
    BY DEF Fine
  <2>2. QED
    BY <2>1, UsedFinite, TableAssumption
<1>2. CASE MustExpand(t)
  <2>1. PICK u : u = TableExpand(t, hash)
    OBVIOUS
  <2>2. /\ Fine(u, V, hash) /\ NoTombs(u.entries, u.capacity)
        /\ u.count = t.count
        /\ u.capacity = GrowCapacity(t.capacity) /\ u.capacity > t.capacity
        /\ \A x \in Key : \A w : Binds(u.entries, u.capacity, x, w) <=>
                              Binds(t.entries, t.capacity, x, w)
    BY <2>1, Expanded
  <2>3. u.capacity > 0 /\ Has(u.entries, u.capacity, Null)
    <3>1. u.count < u.capacity
      BY <1>1, <2>2 DEF Fine
    <3>2. QED
      BY <2>2, <3>1, RoomLeft
  <2>4. r = SetInPlace(u, k, v, hash)
    BY <1>2, <2>1 DEF TableSet
  <2>5. /\ Fine(r.table, V, hash) /\ r.table.capacity = u.capacity
        /\ SetTo(u, k, v, r)
    BY <2>2, <2>3, <2>4, SetWithRoom
  <2>6. Has(u.entries, u.capacity, k) <=> Has(t.entries, t.capacity, k)
    BY <2>2, HasBinds
  <2>7. Loaded(t) => Loaded(r.table)
    <3>1. /\ r.table.count <= t.count + 1 /\ r.table.count \in Nat
          /\ r.table.capacity = GrowCapacity(t.capacity)
      BY <1>1, <2>2, <2>5 DEF SetTo
    <3>2. QED
      BY <1>1, <3>1 DEF Loaded, GrowCapacity
  <2>8. SetTo(t, k, v, r)
    BY <2>2, <2>5, <2>6 DEF SetTo
  <2>9. QED
    BY <2>2, <2>3, <2>5, <2>7, <2>8
<1>3. CASE ~MustExpand(t)
  <2>1. t.capacity > 0 /\ Has(t.entries, t.capacity, Null)
    <3>1. t.count < t.capacity
      BY <1>1, <1>3 DEF MustExpand
    <3>2. QED
      BY <3>1, RoomLeft
  <2>2. r = SetInPlace(t, k, v, hash)
    BY <1>3 DEF TableSet
  <2>3. /\ Fine(r.table, V, hash) /\ r.table.capacity = t.capacity
        /\ SetTo(t, k, v, r)
    BY <2>1, <2>2, SetWithRoom
  <2>4. Loaded(t) => Loaded(r.table)
    BY <1>1, <1>3, <2>1, <2>3 DEF Loaded, MustExpand, SetTo
  <2>5. QED
    BY <2>1, <2>3, <2>4
<1>4. QED
  BY <1>2, <1>3

(* table_get.                                                              *)
LEMMA Getting ==
  ASSUME NEW V, NEW hash \in [Key -> Nat], NEW t, Fine(t, V, hash), NEW k \in Key,
         t.capacity = 0 \/ Has(t.entries, t.capacity, k) \/ Has(t.entries, t.capacity, Null)
  PROVE  IF Has(t.entries, t.capacity, k)
         THEN Binds(t.entries, t.capacity, k, TableGet(t, k, hash))
         ELSE TableGet(t, k, hash) = Null
<1> DEFINE c == t.capacity
           es == t.entries
           i == FindEntry(es, c, k, hash)
<1>1. c \in Nat /\ es \in Entries(c, V) /\ Well(es, c, hash)
  BY DEF Fine
<1>2. CASE c = 0
  BY <1>2 DEF Has, TableGet
<1>3. CASE c # 0
  <2>1. Place(es, c, k, hash, i)
    <3> HIDE DEF c, es
    <3>1. c > 0 /\ (Has(es, c, k) \/ Has(es, c, Null))
      BY <1>1, <1>3 DEF c, es
    <3>2. QED
      BY <1>1, <3>1, FindsPlace
  <2>2. TableGet(t, k, hash) = IF es[i].key = Null THEN Null ELSE es[i].value
    BY <1>3 DEF TableGet
  <2> HIDE DEF i
  <2>3. QED
    BY <2>1, <2>2, TableAssumption DEF Place, Has, Binds
<1>4. QED
  BY <1>2, <1>3

(* What has been added after n slots.                                      *)
HasAdded(es, n, u, V, hash) ==
  /\ Fine(u, V, hash)
  /\ Loaded(u)
  /\ NoTombs(u.entries, u.capacity)
  /\ \A x \in Key : \A w : Binds(u.entries, u.capacity, x, w) <=> Binds(es, n, x, w)

LEMMA AddOne ==
  ASSUME NEW c \in Nat, NEW V, Null \in V, NEW es \in Entries(c, V),
         NEW hash \in [Key -> Nat], Well(es, c, hash), NEW n \in 1 .. c, NEW u,
         HasAdded(es, n - 1, u, V, hash)
  PROVE  HasAdded(es, n, AddEntry(u, es[n - 1], hash), V, hash)
<1> DEFINE e == es[n - 1]
           now == AddEntry(u, e, hash)
<1>1. /\ n - 1 \in 0 .. c - 1 /\ n \in Nat /\ n >= 1
      /\ e.key \in Key \cup {Null} /\ e.value \in V
  BY DEF Entries
<1>2. \A x, w : Binds(es, n, x, w) <=> (x = e.key /\ w = e.value) \/ Binds(es, n - 1, x, w)
  BY <1>1, OneMore
<1>3. CASE e.key = Null
  <2>1. now = u
    BY <1>3 DEF AddEntry
  <2>2. \A x \in Key : \A w : Binds(es, n, x, w) <=> Binds(es, n - 1, x, w)
    BY <1>2, <1>3, TableAssumption
  <2>3. QED
    BY <2>1, <2>2 DEF HasAdded
<1>4. CASE e.key # Null
  <2>1. PICK r : r = TableSet(u, e.key, e.value, hash)
    OBVIOUS
  <2>2. now = r.table
    BY <1>4, <2>1 DEF AddEntry
  <2>3. e.key \in Key /\ e.value \in V /\ Fine(u, V, hash)
    BY <1>1, <1>4 DEF HasAdded
  <2>4. ~ \E w : Binds(es, n - 1, e.key, w)
    <3>1. ASSUME NEW j \in 0 .. n - 1 - 1 PROVE es[j].key # e.key
      BY <1>1, <1>4 DEF Well
    <3>2. QED
      BY <3>1 DEF Binds
  <2> HIDE DEF e, now
  <2>5. /\ Fine(r.table, V, hash)
        /\ Loaded(u) => Loaded(r.table)
        /\ SetTo(u, e.key, e.value, r)
    BY <2>1, <2>3, Setting
  <2>6. \A x \in Key : \A w : Binds(now.entries, now.capacity, x, w) <=> Binds(es, n, x, w)
    BY <1>2, <2>2, <2>3, <2>4, <2>5 DEF HasAdded, SetTo
  <2>7. HasAdded(es, n, now, V, hash)
    BY <2>2, <2>5, <2>6 DEF HasAdded, SetTo
  <2>8. QED
    BY <2>7 DEF now, e
<1>5. QED
  BY <1>3, <1>4

(* table_add_all to a table without keys: a copy.                          *)
LEMMA Adding ==
  ASSUME NEW V, Null \in V, NEW hash \in [Key -> Nat], NEW dest, NEW src,
         HasAdded(src.entries, 0, dest, V, hash), Fine(src, V, hash)
  PROVE  HasAdded(src.entries, src.capacity, TableAddAll(dest, src, hash), V, hash)
<1> DEFINE c == src.capacity
           es == src.entries
           added == CHOOSE f : f = [n \in 0 .. c |->
                      IF n = 0 THEN dest ELSE AddEntry(f[n - 1], es[n - 1], hash)]
<1>1. TableAddAll(dest, src, hash) = added[c]
  BY DEF TableAddAll
<1>2. c \in Nat /\ es \in Entries(c, V) /\ Well(es, c, hash)
  BY DEF Fine
<1>3. added = [n \in 0 .. c |->
                 IF n = 0 THEN dest ELSE AddEntry(added[n - 1], es[n - 1], hash)]
  <2>1. \E f : AreAdds(f, dest, es, hash, c)
    <3> HIDE DEF c, es
    <3>1. QED
      BY <1>2, AddsExist
  <2>2. \E f : f = [n \in 0 .. c |->
                      IF n = 0 THEN dest ELSE AddEntry(f[n - 1], es[n - 1], hash)]
    BY <2>1 DEF AreAdds
  <2>3. QED
    BY <2>2
<1> HIDE DEF added
<1> DEFINE T == {n \in 0 .. c : HasAdded(es, n, added[n], V, hash)}
<1>4. 0 \in T
  BY <1>2, <1>3
<1>5. ASSUME NEW n \in 1 .. c, n - 1 \in T PROVE n \in T
  <2>1. added[n] = AddEntry(added[n - 1], es[n - 1], hash) /\ n \in 0 .. c
    <3>1. n \in 0 .. c /\ n # 0
      BY <1>2, <1>5
    <3>2. QED
      BY <1>3, <3>1
  <2>2. HasAdded(es, n - 1, added[n - 1], V, hash)
    BY <1>5
  <2> HIDE DEF es, c
  <2>3. HasAdded(es, n, added[n], V, hash)
    BY <1>2, <1>5, <2>1, <2>2, AddOne
  <2>4. QED
    BY <2>1, <2>3
<1>6. HasAdded(es, c, added[c], V, hash)
  <2> HIDE DEF T, c
  <2>1. c \in T
    BY <1>2, <1>4, <1>5, UpTo
  <2>2. QED
    BY <2>1 DEF T
<1>7. QED
  BY <1>1, <1>6

-------------------------------------------------------------------------------
(* Removal of the strings that are not marked.                             *)

(* The first n slots have been visited.                                    *)
HasVisited(t, n, marked, u, V, hash) ==
  /\ Fine(u, V, hash)
  /\ u.capacity = t.capacity
  /\ \A i \in 0 .. t.capacity - 1 :
       IF i < n /\ t.entries[i].key \in Key \ marked
       THEN u.entries[i].key = Null /\ u.entries[i].tombstone
       ELSE u.entries[i] = t.entries[i]

LEMMA VisitOne ==
  ASSUME NEW V, NEW hash \in [Key -> Nat], NEW t, t.capacity \in Nat, NEW marked,
         NEW n \in 1 .. t.capacity, NEW u,
         HasVisited(t, n - 1, marked, u, V, hash)
  PROVE  HasVisited(t, n, marked, Visit(u, n - 1, marked, hash), V, hash)
<1> DEFINE c == t.capacity
           es == u.entries
           j == n - 1
           k == es[j].key
<1>1. /\ j \in 0 .. c - 1 /\ n \in Nat
      /\ \A i \in 0 .. c - 1 : i < n <=> i < j \/ i = j
  OBVIOUS
<1>2. es[j] = t.entries[j]
  BY <1>1 DEF HasVisited
<1>3. CASE k \notin Key \ marked
  <2>1. Visit(u, j, marked, hash) = u
    BY <1>3 DEF Visit
  <2>2. QED
    BY <1>1, <1>2, <1>3, <2>1 DEF HasVisited
<1>4. CASE k \in Key \ marked
  <2> DEFINE i == FindEntry(es, c, k, hash)
             now == Buried(es, j)
  <2>1. /\ c \in Nat /\ c > 0 /\ es \in Entries(c, V) /\ Well(es, c, hash)
        /\ u.count = Cardinality(Used(es, c)) /\ u.capacity = c
        /\ u = [count |-> u.count, capacity |-> c, entries |-> es]
    BY <1>1 DEF HasVisited, Fine
  <2>2. k \in Key /\ k # Null /\ Has(es, c, k)
    BY <1>1, <1>4, TableAssumption DEF Has
  <2>3. i = j
    <3> HIDE DEF c, es, k, j, i
    <3>1. Place(es, c, k, hash, i)
      BY <2>1, <2>2, FindsPlace DEF i
    <3>2. i \in 0 .. c - 1 /\ es[i].key = k
      BY <2>2, <3>1 DEF Place
    <3>3. QED
      BY <1>1, <2>1, <2>2, <3>2 DEF Well, k
  <2>4. Visit(u, j, marked, hash)
          = [u EXCEPT !.count = @ - 1, !.entries[j].key = Null, !.entries[j].tombstone = TRUE]
    BY <1>4, <2>1, <2>3 DEF Visit, TableDelete
  <2>5. Visit(u, j, marked, hash) = [count |-> u.count - 1, capacity |-> c, entries |-> now]
    <3>1. PICK d : d = Visit(u, j, marked, hash)
      OBVIOUS
    <3>2. d = [[u EXCEPT !.count = @ - 1] EXCEPT !.entries = now]
      BY <2>4, <3>1 DEF Buried
    <3> HIDE DEF c, es, now
    <3>3. d = [count |-> u.count - 1, capacity |-> c, entries |-> now]
      BY <2>1, <3>2
    <3>4. QED
      BY <3>1, <3>3
  <2> HIDE DEF i, c, es, j
  <2>6. /\ now \in Entries(c, V) /\ Well(now, c, hash)
        /\ Used(now, c) = Used(es, c) \ {j}
        /\ now[j].key = Null /\ now[j].tombstone
        /\ \A l \in 0 .. c - 1 : l # j => now[l] = es[l]
    BY <1>1, <2>1, <2>2, BuryEntry DEF k, now
  <2> HIDE DEF now
  <2>7. u.count - 1 = Cardinality(Used(now, c))
    <3>1. j \in Used(es, c) /\ IsFiniteSet(Used(es, c))
      BY <1>1, <2>1, <2>2, UsedFinite DEF Used, k
    <3>2. Cardinality(Used(es, c) \ {j}) = Cardinality(Used(es, c)) - 1
      BY <3>1, FS_RemoveElement
    <3>3. QED
      BY <2>1, <2>6, <3>2
  <2>8. PICK d : d = [count |-> u.count - 1, capacity |-> c, entries |-> now]
    OBVIOUS
  <2>9. /\ d.count = u.count - 1 /\ d.capacity = c /\ d.entries = now
        /\ d = [count |-> d.count, capacity |-> d.capacity, entries |-> d.entries]
    BY <2>8
  <2>10. Fine(d, V, hash)
    BY <2>1, <2>6, <2>7, <2>9 DEF Fine
  <2>11. HasVisited(t, n, marked, d, V, hash)
    <3>1. ASSUME NEW l \in 0 .. c - 1
          PROVE  IF l < n /\ t.entries[l].key \in Key \ marked
                 THEN now[l].key = Null /\ now[l].tombstone
                 ELSE now[l] = t.entries[l]
      <4>1. CASE l = j
        BY <1>1, <1>2, <1>4, <2>6, <4>1 DEF k
      <4>2. CASE l # j
        BY <1>1, <2>6, <4>2 DEF HasVisited, c, es, j
      <4>3. QED
        BY <4>1, <4>2
    <3>2. QED
      BY <2>9, <2>10, <3>1 DEF HasVisited, c
  <2>12. QED
    BY <2>5, <2>8, <2>11 DEF j
<1>5. QED
  BY <1>3, <1>4

LEMMA Removing ==
  ASSUME NEW V, NEW hash \in [Key -> Nat], NEW t, Fine(t, V, hash), NEW marked
  PROVE  HasVisited(t, t.capacity, marked, TableRemoveUnmarked(t, marked, hash), V, hash)
<1> DEFINE c == t.capacity
           visited == CHOOSE f : f = [n \in 0 .. c |->
                        IF n = 0 THEN t ELSE Visit(f[n - 1], n - 1, marked, hash)]
<1>1. TableRemoveUnmarked(t, marked, hash) = visited[c]
  BY DEF TableRemoveUnmarked
<1>2. c \in Nat
  BY DEF Fine
<1>3. visited = [n \in 0 .. c |->
                   IF n = 0 THEN t ELSE Visit(visited[n - 1], n - 1, marked, hash)]
  <2>1. \E f : AreVisits(f, t, marked, hash, c)
    <3> HIDE DEF c
    <3>1. QED
      BY <1>2, VisitsExist
  <2>2. \E f : f = [n \in 0 .. c |->
                      IF n = 0 THEN t ELSE Visit(f[n - 1], n - 1, marked, hash)]
    BY <2>1 DEF AreVisits
  <2>3. QED
    BY <2>2
<1> HIDE DEF visited
<1> DEFINE T == {n \in 0 .. c : HasVisited(t, n, marked, visited[n], V, hash)}
<1>4. 0 \in T
  <2>1. HasVisited(t, 0, marked, t, V, hash)
    BY <1>2 DEF HasVisited
  <2>2. QED
    BY <1>2, <1>3, <2>1
<1>5. ASSUME NEW n \in 1 .. c, n - 1 \in T PROVE n \in T
  <2>1. visited[n] = Visit(visited[n - 1], n - 1, marked, hash) /\ n \in 0 .. c
    <3>1. n \in 0 .. c /\ n # 0
      BY <1>2, <1>5
    <3>2. QED
      BY <1>3, <3>1
  <2>2. HasVisited(t, n - 1, marked, visited[n - 1], V, hash)
    BY <1>5
  <2>3. HasVisited(t, n, marked, visited[n], V, hash)
    BY <1>2, <1>5, <2>1, <2>2, VisitOne
  <2>4. QED
    BY <2>1, <2>3
<1>6. HasVisited(t, c, marked, visited[c], V, hash)
  <2> HIDE DEF T, c
  <2>1. c \in T
    BY <1>2, <1>4, <1>5, UpTo
  <2>2. QED
    BY <2>1 DEF T
<1>7. QED
  BY <1>1, <1>6

-------------------------------------------------------------------------------
(* What the count counts, and what the hash matters for.                   *)

LEMMA KeysCounted ==
  ASSUME NEW V, NEW hash, NEW t, Fine(t, V, hash)
  PROVE  t.count = Cardinality(Keys(t))
<1> DEFINE c == t.capacity
           S == Used(t.entries, c)
           f == [i \in S |-> t.entries[i].key]
<1>1. c \in Nat /\ Well(t.entries, c, hash) /\ t.count = Cardinality(S)
  BY DEF Fine
<1>2. f \in Bijection(S, Keys(t))
  <2>1. f \in [S -> Keys(t)] /\ \A i \in S : f[i] = t.entries[i].key
    BY DEF Used, Keys
  <2>2. \A i, j \in S : f[i] = f[j] => i = j
    BY <1>1 DEF Well, Used
  <2>3. \A k \in Keys(t) : \E i \in S : f[i] = k
    BY DEF Used, Keys
  <2> HIDE DEF f, S
  <2>4. QED
    BY <2>1, <2>2, <2>3 DEF Bijection, Injection, Surjection, IsInjective
<1>3. IsFiniteSet(S)
  BY <1>1, UsedFinite
<1> HIDE DEF f, S
<1>4. ExistsBijection(S, Keys(t))
  BY <1>2 DEF ExistsBijection
<1>5. Cardinality(S) = Cardinality(Keys(t))
  BY <1>3, <1>4, FS_Bijection
<1>6. QED
  BY <1>1, <1>5

LEMMA OtherHash ==
  ASSUME NEW V, NEW hash, NEW now, NEW t, Fine(t, V, hash),
         \A k \in Key : Has(t.entries, t.capacity, k) => now[k] = hash[k]
  PROVE  Fine(t, V, now)
<1>1. /\ t.entries \in Entries(t.capacity, V)
      /\ Well(t.entries, t.capacity, hash)
  BY DEF Fine
<1>2. \A i \in 0 .. t.capacity - 1 : t.entries[i].key # Null =>
        now[t.entries[i].key] = hash[t.entries[i].key]
  BY <1>1 DEF Entries, Has
<1>3. Well(t.entries, t.capacity, now)
  BY <1>1, <1>2 DEF Well
<1>4. QED
  BY <1>3 DEF Fine

LEMMA HasKey ==
  ASSUME NEW t, NEW k \in Key
  PROVE  k \in Keys(t) <=> Has(t.entries, t.capacity, k)
BY TableAssumption DEF Keys, Has

(* A key that is there is found.                                           *)
LEMMA Found ==
  ASSUME NEW V, NEW hash \in [Key -> Nat], NEW t, Fine(t, V, hash), NEW k \in Keys(t)
  PROVE  t.entries[FindEntry(t.entries, t.capacity, k, hash)].key = k
<1>1. /\ t.capacity \in Nat /\ t.entries \in Entries(t.capacity, V)
      /\ Well(t.entries, t.capacity, hash)
  BY DEF Fine
<1>2. t.capacity > 0 /\ k \in Key /\ Has(t.entries, t.capacity, k)
  BY <1>1 DEF Keys, Has, Entries
<1>3. Place(t.entries, t.capacity, k, hash, FindEntry(t.entries, t.capacity, k, hash))
  BY <1>1, <1>2, FindsPlace
<1>4. QED
  BY <1>2, <1>3 DEF Place

-------------------------------------------------------------------------------
(* Tables: the maps of the interpreter.                                    *)

Store == Value \cup {Null}

Pair(o, k, v) == Binds(table[o].entries, table[o].capacity, k, v)

(* Each table is sound, at most three quarters full and without tombstones,*)
(* as nothing is deleted from it, and no name has Null.                    *)
Mapped ==
  \A o \in Owner :
    /\ Fine(table[o], Store, Hash)
    /\ Loaded(table[o])
    /\ NoTombs(table[o].entries, table[o].capacity)
    /\ \A k \in Key : \A v : Pair(o, k, v) => v \in Value

Tabled == table = [o \in Owner |-> table[o]]

TablesInv == Tabled /\ Mapped

LEMMA InitTables == Init => TablesInv
<1> SUFFICES ASSUME Init PROVE TablesInv
  OBVIOUS
<1>1. table = [o \in Owner |-> EmptyTable]
  BY DEF Init
<1>2. \A o \in Owner : table[o] = EmptyTable
  BY <1>1
<1>3. Tabled
  BY <1>1 DEF Tabled
<1>4. Mapped
  BY <1>2, EmptyFine DEF Mapped, Pair
<1>5. QED
  BY <1>3, <1>4 DEF TablesInv

(* One table changes.                                                      *)
LEMMA OneTable ==
  ASSUME TablesInv, NEW o \in Owner, NEW t, table' = [table EXCEPT ![o] = t],
         Fine(t, Store, Hash), Loaded(t), NoTombs(t.entries, t.capacity),
         \A k \in Key : \A v : Binds(t.entries, t.capacity, k, v) => v \in Value
  PROVE  TablesInv'
<1>1. table'[o] = t /\ \A p \in Owner : p # o => table'[p] = table[p]
  BY DEF TablesInv, Tabled
<1>2. Tabled'
  BY DEF TablesInv, Tabled
<1>3. Mapped'
  <2>1. ASSUME NEW p \in Owner
        PROVE  /\ Fine(table'[p], Store, Hash)
               /\ Loaded(table'[p])
               /\ NoTombs(table'[p].entries, table'[p].capacity)
               /\ \A k \in Key : \A v : Pair(p, k, v)' => v \in Value
    <3>1. CASE p = o
      BY <1>1, <3>1 DEF Pair
    <3>2. CASE p # o
      BY <1>1, <3>2 DEF Pair, TablesInv, Mapped
    <3>3. QED
      BY <3>1, <3>2
  <2>2. QED
    BY <2>1 DEF Mapped
<1>4. QED
  BY <1>2, <1>3 DEF TablesInv

-------------------------------------------------------------------------------
(* What a table maps a name to.                                            *)

Reading ==
  \A o \in Owner, k \in Key :
    /\ \A v : Pair(o, k, v) => Map[o][k] = v /\ v \in Value
    /\ (\A v : ~Pair(o, k, v)) => Map[o][k] = Null

Shaped == Map = [o \in Owner |-> [k \in Key |-> Map[o][k]]]

LEMMA Shapes == Shaped
BY DEF Shaped, Map

LEMMA Reads == TablesInv => Reading
<1> SUFFICES ASSUME TablesInv, NEW o \in Owner, NEW k \in Key
             PROVE  /\ \A v : Pair(o, k, v) => Map[o][k] = v /\ v \in Value
                    /\ (\A v : ~Pair(o, k, v)) => Map[o][k] = Null
  BY DEF Reading
<1> DEFINE t == table[o]
<1>1. Map[o][k] = IF \E e \in Stored(o) : e.key = k
                  THEN (CHOOSE e \in Stored(o) : e.key = k).value ELSE Null
  BY DEF Map
<1>2. /\ Well(t.entries, t.capacity, Hash) /\ k # Null
      /\ \A v : Pair(o, k, v) => v \in Value
  BY TableAssumption DEF TablesInv, Mapped, Fine
<1>3. ASSUME NEW v, Pair(o, k, v) PROVE Map[o][k] = v
  <2>1. PICK i \in 0 .. t.capacity - 1 : t.entries[i].key = k /\ t.entries[i].value = v
    BY <1>3 DEF Pair, Binds
  <2>2. \A e \in Stored(o) : e.key = k => e = t.entries[i]
    BY <1>2, <2>1 DEF Stored, Well
  <2>3. t.entries[i] \in Stored(o)
    BY DEF Stored
  <2> HIDE DEF t
  <2>4. (CHOOSE e \in Stored(o) : e.key = k) = t.entries[i]
    BY <2>1, <2>2, <2>3
  <2>5. QED
    BY <1>1, <2>1, <2>3, <2>4
<1>4. ASSUME \A v : ~Pair(o, k, v) PROVE Map[o][k] = Null
  <2>1. \A e \in Stored(o) : e.key # k
    BY <1>4 DEF Pair, Binds, Stored
  <2>2. QED
    BY <1>1, <2>1
<1>5. QED
  BY <1>2, <1>3, <1>4

LEMMA ReadsNext == TablesInv' => Reading' /\ Shaped'
BY Reads, Shapes, PTL

-------------------------------------------------------------------------------
(* The operations.                                                         *)

LEMMA SetStep ==
  ASSUME TablesInv, NEW o \in Owner, NEW k \in Key, NEW v \in Value, Set(o, k, v)
  PROVE  TablesInv' /\ Maps!Set(o, k, v)
<1> DEFINE t == table[o]
<1>1. PICK r : r = TableSet(t, k, v, Hash)
  OBVIOUS
<1>2. table' = [table EXCEPT ![o] = r.table] /\ answer' = r.exist
  BY <1>1 DEF Set
<1>3. /\ Null \in Store /\ v \in Store /\ Hash \in [Key -> Nat]
      /\ Fine(t, Store, Hash) /\ Loaded(t) /\ NoTombs(t.entries, t.capacity)
      /\ \A x \in Key : \A w : Binds(t.entries, t.capacity, x, w) => w \in Value
  BY OwnersAssumption DEF Store, TablesInv, Mapped, Pair
<1> HIDE DEF t
<1>4. Fine(r.table, Store, Hash) /\ Loaded(r.table) /\ SetTo(t, k, v, r)
  BY <1>1, <1>3, Setting
<1>5. \A x \in Key : \A w : Binds(r.table.entries, r.table.capacity, x, w) <=>
        IF x = k THEN w = v ELSE Binds(t.entries, t.capacity, x, w)
  BY <1>4 DEF SetTo
<1>6. TablesInv'
  <2>1. \A x \in Key : \A w : Binds(r.table.entries, r.table.capacity, x, w) => w \in Value
    BY <1>3, <1>5
  <2>2. NoTombs(r.table.entries, r.table.capacity)
    BY <1>3, <1>4 DEF SetTo
  <2>3. QED
    BY <1>2, <1>4, <2>1, <2>2, OneTable
<1>7. Reading /\ Shaped /\ Reading' /\ Shaped'
  BY <1>6, Reads, Shapes, ReadsNext
<1>8. /\ table'[o] = r.table
      /\ \A p \in Owner : p # o => table'[p] = table[p]
  BY <1>2 DEF TablesInv, Tabled
<1>9. answer' = (Map[o][k] # Null)
  <2>1. r.exist \in BOOLEAN /\ (r.exist <=> Has(t.entries, t.capacity, k))
    BY <1>4 DEF SetTo
  <2>2. Has(t.entries, t.capacity, k) <=> \E w : Pair(o, k, w)
    BY HasBinds DEF Pair, t
  <2>3. (\E w : Pair(o, k, w)) <=> Map[o][k] # Null
    BY <1>7, OwnersAssumption DEF Reading
  <2>4. QED
    BY <1>2, <2>1, <2>2, <2>3
<1>10. ASSUME NEW p \in Owner, NEW x \in Key
       PROVE  Map'[p][x] = IF p = o /\ x = k THEN v ELSE Map[p][x]
  <2>1. \A w : Pair(p, x, w)' <=> IF p = o /\ x = k THEN w = v ELSE Pair(p, x, w)
    <3>1. CASE p = o
      BY <1>5, <1>8, <3>1 DEF Pair, t
    <3>2. CASE p # o
      BY <1>8, <3>2 DEF Pair
    <3>3. QED
      BY <3>1, <3>2
  <2>2. /\ \A w : Pair(p, x, w)' => Map'[p][x] = w
        /\ (\A w : ~Pair(p, x, w)') => Map'[p][x] = Null
    BY <1>7 DEF Reading
  <2>3. /\ \A w : Pair(p, x, w) => Map[p][x] = w
        /\ (\A w : ~Pair(p, x, w)) => Map[p][x] = Null
    BY <1>7 DEF Reading
  <2>4. CASE p = o /\ x = k
    BY <2>1, <2>2, <2>4
  <2>5. CASE ~(p = o /\ x = k)
    BY <2>1, <2>2, <2>3, <2>5
  <2>6. QED
    BY <2>4, <2>5
<1>11. Map' = [Map EXCEPT ![o][k] = v]
  BY <1>7, <1>10 DEF Shaped
<1>12. QED
  BY <1>6, <1>9, <1>11 DEF Maps!Set

(* A table becomes that of a map.                                          *)
LEMMA Replaced ==
  ASSUME TablesInv, NEW o \in Owner, NEW t, table' = [table EXCEPT ![o] = t],
         Fine(t, Store, Hash), Loaded(t), NoTombs(t.entries, t.capacity),
         NEW m, m = [k \in Key |-> m[k]],
         \A k \in Key :
           /\ \A v : Binds(t.entries, t.capacity, k, v) => m[k] = v /\ v \in Value
           /\ (\A v : ~Binds(t.entries, t.capacity, k, v)) => m[k] = Null
  PROVE  TablesInv' /\ Map' = [Map EXCEPT ![o] = m]
<1>1. TablesInv'
  BY OneTable
<1>2. Reading /\ Shaped /\ Reading' /\ Shaped'
  BY <1>1, Reads, Shapes, ReadsNext
<1>3. table'[o] = t /\ \A p \in Owner : p # o => table'[p] = table[p]
  BY DEF TablesInv, Tabled
<1>4. ASSUME NEW p \in Owner, NEW x \in Key
      PROVE  Map'[p][x] = IF p = o THEN m[x] ELSE Map[p][x]
  <2>1. /\ \A w : Pair(p, x, w)' => Map'[p][x] = w
        /\ (\A w : ~Pair(p, x, w)') => Map'[p][x] = Null
    BY <1>2 DEF Reading
  <2>2. CASE p = o
    <3>1. \A w : Pair(p, x, w)' <=> Binds(t.entries, t.capacity, x, w)
      BY <1>3, <2>2 DEF Pair
    <3>2. QED
      BY <2>1, <2>2, <3>1
  <2>3. CASE p # o
    <3>1. \A w : Pair(p, x, w)' <=> Pair(p, x, w)
      BY <1>3, <2>3 DEF Pair
    <3>2. /\ \A w : Pair(p, x, w) => Map[p][x] = w
          /\ (\A w : ~Pair(p, x, w)) => Map[p][x] = Null
      BY <1>2 DEF Reading
    <3>3. QED
      BY <2>1, <2>3, <3>1, <3>2
  <2>4. QED
    BY <2>2, <2>3
<1>5. \A p \in Owner : Map'[p] = IF p = o THEN m ELSE Map[p]
  BY <1>2, <1>4 DEF Shaped
<1>6. QED
  BY <1>1, <1>2, <1>5 DEF Shaped

LEMMA EmptyMap ==
  ASSUME TablesInv, NEW o \in Owner, table[o] = EmptyTable
  PROVE  Map[o] = Maps!Empty
<1>1. \A k \in Key : Map[o][k] = Null
  BY EmptyFine, Reads DEF Reading, Pair
<1>2. QED
  BY <1>1, Shapes DEF Shaped, Maps!Empty

LEMMA NewStep ==
  ASSUME TablesInv, NEW o \in Owner, New(o)
  PROVE  TablesInv' /\ Maps!New(o)
<1>1. table' = [table EXCEPT ![o] = EmptyTable] /\ answer' = Null
  BY DEF New
<1>2. \A k \in Key : Maps!Empty[k] = Null
  BY DEF Maps!Empty
<1>3. Maps!Empty = [k \in Key |-> Maps!Empty[k]]
  BY DEF Maps!Empty
<1>4. /\ Fine(EmptyTable, Store, Hash) /\ Loaded(EmptyTable)
      /\ NoTombs(EmptyTable.entries, EmptyTable.capacity)
      /\ \A x, w : ~Binds(EmptyTable.entries, EmptyTable.capacity, x, w)
  BY EmptyFine
<1>5. TablesInv' /\ Map' = [Map EXCEPT ![o] = Maps!Empty]
  BY <1>1, <1>2, <1>3, <1>4, Replaced
<1>6. QED
  BY <1>1, <1>5 DEF Maps!New

LEMMA AddAllStep ==
  ASSUME TablesInv, NEW dest \in Owner, NEW src \in Owner, AddAll(dest, src)
  PROVE  TablesInv' /\ Maps!AddAll(dest, src)
<1> DEFINE t == TableAddAll(EmptyTable, table[src], Hash)
<1>1. /\ table[dest] = EmptyTable /\ answer' = Null
      /\ table' = [table EXCEPT ![dest] = t]
  BY DEF AddAll
<1>2. /\ Null \in Store /\ Hash \in [Key -> Nat] /\ Fine(table[src], Store, Hash)
  BY OwnersAssumption DEF Store, TablesInv, Mapped
<1>3. HasAdded(table[src].entries, 0, EmptyTable, Store, Hash)
  <2>1. \A x, w : ~Binds(table[src].entries, 0, x, w)
    BY DEF Binds
  <2>2. QED
    BY <2>1, EmptyFine DEF HasAdded
<1>4. HasAdded(table[src].entries, table[src].capacity, t, Store, Hash)
  BY <1>2, <1>3, Adding
<1> HIDE DEF t
<1>5. Map[src] = [k \in Key |-> Map[src][k]]
  BY Shapes DEF Shaped
<1>6. \A k \in Key :
        /\ \A v : Binds(t.entries, t.capacity, k, v) => Map[src][k] = v /\ v \in Value
        /\ (\A v : ~Binds(t.entries, t.capacity, k, v)) => Map[src][k] = Null
  BY <1>4, Reads DEF HasAdded, Reading, Pair
<1>7. /\ Fine(t, Store, Hash) /\ Loaded(t)
      /\ NoTombs(t.entries, t.capacity)
  BY <1>4 DEF HasAdded
<1>8. TablesInv' /\ Map' = [Map EXCEPT ![dest] = Map[src]]
  BY <1>1, <1>5, <1>6, <1>7, Replaced
<1>9. QED
  BY <1>1, <1>8, EmptyMap DEF Maps!AddAll

LEMMA UnusedLeft ==
  ASSUME TablesInv, NEW o \in Owner, table[o].capacity # 0
  PROVE  /\ Has(table[o].entries, table[o].capacity, Null)
         /\ \E i \in 0 .. table[o].capacity - 1 : Unused(table[o].entries[i])
<1> DEFINE t == table[o]
<1>1. /\ Fine(t, Store, Hash) /\ Loaded(t) /\ NoTombs(t.entries, t.capacity)
  BY DEF TablesInv, Mapped
<1> HIDE DEF t
<1>2. t.count < t.capacity
  <2>1. t.capacity \in Nat /\ t.count \in Nat
    BY <1>1, UsedFinite DEF Fine
  <2>2. t.capacity # 0
    BY DEF t
  <2>3. QED
    BY <1>1, <2>1, <2>2 DEF Loaded
<1>3. Has(t.entries, t.capacity, Null)
  BY <1>1, <1>2, RoomLeft
<1>4. \E i \in 0 .. t.capacity - 1 : Unused(t.entries[i])
  BY <1>1, <1>3 DEF Has, Unused, NoTombs
<1>5. QED
  BY <1>3, <1>4 DEF t

LEMMA SameTables ==
  ASSUME TablesInv, UNCHANGED table
  PROVE  TablesInv' /\ UNCHANGED Map
BY DEF TablesInv, Tabled, Mapped, Pair, Map, Stored

LEMMA GetStep ==
  ASSUME TablesInv, NEW o \in Owner, NEW k \in Key, Get(o, k)
  PROVE  TablesInv' /\ Maps!Get(o, k)
<1> DEFINE t == table[o]
<1>1. answer' = TableGet(t, k, Hash) /\ UNCHANGED table
  BY DEF Get
<1>2. /\ Fine(t, Store, Hash) /\ Hash \in [Key -> Nat]
      /\ t.capacity = 0 \/ Has(t.entries, t.capacity, Null)
  BY OwnersAssumption, UnusedLeft DEF TablesInv, Mapped
<1>3. IF Has(t.entries, t.capacity, k)
      THEN Binds(t.entries, t.capacity, k, TableGet(t, k, Hash))
      ELSE TableGet(t, k, Hash) = Null
  <2> HIDE DEF t
  <2>1. QED
    BY <1>2, Getting
<1>4. TableGet(t, k, Hash) = Map[o][k]
  BY <1>3, Reads, HasBinds DEF Reading, Pair
<1>5. QED
  BY <1>1, <1>4, SameTables DEF Maps!Get

LEMMA StepTables ==
  ASSUME TablesInv, [Next]_vars
  PROVE  TablesInv' /\ [Maps!Next]_<<Map, answer>>
<1>1. ASSUME NEW o \in Owner, NEW k \in Key, Get(o, k)
      PROVE  TablesInv' /\ Maps!Next
  BY <1>1, GetStep DEF Maps!Next
<1>2. ASSUME NEW o \in Owner, NEW k \in Key, NEW v \in Value, Set(o, k, v)
      PROVE  TablesInv' /\ Maps!Next
  BY <1>2, SetStep DEF Maps!Next
<1>3. ASSUME NEW o \in Owner, New(o)
      PROVE  TablesInv' /\ Maps!Next
  BY <1>3, NewStep DEF Maps!Next
<1>4. ASSUME NEW dest \in Owner, NEW src \in Owner, AddAll(dest, src)
      PROVE  TablesInv' /\ Maps!Next
  BY <1>4, AddAllStep DEF Maps!Next
<1>5. CASE UNCHANGED vars
  BY <1>5, SameTables DEF vars
<1>6. QED
  BY <1>1, <1>2, <1>3, <1>4, <1>5 DEF Next

(* Every table is sound, keeps the load of three quarters and binds names  *)
(* to values only.                                                         *)
THEOREM SpecTables == Spec => []TablesInv
<1>1. TablesInv /\ [Next]_vars => TablesInv'
  BY StepTables
<1>2. QED
  BY <1>1, InitTables, PTL DEF Spec

(* The free space that find_entry's loop counts on (table.c:29): a table   *)
(* with entries always has an unused one, whatever the capacities of the   *)
(* first allocation and the hashes of the names.                           *)
THEOREM SpaceIsFree == Spec => []FreeSpace
<1>1. TablesInv => FreeSpace
  <2> SUFFICES ASSUME TablesInv, NEW o \in Owner, table[o].capacity > 0
               PROVE  \E i \in 0 .. table[o].capacity - 1 : Unused(table[o].entries[i])
    BY DEF FreeSpace
  <2>1. table[o].capacity # 0
    BY DEF TablesInv, Mapped, Fine
  <2>2. QED
    BY <2>1, UnusedLeft
<1>2. QED
  BY <1>1, SpecTables, PTL

(* table_set, table_get and table_add_all implement maps: what a lookup    *)
(* returns is what was stored last under the name, and a table that grows  *)
(* or is copied to a subclass loses nothing.                               *)
THEOREM MapsImplemented == Spec => TablesAreMaps
<1>1. Init => Maps!Init
  <2> SUFFICES ASSUME Init PROVE Maps!Init
    OBVIOUS
  <2>1. TablesInv
    BY InitTables
  <2>2. \A o \in Owner : table[o] = EmptyTable
    BY DEF Init
  <2>3. \A o \in Owner : Map[o] = Maps!Empty
    BY <2>1, <2>2, EmptyMap
  <2>4. Map = [o \in Owner |-> Maps!Empty]
    BY <2>3, Shapes DEF Shaped
  <2>5. QED
    BY <2>4 DEF Init, Maps!Init
<1>2. TablesInv /\ [Next]_vars => [Maps!Next]_<<Map, answer>>
  BY StepTables
<1>3. QED
  BY <1>1, <1>2, SpecTables, PTL DEF Spec, TablesAreMaps, Maps!Spec

-------------------------------------------------------------------------------
(* Interning.                                                              *)

In(s) == Has(strings.entries, strings.capacity, s)

Sane ==
  /\ Fine(strings, {Null}, HashString)
  /\ content \in [Key -> Content] /\ chars \in Content
  /\ held \subseteq heap /\ heap \subseteq Key

(* The table has the strings that exist, but for the new one,              *)
Present == \A s \in Key : In(s) <=> s \in heap /\ s # str

(* no two of them are equal,                                               *)
Unique == \A s, u \in Key : In(s) /\ In(u) /\ content[s] = content[u] => s = u

(* and none is equal to the one that is under construction.                *)
Awaited == pc # "idle" => \A s \in Key : In(s) => content[s] # chars

Position ==
  /\ pc \in {"idle", "clone", "allocate", "expand", "add"}
  /\ pc \in {"idle", "clone", "allocate"} => str = Null
  /\ pc \in {"expand", "add"} => str \in heap /\ content[str] = chars
  /\ pc \in {"idle", "expand"} => entry = NoEntry
  /\ pc = "add" /\ entry = NoEntry => strings.count < strings.capacity

(* The first unused slot of a search from hashcode h.                      *)
FirstUnused(es, c, h) ==
  LET ends == {n \in 0 .. c - 1 : Unused(es[Probe(h, n, c)])}
  IN IF ends = {} THEN NoEntry ELSE Probe(h, Min(ends), c)

(* No content is like that under construction, so a search for it passes   *)
(* every key and every tombstone: what is remembered is the first slot     *)
(* that was never used, and a collection makes no such slot.               *)
Remembered ==
  pc \in {"clone", "allocate", "expand"} \/ (pc = "add" /\ entry # NoEntry) =>
    entry = FirstUnused(strings.entries, strings.capacity, HashOf[chars])

InterningInv == Sane /\ Present /\ Unique /\ Awaited /\ Position /\ Remembered

-------------------------------------------------------------------------------
(* Searches.                                                               *)

LEMMA FirstIsUnused ==
  ASSUME NEW c \in Nat, NEW es, NEW h \in Nat, FirstUnused(es, c, h) # NoEntry
  PROVE  /\ FirstUnused(es, c, h) \in 0 .. c - 1
         /\ Unused(es[FirstUnused(es, c, h)])
         /\ PathTo(es, c, h, FirstUnused(es, c, h))
<1> DEFINE ends == {n \in 0 .. c - 1 : Unused(es[Probe(h, n, c)])}
<1>1. ends # {} /\ FirstUnused(es, c, h) = Probe(h, Min(ends), c)
  BY DEF FirstUnused
<1>2. /\ ends \subseteq 0 .. c - 1 /\ ends \subseteq Nat
      /\ \A n \in ends : Unused(es[Probe(h, n, c)])
      /\ \A n \in 0 .. c - 1 : Unused(es[Probe(h, n, c)]) => n \in ends
  OBVIOUS
<1> HIDE DEF ends
<1>3. PICK n \in ends : n = Min(ends) /\ \A m \in ends : n <= m
  BY <1>1, <1>2, MinOf
<1>4. n \in 0 .. c - 1 /\ c > 0 /\ Unused(es[Probe(h, n, c)])
  BY <1>2
<1>5. \A m \in 0 .. n - 1 : ~Unused(es[Probe(h, m, c)])
  BY <1>2, <1>3, <1>4
<1>6. Probe(h, n, c) \in 0 .. c - 1
  BY <1>4, ProbeOnto
<1>7. PathTo(es, c, h, Probe(h, n, c))
  BY <1>4, <1>5 DEF PathTo
<1>8. QED
  BY <1>1, <1>3, <1>4, <1>6, <1>7

LEMMA FirstKept ==
  ASSUME NEW c \in Nat, NEW es, NEW now, NEW h \in Nat,
         \A i \in 0 .. c - 1 : Unused(now[i]) <=> Unused(es[i])
  PROVE  FirstUnused(now, c, h) = FirstUnused(es, c, h)
<1>1. \A n \in 0 .. c - 1 : Probe(h, n, c) \in 0 .. c - 1
  <2>1. \A n \in 0 .. c - 1 : n \in Nat /\ c > 0
    OBVIOUS
  <2>2. QED
    BY <2>1, ProbeOnto
<1>2. {n \in 0 .. c - 1 : Unused(now[Probe(h, n, c)])}
        = {n \in 0 .. c - 1 : Unused(es[Probe(h, n, c)])}
  BY <1>1
<1>3. QED
  BY <1>2 DEF FirstUnused

(* find_existing_string_entry ends at the string with that content, or, if *)
(* there is none, at the first unused slot.                                *)
LEMMA Searches ==
  ASSUME Sane, Unique, NEW c \in Content
  PROVE  /\ FindExisting(strings, c) \in 0 .. strings.capacity - 1 \cup {NoEntry}
         /\ \A s \in Key : In(s) /\ content[s] = c =>
              /\ FindExisting(strings, c) # NoEntry
              /\ strings.entries[FindExisting(strings, c)].key = s
         /\ (\A s \in Key : In(s) => content[s] # c) =>
              FindExisting(strings, c)
                = FirstUnused(strings.entries, strings.capacity, HashOf[c])
<1> DEFINE n0 == strings.capacity
           es == strings.entries
           h == HashOf[c]
           At(n) == Probe(h, n, n0)
           Ends(n) == IF es[At(n)].key # Null THEN content[es[At(n)].key] = c
                      ELSE ~es[At(n)].tombstone
           ends == {n \in 0 .. n0 - 1 : Ends(n)}
           found == FindExisting(strings, c)
<1>1. found = IF ends = {} THEN NoEntry ELSE At(Min(ends))
  BY DEF FindExisting
<1>2. /\ n0 \in Nat /\ h \in Nat
      /\ es \in Entries(n0, {Null}) /\ Well(es, n0, HashString)
      /\ \A s \in Key : HashString[s] = HashOf[content[s]]
  BY ContentAssumption DEF Sane, Fine, HashString
<1>3. \A n \in 0 .. n0 - 1 : n \in Nat /\ At(n) \in 0 .. n0 - 1
  <2>1. \A n \in 0 .. n0 - 1 : n \in Nat /\ n0 > 0
    BY <1>2
  <2> HIDE DEF n0, h
  <2>2. QED
    BY <1>2, <2>1, ProbeOnto
<1>4. /\ ends \subseteq 0 .. n0 - 1 /\ ends \subseteq Nat
      /\ \A n \in ends : Ends(n)
      /\ \A n \in 0 .. n0 - 1 : Ends(n) => n \in ends
  BY <1>3
<1>5. ends # {} => Min(ends) \in ends /\ \A m \in ends : Min(ends) <= m
  <2> HIDE DEF ends
  <2>1. QED
    BY <1>4, MinOf
<1> HIDE DEF ends, found
<1>6. found \in 0 .. n0 - 1 \cup {NoEntry}
  BY <1>1, <1>3, <1>4, <1>5
<1>7. ASSUME NEW s \in Key, In(s), content[s] = c
      PROVE  found # NoEntry /\ es[found].key = s
  <2>1. PICK i \in 0 .. n0 - 1 : es[i].key = s
    BY <1>7 DEF In, Has
  <2>2. s # Null /\ HashString[s] = h
    BY <1>2, <1>7, TableAssumption
  <2>3. PICK n \in 0 .. n0 - 1 : At(n) = i /\ \A m \in 0 .. n - 1 : ~Unused(es[At(m)])
    BY <1>2, <2>1, <2>2 DEF Well, PathTo
  <2>4. Ends(n)
    BY <1>7, <2>1, <2>2, <2>3
  <2>5. n \in ends
    BY <1>4, <2>4
  <2>6. PICK m \in ends : m = Min(ends) /\ m <= n
    BY <1>5, <2>5
  <2>7. found = At(m) /\ m \in 0 .. n0 - 1 /\ At(m) \in 0 .. n0 - 1 /\ Ends(m)
    BY <1>1, <1>3, <1>4, <2>6
  <2>8. es[At(m)].key # Null
    <3>1. CASE m = n
      BY <2>1, <2>2, <2>3, <3>1
    <3>2. CASE m # n
      <4>1. ~Unused(es[At(m)])
        BY <2>3, <2>6, <2>7, <3>2
      <4>2. QED
        BY <2>7, <4>1 DEF Unused
    <3>3. QED
      BY <3>1, <3>2
  <2>9. /\ es[At(m)].key \in Key /\ In(es[At(m)].key)
        /\ content[es[At(m)].key] = c
    BY <1>2, <2>7, <2>8 DEF Entries, In, Has
  <2>10. es[At(m)].key = s
    BY <1>7, <2>9 DEF Unique
  <2>11. QED
    BY <1>2, <2>7, <2>10 DEF NoEntry
<1>8. ASSUME \A s \in Key : In(s) => content[s] # c
      PROVE  found = FirstUnused(es, n0, h)
  <2>1. ASSUME NEW n \in 0 .. n0 - 1 PROVE Ends(n) <=> Unused(es[At(n)])
    <3>1. At(n) \in 0 .. n0 - 1
      BY <1>3
    <3>2. es[At(n)].key # Null => es[At(n)].key \in Key /\ In(es[At(n)].key)
      BY <1>2, <3>1 DEF Entries, In, Has
    <3>3. es[At(n)].key # Null => content[es[At(n)].key] # c
      BY <1>8, <3>2
    <3>4. QED
      BY <3>3 DEF Unused
  <2>2. ends = {n \in 0 .. n0 - 1 : Unused(es[At(n)])}
    BY <2>1 DEF ends
  <2>3. QED
    BY <1>1, <2>2 DEF FirstUnused
<1>9. QED
  BY <1>6, <1>7, <1>8 DEF found

-------------------------------------------------------------------------------
(* The steps.                                                              *)

LEMMA InitInterning == InterningInit => InterningInv
<1> SUFFICES ASSUME InterningInit PROVE InterningInv
  OBVIOUS
<1>1. PICK c \in Content : content = [s \in Key |-> c] /\ chars = c
  BY DEF InterningInit
<1>2. strings = EmptyTable /\ heap = {} /\ held = {} /\ pc = "idle"
      /\ entry = NoEntry /\ str = Null
  BY DEF InterningInit
<1>3. Sane
  BY <1>1, <1>2, EmptyFine DEF Sane
<1>4. \A s \in Key : ~In(s)
  BY <1>2, EmptyFine, HasBinds DEF In
<1>5. QED
  BY <1>2, <1>3, <1>4 DEF InterningInv, Present, Unique, Awaited, Position, Remembered

LEMMA ExistingStep ==
  ASSUME InterningInv, NEW c \in Content, Existing(c)
  PROVE  InterningInv'
<1> DEFINE i == FindExisting(strings, c)
           k == strings.entries[i].key
<1>1. /\ i # NoEntry /\ k # Null /\ held' = held \cup {k}
      /\ UNCHANGED <<strings, heap, content, pc, chars, entry, str>>
  BY DEF Existing, construct
<1>2. Sane /\ Unique /\ Present
  BY DEF InterningInv
<1>3. i \in 0 .. strings.capacity - 1
  BY <1>1, <1>2, Searches
<1>4. k \in Key /\ In(k)
  BY <1>1, <1>2, <1>3 DEF Sane, Fine, Entries, In, Has
<1>5. k \in heap
  BY <1>2, <1>4 DEF Present
<1> HIDE DEF k
<1>6. Sane'
  BY <1>1, <1>2, <1>5 DEF Sane, HashString
<1>7. QED
  BY <1>1, <1>6 DEF InterningInv, Present, Unique, Awaited, Position, Remembered, In

LEMMA ConstructStep ==
  ASSUME InterningInv, NEW c \in Content, Construct(c)
  PROVE  InterningInv'
<1> DEFINE i == FindExisting(strings, c)
<1>1. /\ pc = "idle" /\ (i # NoEntry => strings.entries[i].key = Null)
      /\ entry' = i /\ chars' = c /\ pc' = "clone"
      /\ UNCHANGED <<strings, heap, content, held, str>>
  BY DEF Construct
<1>2. Sane /\ Unique /\ Present /\ Position
  BY DEF InterningInv
<1>3. \A s \in Key : In(s) => content[s] # c
  BY <1>1, <1>2, Searches, TableAssumption
<1>4. i = FirstUnused(strings.entries, strings.capacity, HashOf[c])
  BY <1>2, <1>3, Searches
<1> HIDE DEF i
<1>5. Sane' /\ Present' /\ Unique'
  BY <1>1, <1>2 DEF Sane, HashString, Present, Unique, In
<1>6. Awaited'
  BY <1>1, <1>3 DEF Awaited, In
<1>7. Position' /\ Remembered'
  BY <1>1, <1>2, <1>4 DEF Position, Remembered
<1>8. QED
  BY <1>5, <1>6, <1>7 DEF InterningInv

LEMMA CloneStep ==
  ASSUME InterningInv, Clone
  PROVE  InterningInv'
BY DEF InterningInv, Clone, Sane, HashString, Present, Unique, Awaited, Position, Remembered, In

LEMMA AllocateStep ==
  ASSUME InterningInv, AllocateString
  PROVE  InterningInv'
<1>1. PICK s \in Key \ heap :
        heap' = heap \cup {s} /\ content' = [content EXCEPT ![s] = chars] /\ str' = s
  BY DEF AllocateString
<1>2. /\ pc = "allocate"
      /\ pc' = IF entry = NoEntry /\ MustExpand(strings) THEN "expand" ELSE "add"
      /\ UNCHANGED <<strings, held, chars, entry>>
  BY DEF AllocateString
<1>3. Sane /\ Present /\ Unique /\ Awaited /\ Position /\ Remembered
  BY DEF InterningInv
<1>4. str = Null
  BY <1>2, <1>3 DEF Position
<1>5. \A x \in Key : In(x) <=> x \in heap
  BY <1>3, <1>4, TableAssumption DEF Present
<1>6. \A x \in Key : /\ In(x)' <=> In(x)
                     /\ content'[x] = IF x = s THEN chars ELSE content[x]
                     /\ In(x) => x # s
  BY <1>1, <1>2, <1>3, <1>5 DEF In, Sane
<1>7. Sane'
  <2>1. content' \in [Key -> Content]
    BY <1>1, <1>3 DEF Sane
  <2>2. \A k \in Key : Has(strings.entries, strings.capacity, k) =>
          HashString'[k] = HashString[k]
    BY <1>6 DEF HashString, In
  <2>3. Fine(strings, {Null}, HashString')
    <3> DEFINE then == HashString'
    <3>1. \A k \in Key : Has(strings.entries, strings.capacity, k) =>
            then[k] = HashString[k]
      BY <2>2
    <3> HIDE DEF then
    <3>2. Fine(strings, {Null}, then)
      BY <1>3, <3>1, OtherHash DEF Sane
    <3>3. QED
      BY <3>2 DEF then
  <2>4. QED
    BY <1>1, <1>2, <1>3, <2>1, <2>3 DEF Sane
<1>8. Present' /\ Unique' /\ Awaited'
  BY <1>1, <1>2, <1>3, <1>5, <1>6 DEF Present, Unique, Awaited
<1>9. Position'
  <2>1. strings.count \in Nat /\ strings.capacity \in Nat
    <3>1. /\ strings.capacity \in Nat
          /\ strings.count = Cardinality(Used(strings.entries, strings.capacity))
      BY <1>3 DEF Sane, Fine
    <3>2. QED
      BY <3>1, UsedFinite
  <2>2. ~MustExpand(strings) => strings.count < strings.capacity
    BY <2>1 DEF MustExpand
  <2>3. str' \in heap' /\ content'[str'] = chars'
    BY <1>1, <1>2, <1>6
  <2>4. QED
    BY <1>2, <1>3, <2>2, <2>3 DEF Position
<1>10. Remembered'
  BY <1>2, <1>3 DEF Remembered
<1>11. QED
  BY <1>7, <1>8, <1>9, <1>10 DEF InterningInv

(* The table may change as long as it has the same strings.                *)
LEMMA HashesAre ==
  ASSUME Sane
  PROVE  HashString \in [Key -> Nat] /\ \A s \in Key : HashString[s] = HashOf[content[s]]
BY ContentAssumption DEF Sane, HashString

LEMMA ExpandStep ==
  ASSUME InterningInv, Expand
  PROVE  InterningInv' /\ \A s \in Key : In(s)' <=> In(s)
<1>1. /\ pc = "expand" /\ pc' = "add"
      /\ strings' = TableExpand(strings, HashString)
      /\ UNCHANGED <<heap, content, held, chars, entry, str>>
  BY DEF Expand
<1>2. Sane /\ Present /\ Unique /\ Awaited /\ Position
  BY DEF InterningInv
<1>3. PICK u : u = TableExpand(strings, HashString)
  OBVIOUS
<1>4. Fine(strings, {Null}, HashString) /\ HashString \in [Key -> Nat]
  BY <1>2, HashesAre DEF Sane
<1>5. /\ Fine(u, {Null}, HashString)
      /\ u.count = strings.count
      /\ u.capacity > strings.capacity
      /\ \A x \in Key : \A w : Binds(u.entries, u.capacity, x, w) <=>
                            Binds(strings.entries, strings.capacity, x, w)
  BY <1>3, <1>4, Expanded
<1>6. \A x \in Key : In(x)' <=> In(x)
  BY <1>1, <1>3, <1>5, HasBinds DEF In
<1>7. Sane'
  BY <1>1, <1>2, <1>3, <1>5 DEF Sane, HashString
<1>8. Present' /\ Unique' /\ Awaited'
  BY <1>1, <1>2, <1>6 DEF Present, Unique, Awaited
<1>9. Position'
  <2>1. /\ strings.capacity \in Nat /\ u.capacity \in Nat
        /\ strings.count = Cardinality(Used(strings.entries, strings.capacity))
    BY <1>4, <1>5 DEF Fine
  <2>2. u.count < u.capacity
    BY <1>5, <2>1, UsedFinite
  <2>3. QED
    BY <1>1, <1>2, <1>3, <2>2 DEF Position
<1>10. Remembered'
  BY <1>1, <1>2 DEF Remembered, Position
<1>11. QED
  BY <1>6, <1>7, <1>8, <1>9, <1>10 DEF InterningInv

(* The string is put in the slot for it.                                   *)
LEMMA AddStep ==
  ASSUME InterningInv, Add
  PROVE  InterningInv' /\ \A s \in Key : In(s)' <=> s = str \/ In(s)
<1> DEFINE es == strings.entries
           c  == strings.capacity
<1>1. /\ pc = "add" /\ pc' = "idle" /\ held' = held \cup {str}
      /\ str' = Null /\ entry' = NoEntry
      /\ UNCHANGED <<heap, content, chars>>
  BY DEF Add
<1>2. Sane /\ Present /\ Unique /\ Awaited /\ Position /\ Remembered
  BY DEF InterningInv
<1>3. /\ str \in heap /\ content[str] = chars
      /\ str \in Key /\ str # Null
      /\ Fine(strings, {Null}, HashString) /\ HashString \in [Key -> Nat]
      /\ HashString[str] = HashOf[chars] /\ HashOf[chars] \in Nat
  BY <1>1, <1>2, HashesAre, TableAssumption, ContentAssumption DEF Position, Sane
<1>4. /\ c \in Nat /\ es \in Entries(c, {Null}) /\ Well(es, c, HashString)
      /\ strings.count = Cardinality(Used(es, c))
      /\ strings = [count |-> strings.count, capacity |-> c, entries |-> es]
  BY <1>3 DEF Fine
<1>5. ~Has(es, c, str)
  BY <1>2, <1>3 DEF Present, In
<1>6. /\ Fine(strings', {Null}, HashString)
      /\ \A s \in Key : Has(strings'.entries, strings'.capacity, s) <=>
           s = str \/ Has(es, c, s)
  <2>1. CASE entry = NoEntry
    <3>1. PICK r : r = SetInPlace(strings, str, Null, HashString)
      OBVIOUS
    <3>2. strings' = r.table
      BY <2>1, <3>1 DEF Add
    <3>3. c > 0 /\ Has(es, c, Null)
      <4>1. strings.count < strings.capacity
        BY <1>1, <1>2, <2>1 DEF Position
      <4>2. QED
        BY <1>3, <4>1, RoomLeft
    <3>4. Null \in {Null}
      OBVIOUS
    <3>5. Fine(r.table, {Null}, HashString) /\ SetTo(strings, str, Null, r)
      BY <1>3, <3>1, <3>3, <3>4, SetWithRoom
    <3>6. \A s \in Key : \A w : Binds(r.table.entries, r.table.capacity, s, w) <=>
            IF s = str THEN w = Null ELSE Binds(es, c, s, w)
      BY <3>5 DEF SetTo
    <3>7. ASSUME NEW s \in Key
          PROVE  Has(r.table.entries, r.table.capacity, s) <=> s = str \/ Has(es, c, s)
      <4>1. CASE s = str
        BY <3>6, <4>1, HasBinds
      <4>2. CASE s # str
        BY <3>6, <4>2, HasBinds
      <4>3. QED
        BY <4>1, <4>2
    <3>8. QED
      BY <3>2, <3>5, <3>7
  <2>2. CASE entry # NoEntry
    <3> DEFINE now == Written(es, entry, str, Null)
    <3>1. entry = FirstUnused(es, c, HashString[str])
      BY <1>1, <1>2, <1>3, <2>2 DEF Remembered
    <3>2. /\ entry \in 0 .. c - 1 /\ Unused(es[entry])
          /\ PathTo(es, c, HashString[str], entry)
      <4> HIDE DEF es, c
      <4>1. QED
        BY <1>3, <1>4, <2>2, <3>1, FirstIsUnused
    <3>3. Place(es, c, str, HashString, entry)
      BY <1>5, <3>2 DEF Place, Unused
    <3>4. PICK d : d = strings'
      OBVIOUS
    <3>5. d = [count |-> strings.count + 1, capacity |-> c, entries |-> now]
      <4> DEFINE filled == Fill(strings, entry, str, Null)
      <4>1. d = [filled EXCEPT !.count = @ + 1]
        BY <2>2, <3>4 DEF Add
      <4>2. PICK f : f = filled
        OBVIOUS
      <4>3. f = [strings EXCEPT !.entries = now]
        BY <4>2 DEF Fill, Written
      <4> HIDE DEF now, es, c
      <4>4. f = [count |-> strings.count, capacity |-> c, entries |-> now]
        BY <1>4, <4>3
      <4> HIDE DEF filled
      <4>5. d = [f EXCEPT !.count = @ + 1]
        BY <4>1, <4>2
      <4>6. QED
        BY <4>4, <4>5
    <3> HIDE DEF now, es, c
    <3>6. /\ now \in Entries(c, {Null}) /\ Well(now, c, HashString)
          /\ Used(now, c) = Used(es, c) \cup {entry}
          /\ entry \in Used(es, c) <=> Has(es, c, str)
          /\ \A s \in Key : Has(now, c, s) <=> s = str \/ Has(es, c, s)
      <4>1. Null \in {Null}
        OBVIOUS
      <4>2. QED
        BY <1>3, <1>4, <3>3, <4>1, PutEntry DEF now
    <3>7. strings.count + 1 = Cardinality(Used(now, c))
      <4>1. IsFiniteSet(Used(es, c)) /\ entry \notin Used(es, c)
        BY <1>4, <1>5, <3>6, UsedFinite
      <4>2. Cardinality(Used(es, c) \cup {entry}) = Cardinality(Used(es, c)) + 1
        BY <4>1, FS_AddElement
      <4>3. QED
        BY <1>4, <3>6, <4>2
    <3>8. /\ d.count = strings.count + 1 /\ d.capacity = c /\ d.entries = now
          /\ d = [count |-> d.count, capacity |-> d.capacity, entries |-> d.entries]
      BY <3>5
    <3>9. Fine(d, {Null}, HashString)
      BY <1>4, <3>6, <3>7, <3>8 DEF Fine
    <3>10. QED
      BY <3>4, <3>6, <3>8, <3>9
  <2>3. QED
    BY <2>1, <2>2
<1>7. \A s \in Key : In(s)' <=> s = str \/ In(s)
  BY <1>6 DEF In
<1>8. Sane'
  BY <1>1, <1>2, <1>3, <1>6 DEF Sane, HashString
<1>9. Present' /\ Unique' /\ Awaited'
  <2>1. \A s \in Key : In(s) => content[s] # content[str]
    BY <1>1, <1>2, <1>3 DEF Awaited
  <2>2. Unique'
    BY <1>1, <1>2, <1>7, <2>1 DEF Unique
  <2>3. ASSUME NEW s \in Key PROVE In(s)' <=> s \in heap' /\ s # str'
    BY <1>1, <1>2, <1>3, <1>7, TableAssumption DEF Present
  <2>4. QED
    BY <1>1, <2>2, <2>3 DEF Present, Awaited
<1>10. Position' /\ Remembered'
  BY <1>1 DEF Position, Remembered
<1>11. QED
  BY <1>7, <1>8, <1>9, <1>10 DEF InterningInv

LEMMA ReleaseStep ==
  ASSUME InterningInv, Release
  PROVE  InterningInv'
<1>1. held' \subseteq held /\ UNCHANGED <<strings, heap, content, pc, chars, entry, str>>
  BY DEF Release, construct
<1>2. Sane'
  BY <1>1 DEF InterningInv, Sane, HashString
<1>3. QED
  BY <1>1, <1>2 DEF InterningInv, Present, Unique, Awaited, Position, Remembered, In

LEMMA CollectStep ==
  ASSUME InterningInv, CollectGarbage
  PROVE  InterningInv' /\ \A s \in Key : In(s)' <=> In(s) /\ s \in Marked
<1> DEFINE es == strings.entries
           c  == strings.capacity
<1>1. /\ pc \in {"idle", "clone", "allocate", "expand"}
      /\ strings' = TableRemoveUnmarked(strings, Marked, HashString)
      /\ heap' = Marked
      /\ UNCHANGED <<content, held, pc, chars, entry, str>>
  BY DEF CollectGarbage, construct
<1>2. Sane /\ Present /\ Unique /\ Awaited /\ Position /\ Remembered
  BY DEF InterningInv
<1>3. /\ Fine(strings, {Null}, HashString) /\ HashString \in [Key -> Nat]
      /\ c \in Nat /\ es \in Entries(c, {Null}) /\ Well(es, c, HashString)
  BY <1>2, HashesAre DEF Sane, Fine
<1>4. HasVisited(strings, c, Marked, strings', {Null}, HashString)
  <2> DEFINE now == TableRemoveUnmarked(strings, Marked, HashString)
             kept == Marked
  <2> HIDE DEF kept
  <2>1. HasVisited(strings, c, kept, TableRemoveUnmarked(strings, kept, HashString),
                   {Null}, HashString)
    BY <1>3, Removing
  <2>2. QED
    BY <1>1, <2>1 DEF kept
<1>5. /\ Fine(strings', {Null}, HashString) /\ strings'.capacity = c
      /\ \A i \in 0 .. c - 1 :
           IF es[i].key \in Key \ Marked
           THEN strings'.entries[i].key = Null /\ strings'.entries[i].tombstone
           ELSE strings'.entries[i] = es[i]
  BY <1>3, <1>4 DEF HasVisited
<1>6. \A s \in Key : In(s)' <=> In(s) /\ s \in Marked
  <2>1. ASSUME NEW s \in Key
        PROVE  (\E i \in 0 .. c - 1 : strings'.entries[i].key = s) <=>
               (\E i \in 0 .. c - 1 : es[i].key = s) /\ s \in Marked
    BY <1>5, TableAssumption
  <2>2. QED
    BY <1>5, <2>1 DEF In, Has
<1>7. Marked \subseteq Key /\ held \subseteq Marked /\ (str \in heap => str \in Marked)
  BY <1>2, TableAssumption DEF Marked, Sane, Position
<1>8. Sane'
  BY <1>1, <1>2, <1>5, <1>7 DEF Sane, HashString
<1>9. Present'
  <2>1. ASSUME NEW s \in Key PROVE In(s) /\ s \in Marked <=> s \in Marked /\ s # str
    BY <1>2 DEF Present, Marked, Sane
  <2>2. QED
    BY <1>1, <1>6, <2>1 DEF Present
<1>10. Unique' /\ Awaited'
  BY <1>1, <1>2, <1>6 DEF Unique, Awaited
<1>11. Position'
  BY <1>1, <1>2, <1>7 DEF Position
<1>12. Remembered'
  <2>1. \A i \in 0 .. c - 1 : Unused(strings'.entries[i]) <=> Unused(es[i])
    BY <1>5, TableAssumption DEF Unused
  <2>2. HashOf[chars] \in Nat
    BY <1>2, ContentAssumption DEF Sane
  <2>3. FirstUnused(strings'.entries, c, HashOf[chars]) = FirstUnused(es, c, HashOf[chars])
    <3> HIDE DEF es, c
    <3>1. QED
      BY <1>3, <2>1, <2>2, FirstKept
  <2>4. QED
    BY <1>1, <1>2, <1>5, <2>3 DEF Remembered
<1>13. QED
  BY <1>6, <1>8, <1>9, <1>10, <1>11, <1>12 DEF InterningInv

LEMMA StepInterning ==
  ASSUME InterningInv, [InterningNext]_interning
  PROVE  InterningInv'
<1>1. ASSUME NEW c \in Content, Existing(c) \/ Construct(c) PROVE InterningInv'
  BY <1>1, ExistingStep, ConstructStep
<1>2. CASE Clone \/ AllocateString
  BY <1>2, CloneStep, AllocateStep
<1>3. CASE Expand \/ Add
  BY <1>3, ExpandStep, AddStep
<1>4. CASE Release \/ CollectGarbage
  BY <1>4, ReleaseStep, CollectStep
<1>5. CASE UNCHANGED interning
  BY <1>5 DEF interning, construct, InterningInv, Sane, HashString, Present, Unique, Awaited,
              Position, Remembered, In
<1>6. QED
  BY <1>1, <1>2, <1>3, <1>4, <1>5 DEF InterningNext

THEOREM SpecInterning == InterningSpec => []InterningInv
<1>1. InterningInv /\ [InterningNext]_interning => InterningInv'
  BY StepInterning
<1>2. QED
  BY <1>1, InitInterning, PTL DEF InterningSpec

-------------------------------------------------------------------------------
(* What the invariant says of the strings.                                 *)

LEMMA KeysAreIn ==
  ASSUME Sane
  PROVE  Keys(strings) = {s \in Key : In(s)}
BY TableAssumption DEF Sane, Fine, Entries, Keys, In, Has

(* Each string that exists is found by its address and by its content, and *)
(* the count that find_existing_string_entry's table keeps is right.       *)
THEOREM Findable == InterningSpec => []StringsFindable
<1>1. InterningInv => StringsFindable
  <2> SUFFICES ASSUME InterningInv PROVE StringsFindable
    OBVIOUS
  <2>1. Sane /\ Present /\ Unique
    BY DEF InterningInv
  <2>2. Fine(strings, {Null}, HashString) /\ HashString \in [Key -> Nat]
    BY <2>1, HashesAre DEF Sane
  <2>3. Keys(strings) = {s \in Key : In(s)}
    BY <2>1, KeysAreIn
  <2>4. Keys(strings) = heap \ {str}
    BY <2>1, <2>3 DEF Present, Sane
  <2>5. Sound(strings, HashString)
    <3>1. strings.count = Cardinality(Keys(strings))
      BY <2>2, KeysCounted
    <3>2. strings.count = Cardinality({i \in 0 .. strings.capacity - 1 :
                                         strings.entries[i].key # Null})
      BY <2>2 DEF Fine, Used
    <3>3. \A k \in Keys(strings) :
            strings.entries[FindEntry(strings.entries, strings.capacity, k, HashString)].key = k
      BY <2>2, Found
    <3>4. QED
      BY <3>1, <3>2, <3>3 DEF Sound
  <2>6. ASSUME NEW s \in Keys(strings)
        PROVE  strings.entries[FindExisting(strings, content[s])].key = s
    <3>1. s \in Key /\ In(s) /\ content[s] \in Content
      BY <2>1, <2>3 DEF Sane
    <3>2. QED
      BY <2>1, <3>1, Searches
  <2>7. QED
    BY <2>4, <2>5, <2>6 DEF StringsFindable
<1>2. QED
  BY <1>1, SpecInterning, PTL

(* The entry found before the two allocations is the one that a search     *)
(* after them finds: object.c writes the new string there, whatever the    *)
(* collections in between deleted from the table.                          *)
THEOREM EntryIsValid == InterningSpec => []EntryStaysValid
<1>1. InterningInv => EntryStaysValid
  <2> SUFFICES ASSUME InterningInv, pc \in {"clone", "allocate", "expand"} \/ (pc = "add" /\ entry # NoEntry)
               PROVE  entry = FindExisting(strings, chars)
    BY DEF EntryStaysValid
  <2>1. Sane /\ Unique /\ Awaited /\ Remembered
    BY DEF InterningInv
  <2>2. \A s \in Key : In(s) => content[s] # chars
    BY <2>1 DEF Awaited
  <2>3. FindExisting(strings, chars)
          = FirstUnused(strings.entries, strings.capacity, HashOf[chars])
    BY <2>1, <2>2, Searches DEF Sane
  <2>4. QED
    BY <2>1, <2>3 DEF Remembered
<1>2. QED
  BY <1>1, SpecInterning, PTL

-------------------------------------------------------------------------------
(* The pool.                                                               *)

PoolNow == {<<content[s], s>> : s \in Keys(strings)}

KeysRight == Keys(strings) = {s \in Key : In(s)}

LEMMA KeysAreRight == InterningInv => KeysRight
BY KeysAreIn DEF InterningInv, KeysRight

LEMMA KeysStayRight == InterningInv' => KeysRight'
BY KeysAreRight, PTL

LEMMA SamePool ==
  ASSUME InterningInv, InterningInv', \A s \in Key : In(s)' <=> In(s),
         \A s \in Key : In(s) => content'[s] = content[s]
  PROVE  UNCHANGED PoolNow
<1>1. KeysRight /\ KeysRight'
  BY KeysAreRight, KeysStayRight
<1>2. Keys(strings)' = Keys(strings) /\ \A s \in Keys(strings) : content'[s] = content[s]
  BY <1>1 DEF KeysRight
<1>3. QED
  BY <1>2 DEF PoolNow

LEMMA StepPool ==
  ASSUME InterningInv, [InterningNext]_interning
  PROVE  [Pool!Next]_<<{<<content[s], s>> : s \in Keys(strings)}, held>>
<1>1. InterningInv'
  BY StepInterning
<1>2. /\ KeysRight /\ KeysRight'
      /\ Sane /\ Present /\ Unique /\ Awaited /\ Position
      /\ \A s \in Key : content[s] \in Content
  BY <1>1, KeysAreRight, KeysStayRight DEF InterningInv, Sane
<1>3. ASSUME NEW c \in Content, Existing(c) PROVE Pool!Next
  <2> DEFINE i == FindExisting(strings, c)
             k == strings.entries[i].key
  <2>1. /\ i # NoEntry /\ k # Null /\ held' = held \cup {k}
        /\ UNCHANGED <<strings, heap, content, pc, chars, entry, str>>
    BY <1>3 DEF Existing, construct
  <2>2. i \in 0 .. strings.capacity - 1
    BY <1>2, <2>1, Searches
  <2>3. k \in Key /\ In(k)
    BY <1>2, <2>1, <2>2 DEF Sane, Fine, Entries, In, Has
  <2> HIDE DEF k
  <2>4. /\ k \in Keys(strings) /\ content[k] \in Content
        /\ UNCHANGED {<<content[s], s>> : s \in Keys(strings)}
    BY <1>2, <2>1, <2>3 DEF KeysRight
  <2>5. Pool!Again(content[k], k)
    BY <2>1, <2>4 DEF Pool!Again
  <2>6. QED
    BY <2>3, <2>4, <2>5 DEF Pool!Next
<1>4. ASSUME NEW c \in Content, Construct(c)
      PROVE  UNCHANGED <<{<<content[s], s>> : s \in Keys(strings)}, held>>
  BY <1>4 DEF Construct
<1>5. CASE Clone
  BY <1>5 DEF Clone
<1>6. CASE AllocateString
  <2>1. PICK u \in Key \ heap : content' = [content EXCEPT ![u] = chars] /\ str' = u
    BY <1>6 DEF AllocateString
  <2>2. UNCHANGED <<strings, held>>
    BY <1>6 DEF AllocateString
  <2>3. \A s \in Key : In(s)' <=> In(s)
    BY <2>2 DEF In
  <2>4. \A s \in Key : In(s) => content'[s] = content[s]
    BY <1>2, <2>1 DEF Present, Sane
  <2>5. UNCHANGED PoolNow
    BY <1>1, <2>3, <2>4, SamePool
  <2>6. QED
    BY <2>2, <2>5 DEF PoolNow
<1>7. CASE Expand
  <2>1. UNCHANGED <<content, held>> /\ \A s \in Key : In(s)' <=> In(s)
    BY <1>7, ExpandStep DEF Expand
  <2>2. UNCHANGED PoolNow
    BY <1>1, <2>1, SamePool
  <2>3. QED
    BY <2>1, <2>2 DEF PoolNow
<1>8. CASE Add
  <2>1. /\ pc = "add" /\ held' = held \cup {str} /\ UNCHANGED content
        /\ \A s \in Key : In(s)' <=> s = str \/ In(s)
    BY <1>8, AddStep DEF Add
  <2>2. str \in Key /\ content[str] = chars /\ ~In(str)
    BY <1>2, <2>1 DEF Position, Sane, Present
  <2>3. Keys(strings)' = Keys(strings) \cup {str}
    BY <1>2, <2>1, <2>2 DEF KeysRight
  <2>4. /\ str \notin Keys(strings)
        /\ \A s \in Keys(strings) : content[s] # chars
    BY <1>2, <2>1, <2>2 DEF Awaited, KeysRight
  <2>5. PICK c \in Content, u \in Key : c = chars /\ u = str
    BY <1>2, <2>2 DEF Sane
  <2>6. Pool!Make(c, u)
    <3>1. \A e \in {<<content[s], s>> : s \in Keys(strings)} : e[1] # chars /\ e[2] # str
      BY <2>4
    <3>2. {<<content[s], s>> : s \in Keys(strings)}'
            = {<<content[s], s>> : s \in Keys(strings)} \cup {<<chars, str>>}
      BY <2>1, <2>2, <2>3
    <3>3. QED
      BY <2>1, <2>5, <3>1, <3>2 DEF Pool!Make
  <2>7. QED
    BY <2>6 DEF Pool!Next
<1>9. CASE Release
  <2>1. PICK s \in held : held' = held \ {s}
    BY <1>9 DEF Release
  <2>2. s \in Key /\ UNCHANGED <<strings, content>>
    BY <1>2, <1>9 DEF Release, Sane
  <2>3. Pool!Release(s)
    BY <2>1, <2>2 DEF Pool!Release
  <2>4. QED
    BY <2>2, <2>3 DEF Pool!Next
<1>10. CASE CollectGarbage
  <2>1. UNCHANGED <<content, held>> /\ \A s \in Key : In(s)' <=> In(s) /\ s \in Marked
    BY <1>10, CollectStep DEF CollectGarbage
  <2>2. Keys(strings)' = {s \in Keys(strings) : s \in held}
    <3>1. \A s \in Key : In(s) => (s \in Marked <=> s \in held)
      BY <1>2 DEF Present, Marked
    <3>2. QED
      BY <1>2, <2>1, <3>1 DEF KeysRight
  <2>3. {<<content[s], s>> : s \in Keys(strings)}'
          = {e \in {<<content[s], s>> : s \in Keys(strings)} : e[2] \in held}
    BY <2>1, <2>2
  <2>4. Pool!Collect
    BY <2>1, <2>3 DEF Pool!Collect
  <2>5. QED
    BY <2>4 DEF Pool!Next
<1>11. CASE UNCHANGED interning
  BY <1>11 DEF interning
<1>12. QED
  BY <1>3, <1>4, <1>5, <1>6, <1>7, <1>8, <1>9, <1>10, <1>11 DEF InterningNext

(* Interning: a content has one string object, the same one for as long as *)
(* the program holds it, so that == may compare addresses.                 *)
THEOREM InternsStrings == InterningSpec => Interns
<1>1. InterningInit => Pool!Init
  <2> SUFFICES ASSUME InterningInit PROVE Pool!Init
    OBVIOUS
  <2>1. strings.capacity = 0 /\ held = {}
    BY DEF InterningInit, EmptyTable
  <2>2. Keys(strings) = {}
    BY <2>1 DEF Keys
  <2>3. {<<content[s], s>> : s \in Keys(strings)} = {}
    BY <2>2
  <2>4. QED
    BY <2>1, <2>3 DEF Pool!Init
<1>2. InterningInv /\ [InterningNext]_interning => [Pool!Next]_<<{<<content[s], s>> : s \in Keys(strings)}, held>>
  BY StepPool
<1>3. QED
  BY <1>1, <1>2, SpecInterning, PTL DEF InterningSpec, Interns, Pool!Spec

-------------------------------------------------------------------------------
(* Values in boxes.                                                        *)

(* The two representations of v agree.                                     *)
Agrees(t, b) ==
  /\ BoxIsNumber(b) = (t.type = "number") /\ BoxIsNil(b) = (t.type = "nil")
  /\ BoxIsBool(b) = (t.type = "bool")     /\ BoxIsObj(b) = (t.type = "obj")
  /\ t.type = "bool" => t = BoolValue(BoxAsBool(b))
  /\ t.type = "obj" => t.as = BoxAsObj(b)
  /\ t.type = "number" => t.as = b

LEMMA NilAgrees == Agrees(NilValue, NilBits)
<1>1. /\ NilValue.type = "nil" /\ NilBits = {62, 51, 50, 0}
  BY DEF NilValue, NilBits, QNAN, TagNil, Exponent, Quiet, Indef, Low
<1>2. BoxIsNil(NilBits)
  BY DEF BoxIsNil
<1>3. ~BoxIsNumber(NilBits)
  BY <1>1 DEF BoxIsNumber, QNAN, Exponent, Quiet, Indef
<1>4. ~BoxIsObj(NilBits)
  BY <1>1 DEF BoxIsObj, TagObj, Sign
<1>5. ~BoxIsBool(NilBits)
  BY <1>1 DEF BoxIsBool, TagBool, Tag
<1>6. QED
  BY <1>1, <1>2, <1>3, <1>4, <1>5 DEF Agrees, BoxIsNil, BoxIsNumber, BoxIsObj, BoxIsBool

LEMMA BoolAgrees ==
  ASSUME NEW c \in BOOLEAN
  PROVE  /\ Agrees(BoolValue(c), BoolBits(c))
         /\ BoxAsBool(BoolBits(c)) = c
<1>1. /\ BoolValue(c).type = "bool"
      /\ BoolBits(c) = {62, 51, 50, 4} \cup (IF c THEN {0} ELSE {})
  BY DEF BoolValue, BoolBits, QNAN, TagBool, Exponent, Quiet, Indef, Low, Tag
<1>2. ~BoxIsNil(BoolBits(c))
  BY <1>1 DEF BoxIsNil, NilBits, QNAN, TagNil, Exponent, Quiet, Indef, Low
<1>3. ~BoxIsNumber(BoolBits(c))
  BY <1>1 DEF BoxIsNumber, QNAN, Exponent, Quiet, Indef
<1>4. ~BoxIsObj(BoolBits(c))
  BY <1>1 DEF BoxIsObj, TagObj, Sign
<1>5. BoxIsBool(BoolBits(c))
  BY <1>1 DEF BoxIsBool, TagBool, Tag, TagObj, Sign, QNAN, Exponent, Quiet, Indef
<1>6. BoxAsBool(BoolBits(c)) = c
  BY <1>1 DEF BoxAsBool, TagBool, Tag, QNAN, Exponent, Quiet, Indef, Low
<1>7. BoolValue(c) = BoolValue(BoxAsBool(BoolBits(c)))
  BY <1>6
<1>8. QED
  BY <1>1, <1>2, <1>3, <1>4, <1>5, <1>6, <1>7
  DEF Agrees, BoxIsNil, BoxIsNumber, BoxIsObj, BoxIsBool

(* No double that arithmetic makes has the bits of QNAN.                   *)
LEMMA NumberAgrees ==
  ASSUME NEW x \in Arithmetic
  PROVE  Agrees(NumberValue(x), x)
<1>1. NumberValue(x).type = "number" /\ NumberValue(x).as = x
  BY DEF NumberValue
<1>2. ~(QNAN \subseteq x)
  <2>1. SUFFICES ASSUME QNAN \subseteq x PROVE FALSE
    OBVIOUS
  <2>2. 62 \in x /\ 50 \in x
    BY <2>1 DEF QNAN, Exponent, Indef
  <2>3. IsNaN(x)
    BY <2>2 DEF IsNaN, Exponent, Mantissa, Indef
  <2>4. x \ {63} = {62, 51}
    BY <2>3 DEF Arithmetic, Sign, Exponent, Quiet
  <2>5. QED
    BY <2>2, <2>4
<1>3. BoxIsNumber(x) /\ ~BoxIsObj(x) /\ ~BoxIsBool(x)
  BY <1>2 DEF BoxIsNumber, BoxIsObj, BoxIsBool
<1>4. ~BoxIsNil(x)
  BY <1>2 DEF BoxIsNil, NilBits
<1>5. QED
  BY <1>1, <1>3, <1>4 DEF Agrees, BoxIsNil, BoxIsNumber, BoxIsObj, BoxIsBool

LEMMA ObjAgrees ==
  ASSUME NEW addr \in Address
  PROVE  /\ Agrees(ObjValue(addr), ObjBits(addr))
         /\ BoxAsObj(ObjBits(addr)) = addr
<1>1. /\ ObjValue(addr).type = "obj" /\ ObjValue(addr).as = addr
      /\ ObjBits(addr) = {63, 62, 51, 50} \cup addr /\ addr \subseteq {40, 4}
  BY DEF ObjValue, ObjBits, QNAN, TagObj, Exponent, Quiet, Indef, Sign, Address, High, Tag
<1>2. ~BoxIsNil(ObjBits(addr))
  BY <1>1 DEF BoxIsNil, NilBits, QNAN, TagNil, Exponent, Quiet, Indef, Low
<1>3. ~BoxIsNumber(ObjBits(addr))
  BY <1>1 DEF BoxIsNumber, QNAN, Exponent, Quiet, Indef
<1>4. BoxIsObj(ObjBits(addr))
  BY <1>1 DEF BoxIsObj, TagObj, Sign, QNAN, Exponent, Quiet, Indef
<1>5. ~BoxIsBool(ObjBits(addr))
  BY <1>1 DEF BoxIsBool, TagObj, Sign
<1>6. BoxAsObj(ObjBits(addr)) = addr
  BY <1>1 DEF BoxAsObj, TagObj, Sign, QNAN, Exponent, Quiet, Indef
<1>7. QED
  BY <1>1, <1>2, <1>3, <1>4, <1>5, <1>6
  DEF Agrees, BoxIsNil, BoxIsNumber, BoxIsObj, BoxIsBool

LEMMA ValueAgrees ==
  ASSUME NEW v \in Pairs
  PROVE  /\ Agrees(v.tagged, v.bits)
         /\ v.tagged.type \in {"nil", "bool", "number", "obj"}
         /\ v.tagged.type = "nil" => v = NilPair
         /\ v.tagged.type = "bool" => \E c \in BOOLEAN : v = BoolPair(c)
         /\ v.tagged.type = "number" => v.tagged.as = v.bits
         /\ v.tagged.type = "obj" =>
              v.tagged.as = BoxAsObj(v.bits) /\ \E addr \in Address : v = ObjPair(addr)
<1>1. CASE v = NilPair
  BY <1>1, NilAgrees DEF NilPair, NilValue
<1>2. CASE \E c \in BOOLEAN : v = BoolPair(c)
  <2>1. PICK c \in BOOLEAN : v = BoolPair(c)
    BY <1>2
  <2>2. v.tagged = BoolValue(c) /\ v.bits = BoolBits(c) /\ v.tagged.type = "bool"
    BY <2>1 DEF BoolPair, BoolValue
  <2>3. QED
    BY <2>1, <2>2, BoolAgrees
<1>3. CASE \E x \in Arithmetic : v = NumberPair(x)
  <2>1. PICK x \in Arithmetic : v = NumberPair(x)
    BY <1>3
  <2>2. /\ v.tagged = NumberValue(x) /\ v.bits = x
        /\ v.tagged.type = "number" /\ v.tagged.as = x
    BY <2>1 DEF NumberPair, NumberValue
  <2>3. QED
    BY <2>2, NumberAgrees
<1>4. CASE \E addr \in Address : v = ObjPair(addr)
  <2>1. PICK addr \in Address : v = ObjPair(addr)
    BY <1>4
  <2>2. /\ v.tagged = ObjValue(addr) /\ v.bits = ObjBits(addr)
        /\ v.tagged.type = "obj" /\ v.tagged.as = addr
    BY <2>1 DEF ObjPair, ObjValue
  <2>3. QED
    BY <2>1, <2>2, ObjAgrees
<1>5. QED
  BY <1>1, <1>2, <1>3, <1>4 DEF Pairs

-------------------------------------------------------------------------------
(* Comparisons.                                                            *)

LEMMA SameEqual ==
  ASSUME NEW v \in Pairs, NEW w \in Pairs
  PROVE  Equal(v.tagged, w.tagged) <=> BoxEqual(v.bits, w.bits)
<1> DEFINE s == v.tagged.type
           t == w.tagged.type
           Types == {"nil", "bool", "number", "obj"}
<1>1. /\ s \in Types /\ t \in Types
      /\ BoxIsNumber(v.bits) = (s = "number") /\ BoxIsObj(v.bits) = (s = "obj")
      /\ BoxIsNumber(w.bits) = (t = "number") /\ BoxIsObj(w.bits) = (t = "obj")
      /\ BoxIsNil(v.bits) = (s = "nil") /\ BoxIsBool(v.bits) = (s = "bool")
      /\ BoxIsNil(w.bits) = (t = "nil") /\ BoxIsBool(w.bits) = (t = "bool")
  BY ValueAgrees DEF Agrees
<1>2. CASE s = "number" /\ t = "number"
  <2>1. BoxEqual(v.bits, w.bits) = SameDouble(v.bits, w.bits)
    BY <1>1, <1>2 DEF BoxEqual
  <2>2. v.tagged.as = v.bits /\ w.tagged.as = w.bits
    BY <1>2, ValueAgrees
  <2>3. QED
    BY <1>2, <2>1, <2>2 DEF Equal
<1>3. CASE s = "obj" /\ t = "obj"
  <2>1. BoxEqual(v.bits, w.bits) = (BoxAsObj(v.bits) = BoxAsObj(w.bits))
    BY <1>1, <1>3 DEF BoxEqual
  <2>2. v.tagged.as = BoxAsObj(v.bits) /\ w.tagged.as = BoxAsObj(w.bits)
    BY <1>3, ValueAgrees
  <2>3. QED
    BY <1>3, <2>1, <2>2 DEF Equal
<1>4. CASE s # t
  <2>1. ~Equal(v.tagged, w.tagged)
    BY <1>4 DEF Equal
  <2>2. v.bits # w.bits
    <3>1. SUFFICES ASSUME v.bits = w.bits PROVE FALSE
      OBVIOUS
    <3>2. QED
      BY <1>1, <1>4, <3>1
  <2>3. BoxEqual(v.bits, w.bits) = (v.bits = w.bits)
    BY <1>1, <1>4 DEF BoxEqual
  <2>4. QED
    BY <2>1, <2>2, <2>3
<1>5. CASE s = "nil" /\ t = "nil"
  <2>1. v = NilPair /\ w = NilPair
    BY <1>5, ValueAgrees
  <2>2. BoxEqual(v.bits, w.bits) = (v.bits = w.bits)
    BY <1>1, <1>5 DEF BoxEqual
  <2>3. QED
    BY <2>1, <2>2, <1>5 DEF Equal
<1>6. CASE s = "bool" /\ t = "bool"
  <2>1. PICK c \in BOOLEAN, d \in BOOLEAN : v = BoolPair(c) /\ w = BoolPair(d)
    BY <1>6, ValueAgrees
  <2>2. BoxEqual(v.bits, w.bits) = (v.bits = w.bits)
    BY <1>1, <1>6 DEF BoxEqual
  <2>3. /\ v.bits = BoolBits(c) /\ w.bits = BoolBits(d)
        /\ v.tagged.as = (IF c THEN {Low} ELSE {}) /\ w.tagged.as = (IF d THEN {Low} ELSE {})
    BY <2>1 DEF BoolPair, BoolValue
  <2>4. v.bits = w.bits <=> (c <=> d)
    BY <2>3, BoolAgrees
  <2>5. v.tagged.as = w.tagged.as <=> (c <=> d)
    BY <2>3
  <2>6. Equal(v.tagged, w.tagged) <=> v.tagged.as = w.tagged.as
    BY <1>6 DEF Equal
  <2>7. QED
    BY <2>2, <2>4, <2>5, <2>6
<1>7. QED
  BY <1>1, <1>2, <1>3, <1>4, <1>5, <1>6

LEMMA SameFalsey ==
  ASSUME NEW v \in Pairs
  PROVE  Falsey(v.tagged) <=> BoxFalsey(v.bits)
<1>1. /\ BoxIsNil(v.bits) = (v.tagged.type = "nil") /\ BoxIsBool(v.bits) = (v.tagged.type = "bool")
  BY ValueAgrees DEF Agrees
<1>2. CASE v.tagged.type = "bool"
  <2>1. PICK c \in BOOLEAN : v = BoolPair(c)
    BY <1>2, ValueAgrees
  <2>2. v.tagged = BoolValue(c) /\ BoxAsBool(v.bits) = c
    BY <2>1, BoolAgrees DEF BoolPair
  <2>3. BoolValue(c) = BoolValue(FALSE) <=> ~c
    BY DEF BoolValue, Low
  <2>4. QED
    BY <1>1, <1>2, <2>2, <2>3 DEF Falsey, BoxFalsey
<1>3. CASE v.tagged.type # "bool"
  <2>1. v.tagged # BoolValue(FALSE)
    BY <1>3 DEF BoolValue
  <2>2. QED
    BY <1>1, <1>3, <2>1 DEF Falsey, BoxFalsey
<1>4. QED
  BY <1>2, <1>3

-------------------------------------------------------------------------------
(* Everything on the stack is a value in both representations; a result    *)
(* is one because the comparisons agree.                                   *)
BoxingInv == pairs \in Seq(Pairs)

LEMMA ResultIsValue ==
  ASSUME NEW p, NEW q, p \in BOOLEAN, q \in BOOLEAN, p <=> q
  PROVE  Result(p, q) \in Pairs
<1>1. p = q
  OBVIOUS
<1>2. Result(p, q) = BoolPair(p)
  BY <1>1 DEF Result, BoolPair
<1>3. QED
  BY <1>2 DEF Pairs

LEMMA FrontLast ==
  ASSUME NEW s \in Seq(Pairs), s # <<>>
  PROVE  Front(s) \in Seq(Pairs) /\ Last(s) \in Pairs /\ Len(Front(s)) = Len(s) - 1
<1>1. Len(s) \in Nat /\ Len(s) > 0
  BY EmptySeq, LenProperties
<1>2. Last(s) \in Pairs
  BY <1>1, ElementOfSeq DEF Last
<1>3. SubSeq(s, 1, Len(s) - 1) \in Seq(Pairs)
  BY <1>1
<1>4. Len(SubSeq(s, 1, Len(s) - 1)) = Len(s) - 1
  <2>1. \A k \in 1 .. Len(s) - 1 : s[k] \in Pairs
    BY <1>1, ElementOfSeq
  <2>2. Len(SubSeq(s, 1, Len(s) - 1)) =
          IF 1 <= Len(s) - 1 THEN (Len(s) - 1) - 1 + 1 ELSE 0
    BY <2>1, <1>1, SubSeqProperties
  <2>3. Len(s) \in Nat \ {0}
    BY <1>1
  <2>4. \A n \in Nat \ {0} : (IF 1 <= n - 1 THEN (n - 1) - 1 + 1 ELSE 0) = n - 1
    OBVIOUS
  <2>5. QED
    BY <2>2, <2>3, <2>4
<1>5. QED
  BY <1>2, <1>3, <1>4 DEF Front

LEMMA BoxingNextKeeps ==
  ASSUME BoxingInv, BoxingNext
  PROVE  BoxingInv'
<1>1. pairs \in Seq(Pairs) /\ Len(pairs) \in Nat
  BY LenProperties DEF BoxingInv
<1>2. pairs # <<>> =>
        Front(pairs) \in Seq(Pairs) /\ Last(pairs) \in Pairs /\ Len(Front(pairs)) = Len(pairs) - 1
  BY <1>1, FrontLast
<1>3. CASE PushPair
  BY <1>1, <1>3, AppendProperties DEF PushPair, BoxingInv
<1>4. CASE PopPair
  BY <1>2, <1>4 DEF PopPair, BoxingInv
<1>5. CASE OpEqual
  <2>1. Len(pairs) >= 2
    BY <1>5 DEF OpEqual
  <2>2. Front(pairs) \in Seq(Pairs) /\ Last(pairs) \in Pairs /\ Front(pairs) # <<>>
    <3>1. pairs # <<>>
      BY <2>1, EmptySeq
    <3>2. Len(Front(pairs)) > 0
      BY <3>1, <2>1, <1>1, <1>2
    <3>3. QED
      BY <3>1, <3>2, <1>2, EmptySeq
  <2>3. PICK f : f = Front(Front(pairs))
    OBVIOUS
  <2>4. PICK x : x = Last(pairs)
    OBVIOUS
  <2>5. PICK y : y = Last(Front(pairs))
    OBVIOUS
  <2>6. f \in Seq(Pairs) /\ x \in Pairs /\ y \in Pairs
    BY <2>2, <2>3, <2>4, <2>5, FrontLast
  <2>7. PICK p : p = Equal(x.tagged, y.tagged)
    OBVIOUS
  <2>8. PICK q : q = BoxEqual(x.bits, y.bits)
    OBVIOUS
  <2>9. p \in BOOLEAN /\ q \in BOOLEAN
    BY <2>7, <2>8 DEF Equal, BoxEqual, SameDouble
  <2>10. p <=> q
    BY <2>6, <2>7, <2>8, SameEqual
  <2>11. Result(p, q) \in Pairs
    BY <2>9, <2>10, ResultIsValue
  <2>12. pairs' = Append(f, Result(p, q))
    BY <1>5, <2>3, <2>4, <2>5, <2>7, <2>8 DEF OpEqual
  <2>13. QED
    BY <2>6, <2>11, <2>12, AppendProperties DEF BoxingInv
<1>6. CASE OpNot
  <2>1. Front(pairs) \in Seq(Pairs) /\ Last(pairs) \in Pairs
    BY <1>2, <1>6 DEF OpNot
  <2>2. PICK p : p = Falsey(Last(pairs).tagged)
    OBVIOUS
  <2>3. PICK q : q = BoxFalsey(Last(pairs).bits)
    OBVIOUS
  <2>4. p \in BOOLEAN /\ q \in BOOLEAN
    BY <2>2, <2>3 DEF Falsey, BoxFalsey
  <2>5. p <=> q
    BY <2>1, <2>2, <2>3, SameFalsey
  <2>6. Result(p, q) \in Pairs /\ pairs' = Append(Front(pairs), Result(p, q))
    BY <1>6, <2>2, <2>3, <2>4, <2>5, ResultIsValue DEF OpNot
  <2>7. QED
    BY <2>1, <2>6, AppendProperties DEF BoxingInv
<1>7. QED
  BY <1>3, <1>4, <1>5, <1>6 DEF BoxingNext

(* However long a program computes, each value it has is in both           *)
(* representations the same.                                               *)
THEOREM SpecBoxing == BoxingSpec => []BoxingInv
<1>1. BoxingInit => BoxingInv
  BY DEF BoxingInit, BoxingInv
<1>2. BoxingInv /\ [BoxingNext]_pairs => BoxingInv'
  <2>1. BoxingInv /\ UNCHANGED pairs => BoxingInv'
    BY DEF BoxingInv
  <2>2. QED
    BY <2>1, BoxingNextKeeps
<1>3. QED
  BY <1>1, <1>2, PTL DEF BoxingSpec

(* A box is of the type that its tag says and of no other, and its content *)
(* comes back (the macros of value.h under NAN_BOXING).                    *)
THEOREM BoxesAgree == BoxingSpec => []BoxedAsTagged
<1>1. BoxingInv => BoxedAsTagged
  <2> SUFFICES ASSUME BoxingInv, NEW i \in DOMAIN pairs
               PROVE  Agrees(pairs[i].tagged, pairs[i].bits)
    BY DEF BoxedAsTagged, Agrees
  <2>1. pairs[i] \in Pairs
    BY ElementOfSeq, LenProperties DEF BoxingInv
  <2>2. QED
    BY <2>1, ValueAgrees
<1>2. QED
  BY <1>1, SpecBoxing, PTL
================================================================================
