------------------------------ MODULE Dictionary ------------------------------
(***************************************************************************)
(* What the tables of globals, fields and methods promise: each is a map   *)
(* from names to values, and looking up gives what was put there last.     *)
(***************************************************************************)
CONSTANTS Owner, Key, Value, Null

VARIABLES
  map,      \* map[o][k]: the value of k for owner o, or Null
  answer    \* what the last operation returned

Empty == [k \in Key |-> Null]

Init == map = [o \in Owner |-> Empty] /\ answer = Null

Set(o, k, v) ==
  /\ answer' = (map[o][k] # Null)
  /\ map'    = [map EXCEPT ![o][k] = v]

Get(o, k) == answer' = map[o][k] /\ UNCHANGED map

New(o) == answer' = Null /\ map' = [map EXCEPT ![o] = Empty]

AddAll(dest, src) ==
  /\ map[dest] = Empty
  /\ answer' = Null
  /\ map' = [map EXCEPT ![dest] = map[src]]

Next ==
  \/ \E o \in Owner, k \in Key : Get(o, k) \/ \E v \in Value : Set(o, k, v)
  \/ \E o \in Owner : New(o)
  \/ \E dest, src \in Owner : AddAll(dest, src)

Spec == Init /\ [][Next]_<<map, answer>>
===============================================================================
