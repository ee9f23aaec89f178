--------------------------------- MODULE Heap ---------------------------------
(***************************************************************************)
(* What a garbage collector promises, with no mark bit and no list in      *)
(* sight: objects come into being, the program moves its references about, *)
(* and now and then, in one step, exactly the objects that cannot be       *)
(* reached from the roots cease to exist.                                  *)
(***************************************************************************)

CONSTANT Obj       \* the addresses objects may have

VARIABLES live,    \* the objects that exist
          edges,   \* <<o, p>>: o refers to p
          roots    \* the objects the program refers to directly

Closed(C) == /\ roots \subseteq C
             /\ \A e \in edges : e[1] \in C => e[2] \in C

(* The least set that has the roots and is closed under reference.         *)
Reachable == {o \in Obj : \A C \in SUBSET Obj : Closed(C) => o \in C}

Init == live = {} /\ edges = {} /\ roots = {}

(* Whatever the program does with what exists, no reference is left        *)
(* without an object.                                                      *)
WellFormed == roots \subseteq live /\ edges \subseteq live \X live

Allocate(o) == /\ o \in Obj \ live
               /\ live' = live \cup {o}
               /\ WellFormed'

Mutate == live' = live /\ WellFormed'

Collect == /\ live' = Reachable
           /\ edges' = edges \cap (Reachable \X Reachable)
           /\ UNCHANGED roots

Next == Mutate \/ Collect \/ \E o \in Obj : Allocate(o)

Spec == Init /\ [][Next]_<<live, edges, roots>>
===============================================================================
