------------------------------ MODULE InternPool ------------------------------
(***************************************************************************)
(* What interning promises: one string object for each content, the same   *)
(* one for as long as the program holds it, so that two strings are equal  *)
(* exactly when they are the same object.                                  *)
(***************************************************************************)
CONSTANTS Content, Str

VARIABLES
  pool,    \* <<c, s>>: s is the string with content c
  held     \* the strings that the program can reach

Init == pool = {} /\ held = {}

(* A string that is in the pool is given out again.                        *)
Again(c, s) == <<c, s>> \in pool /\ held' = held \cup {s} /\ UNCHANGED pool

(* Another one is made only for a content that has none.                   *)
Make(c, s) ==
  /\ \A e \in pool : e[1] # c /\ e[2] # s
  /\ pool' = pool \cup {<<c, s>>}
  /\ held' = held \cup {s}

Release(s) == s \in held /\ held' = held \ {s} /\ UNCHANGED pool

Collect == pool' = {e \in pool : e[2] \in held} /\ UNCHANGED held

Next ==
  \/ \E c \in Content, s \in Str : Again(c, s) \/ Make(c, s)
  \/ \E s \in Str : Release(s)
  \/ Collect

Spec == Init /\ [][Next]_<<pool, held>>
===============================================================================
