------------------------------ MODULE Activations ------------------------------
(***************************************************************************)
(* What calls promise: each activation of a function has values of its own.*)
(* The running one changes them, a call moves the callee and the arguments *)
(* to a new activation, and a return gives the caller one value.  Nothing  *)
(* else changes in an activation that waits, but for the variables it      *)
(* shares with closures: an assignment changes one of them.                *)
(***************************************************************************)
EXTENDS Integers, Sequences

VARIABLES
  acts,     \* the values of each activation, the running one last
  shared    \* where in each activation its shared variables are

Running == Len(acts)

(* The first n activations are as before.                                  *)
Kept(n) == /\ n <= Len(acts') /\ \A i \in 1 .. n : acts'[i] = acts[i]
           /\ n <= Len(shared') /\ \A i \in 1 .. n : shared'[i] = shared[i]

Start == acts = <<>> /\ Len(acts') = 1 /\ Len(acts'[1]) = 1 /\ shared' = <<{}>>

(* A variable is shared until it ends.                                     *)
Compute ==
  /\ acts # <<>> /\ Len(acts') = Len(acts)
  /\ Kept(Running - 1)
  /\ \A j \in shared[Running] : j \in shared'[Running] \/ j > Len(acts'[Running])

(* A shared variable of any activation is assigned.                        *)
Assign ==
  /\ Len(acts') = Running
  /\ \E i \in 1 .. Running :
       /\ Len(acts'[i]) = Len(acts[i])
       /\ \E j \in shared[i] : acts' = [acts EXCEPT ![i][j] = acts'[i][j]]
  /\ UNCHANGED shared

Call ==
  /\ acts # <<>> /\ Len(acts') = Running + 1
  /\ Kept(Running - 1)
  /\ LET caller == acts[Running]
         left   == acts'[Running]
         callee == acts'[Running + 1]
     IN /\ Len(left) + Len(callee) = Len(caller) /\ callee # <<>>
        /\ left = SubSeq(caller, 1, Len(left))
        /\ Tail(callee) = SubSeq(caller, Len(left) + 2, Len(caller))
  /\ shared' = Append(shared, {})

Return ==
  /\ Running > 1 /\ Len(acts') = Running - 1
  /\ Kept(Running - 2)
  /\ Len(acts'[Running - 1]) = Len(acts[Running - 1]) + 1
  /\ SubSeq(acts'[Running - 1], 1, Len(acts[Running - 1])) = acts[Running - 1]
  /\ shared' = SubSeq(shared, 1, Running - 1)

(* The script ends, or an error ends them all.                             *)
Stop == acts' = <<>> /\ shared' = <<>>

Init == acts = <<>> /\ shared = <<>>
Next == Start \/ Compute \/ Assign \/ Call \/ Return \/ Stop
Spec == Init /\ [][Next]_<<acts, shared>>
================================================================================
