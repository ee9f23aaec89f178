------------------------------ MODULE MCUpvalues ------------------------------
(***************************************************************************)
(* Small programs for Upvalues.  Every function has one ClosureObj, and    *)
(* its descriptors are what the compiler emits for a body that names the   *)
(* variables the comment says.                                             *)
(***************************************************************************)
EXTENDS Upvalues, TLC

CONSTANTS fa, fb, fc, fd, fe, ff, fg, fh,
          Programs       \* those of the run

VARIABLE program

Local(index)     == [local |-> TRUE, index |-> index]
Enclosing(index) == [local |-> FALSE, index |-> index]

(***************************************************************************)
(* nested: a function in a block of the script and one nested in it: fa(p) *)
(*   captures the block's first local, fb captures p and, through fa, that *)
(*   local.                                                                *)
(* sibling: two functions side by side, fc and fd, that capture overlapping*)
(*   locals of a block, one of them out of the order of the stack.         *)
(* prompt: two lines at the prompt, each with a function (fe, ff) that     *)
(*   captures the first local of a block.                                  *)
(* maker: fg(p) returns fh, which captures p, and is called twice.         *)
(***************************************************************************)
Functions == {fa, fb, fc, fd, fe, ff, fg, fh}
Enclosed  == fa :> 1 @@ fb :> fa @@ fc :> 1 @@ fd :> 1 @@ fe :> 1 @@ ff :> 2 @@ fg :> 1 @@ fh :> fg
Arities   == [f \in Functions |-> IF f \in {fa, fg} THEN 1 ELSE 0]
Captures  == fa :> <<Local(1)>> @@ fb :> <<Local(1), Enclosing(0)>>
          @@ fc :> <<Local(2)>> @@ fd :> <<Local(1), Local(3), Local(2)>>
          @@ fe :> <<Local(1)>> @@ ff :> <<Local(1)>>
          @@ fg :> <<>>         @@ fh :> <<Local(1)>>

(* The functions of a program, and the bounds of its run: slots, frames,   *)
(* lines, variables and upvalues at one time, operands on the stack in all *)
(* frames (a call takes Arity + 1), and whether a closure may escape       *)
(* through a global.                                                       *)
Small(F, s, f, l, v, o, escapes) ==
  [functions |-> F, slots |-> s, frames |-> f, lines |-> l, variables |-> v,
   operands |-> o, escapes |-> escapes]
Bounds ==
  [nested  |-> Small({fa, fb}, 7, 3, 1, 4, 2, FALSE),
   sibling |-> Small({fc, fd}, 6, 2, 1, 5, 1, FALSE),
   prompt  |-> Small({fe, ff}, 4, 2, 2, 3, 2, TRUE),
   maker   |-> Small({fg, fh}, 6, 2, 1, 4, 2, FALSE)]
Bound == Bounds[program]

Within ==
  /\ stackTop <= Bound.slots /\ Len(frames) <= Bound.frames /\ line <= Bound.lines
  /\ Cardinality({s \in 0 .. stackTop - 1 : holds[s] = Temp}) <= Bound.operands
  /\ Cardinality(OnStack \cup {owner[u] : u \in Referred}) <= Bound.variables
  /\ Cardinality(Referred) <= 4
  /\ \A s \in Slot : stack[s] \in Bound.functions \cup Data \cup {Script}
  /\ Bound.escapes \/ global \in Data

MCInit == Init /\ program \in Programs
MCNext == Next /\ UNCHANGED program
MCSpec == MCInit /\ [][MCNext]_<<vars, program>>

(***************************************************************************)
(* What distinguishes two states.  Identities of upvalues and of variable  *)
(* instances are replaced by where they first occur, so that states equal  *)
(* up to renaming are one; and what no instruction can read is left out:   *)
(* the fields of garbage and, in a file, the dead slots (OpenLive keeps    *)
(* them out of reach).                                                     *)
(***************************************************************************)
Control ==
  LET refs == open \o FoldSet(LAMBDA f, seq : seq \o closures[f], <<>>, Bound.functions)
      marks == [s \in 1 .. stackTop |-> holds[s - 1]] \o
               [i \in DOMAIN refs |->
                  IF refs[i] = NoUpval THEN Temp ELSE owner[refs[i]]]
      First(x, seq) == CHOOSE i \in DOMAIN seq :
                         seq[i] = x /\ \A j \in 1 .. i - 1 : seq[j] # x
      Fields(u) == <<loc[u], IF loc[u] = Closed THEN cloned[u] ELSE Temp>>
  IN <<stackTop, frames, Len(open), global, line, capturing, captured, failed,
       [i \in DOMAIN refs |-> <<First(refs[i], refs),
          IF refs[i] = NoUpval THEN <<>> ELSE Fields(refs[i])>>],
       [i \in DOMAIN marks |->
          IF marks[i] \in VarId THEN First(marks[i], marks) ELSE marks[i]]>>
View == <<program, Control,
          IF Bound.lines > 1 THEN stack ELSE [s \in 0 .. stackTop - 1 |-> stack[s]]>>
===============================================================================
