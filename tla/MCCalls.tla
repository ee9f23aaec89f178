-------------------------------- MODULE MCCalls --------------------------------
(***************************************************************************)
(* A small program for Calls:                                              *)
(*   class A { m() {} }                                                    *)
(*   class B < ... { init(x) {}  m() {} }                                  *)
(*   fun f() {}                                                            *)
(***************************************************************************)
EXTENDS Calls, FiniteSets, TLC

CONSTANTS A, B, am, binit, bm, fun, initName, m, MaxOperands, MaxStored

Arities  == am :> 0 @@ binit :> 1 @@ bm :> 0 @@ fun :> 0
Owners   == am :> A @@ binit :> B @@ bm :> B @@ fun :> Absent
Bodies   == A :> <<[name |-> m, method |-> am]>>
              @@ B :> <<[name |-> initName, method |-> binit], [name |-> m, method |-> bm]>>
Subclass == A :> FALSE @@ B :> TRUE

(* Bounds: operands in a frame; values that fields, globals and closed     *)
(* upvalues keep, and variables that functions and blocks declare or that  *)
(* closures capture; a full stack is not continued, and lines after the    *)
(* first, and what runs when a value is kept, have a slot less.            *)
Count(i, kinds) == Len(SelectSeq(shapes[i], LAMBDA k : k \in kinds))

FewOperands == \A i \in DOMAIN shapes : Count(i, {"operand", "this"}) <= MaxOperands

NumStored ==
  Cardinality({<<i, n>> \in Instance \X Name : fields[i][n] # Absent})
    + Cardinality({x \in Global : globals[x] # Absent}) + Cardinality(closed)

NumDeclared == LET declaredIn == [i \in DOMAIN frames |->
                     Count(i, {"local", "captured"})
                       - (IF frames[i].closure = Script THEN 0 ELSE Arity[frames[i].closure])]
               IN FoldSeq(+, 0, declaredIn)

FewStored == /\ NumDeclared <= 1 /\ Cardinality(Captured) <= 1
             /\ NumStored + (IF Captured = {} THEN NumDeclared ELSE 1) <= MaxStored

NotFull == Len(stack) < (IF line = 1 /\ NumStored = 0 THEN StackMax ELSE StackMax - 1)
================================================================================
