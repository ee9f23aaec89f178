------------------------------ MODULE RootingCases ------------------------------
(***************************************************************************)
(* Rooting on small instances: operations in any order, of one of four     *)
(* kinds.                                                                  *)
(*   strings   lines that make, concatenate and store strings              *)
(*   closures  lines that declare, capture, store and call functions       *)
(*   nested    a line whose code has a function around a function, which   *)
(*             capture what they can, and lines without code after it      *)
(*   classes   a line whose code has a method, about two classes, an       *)
(*             instance and a bound method, and lines without code after it*)
(***************************************************************************)
EXTENDS Rooting

VARIABLE program     \* which of the four

CasesRoom == [string |-> 4, native |-> 1, function |-> 3, closure |-> 3,
              upvalue |-> 3, class |-> 2, instance |-> 1, bound |-> 1]

S(i) == <<"string", i>>
F(i) == <<"function", i>>
C(i) == <<"closure", i>>

(* The first line is compiled and about to run.  That of the classes has   *)
(* as its constants a name and a method of that name; that of the nested   *)
(* functions has a function, which has another.                            *)
Compiled(functions, constants) ==
  /\ objects = {S(1), S(2), S(3), <<"native", 1>>} \cup {F(i) : i \in functions}
               \cup {C(i) : i \in functions}
  /\ refs = {<<C(i), F(i)>> : i \in functions} \cup {<<F(i), S(3)>> : i \in functions} \cup constants
  /\ stack = [i \in 1 .. StackMax |-> IF i = 1 THEN C(1) ELSE Nil] /\ top = 1
  /\ frames = <<[closure |-> C(1), slot |-> 1]>>
  /\ globals = {<<S(2), <<"native", 1>>>>} /\ init = S(1)
  /\ open = {} /\ compilers = <<>> /\ todo = <<>> /\ var = <<>>

CasesInit == \/ program \in {"strings", "closures"} /\ RootingInit
             \/ program = "classes" /\ Compiled(1 .. 2, {<<F(1), C(2)>>})
             \/ program = "nested" /\ Compiled(1 .. 3, {<<F(1), C(2)>>, <<F(2), C(3)>>})

Lines == \/ BeginScript \/ EndScript \/ OpPop \/ OpReturn \/ RuntimeError
         \/ program # "nested" /\ (OpSetGlobal \/ OpGetGlobal)

StringLines  == program = "strings"  /\ (Constant \/ OpConst \/ OpAdd)
ClosureLines == program = "closures" /\ (BeginFunction \/ EndFunction \/ OpClosure
                                         \/ OpCall \/ OpCloseUpvalue)
NestedLines  == program = "nested"   /\ (OpClosure \/ OpCall \/ OpCloseUpvalue)
ClassLines   == program = "classes"  /\ (OpConst \/ OpClosure \/ OpCall \/ OpClass
                                         \/ OpMethod \/ OpInherit \/ OpSetProperty
                                         \/ OpGetProperty \/ OpGetSuper)

CasesNext ==
  /\ VmInit \/ Lines \/ StringLines \/ ClosureLines \/ NestedLines \/ ClassLines \/ Statement \/ Collect
  /\ UNCHANGED program

(* Bounds: one script at a time with one string constant; no captures and  *)
(* no strings among the values of the classes, and two frames.             *)
Count(k) == Cardinality(Held(objects, k))
CasesBounded ==
  /\ todo = <<>> => Cardinality(objects \ Reachable) <= IF program = "strings" THEN 2 ELSE 1
  /\ program = "strings" =>
       /\ Count("function") <= 1 /\ Cardinality(globals) <= 1
       /\ \A f \in Held(objects, "function") : Cardinality(Held(Children(f), "string")) <= 1
  /\ program = "closures" =>
       /\ Count("function") <= 2 /\ Count("closure") <= 2 /\ Count("upvalue") <= 1
  /\ program = "nested" =>
       /\ Len(frames) <= 2 /\ Count("upvalue") <= 2
       /\ todo = <<>> => top < StackMax
  /\ program = "classes" =>
       /\ Count("function") <= 2 /\ Count("closure") <= 2
       /\ Count("upvalue") = 0 /\ Held(Values, "string") = {} /\ Len(frames) <= 2
       /\ \A o \in Held(objects, "instance") : Cardinality(Children(o)) <= 3
       /\ todo = <<>> => top < StackMax
       /\ Held(objects, "instance") = {} \/ Cardinality(Held(Values, "class")) <= 1

(* What nothing reads is left out: slots above the top that no upvalue has,*)
(* C variables that no step names.                                         *)
StillRead == UNION {todo[i].reads : i \in DOMAIN todo}
             \cup {todo[i].args[2] : i \in {j \in DOMAIN todo : todo[j].do = "again"}}
             \cup UNION {todo[i].args[3] : i \in {j \in DOMAIN todo : todo[j].do = "capture"}}
CasesView ==
  <<program, objects, refs, top,
    [i \in 1 .. StackMax |->
       IF i <= top \/ \E u \in open : u[2] = i THEN stack[i] ELSE Nil],
    frames, globals, init, open, compilers, todo, [v \in StillRead \cap DOMAIN var |-> var[v]]>>
===============================================================================
