------------------------------ MODULE Resolution ------------------------------
(***************************************************************************)
(* How the compiler finds the variable that a name means (src/src/         *)
(* compiler.c): a chain of Compilers, one for each function being compiled,*)
(* each with its locals and with the upvalues its closure will capture.    *)
(* A name that is not a local of the function becomes an upvalue of every  *)
(* function between the use and the declaration.                           *)
(*                                                                         *)
(* An action is a step of the parser; any source is any sequence of them.  *)
(* Locals and upvalues are counted from 1; local 1 is slot 0 of the frame. *)
(***************************************************************************)
EXTENDS Integers, Sequences, SequencesExt

CONSTANTS
  Name,        \* identifiers
  FunctionMax, \* bound: functions inside one another, the script included
  LocalMax,    \* MAX_LOCALVAR, which add_local does not check: a bound
  DepthMax,    \* bound: scopes inside one another in a function
  UpvalMax     \* MAX_UPVALUE

ASSUME ResolutionAssumption ==
  /\ {"this", "super", ""} \cap Name = {}
  /\ {FunctionMax, LocalMax, DepthMax, UpvalMax} \subseteq Nat \ {0}
  /\ LocalMax >= 2 /\ DepthMax >= 2

VARIABLES
  chain,       \* the Compilers, current last: [locals, upvals, depth, inside]
  emitted,     \* the instructions of the last step
  failed       \* has an error been reported?

resolution == <<chain, emitted, failed>>

(* chain[k].inside: the constructs being parsed in function k, the last    *)
(* one innermost.  A class has its ClassCompiler there.                    *)
Block == [what |-> "block", super |-> FALSE]
ClassBody(super) == [what |-> "class", super |-> super]

Current == Len(chain)
Here    == chain[Current]
InBody(compiler) == compiler.inside # <<>> /\ Last(compiler.inside).what = "class"
InClassBody == InBody(Here)

(* `used' is for the properties: does an inner function use the variable?  *)
Local(name, depth) ==
  [name |-> name, depth |-> depth, captured |-> FALSE, used |-> FALSE]

-------------------------------------------------------------------------------
(* What names mean: the innermost declaration, in the innermost function   *)
(* that has one.  A variable is a function and a local of it.              *)

Matches(c, k, name) == {i \in DOMAIN c[k].locals : c[k].locals[i].name = name}
Owners(c, name) == {k \in DOMAIN c : Matches(c, k, name) # {}}

Highest(S) == CHOOSE i \in S : \A j \in S : j <= i

Lexical(c, name) ==
  LET o == Highest(Owners(c, name))
  IN [function |-> o, local |-> Highest(Matches(c, o, name))]

-------------------------------------------------------------------------------
(* Finding a name, in the chain c.                                         *)

(* Mutant: the first local of the name.                                    *)
ResolveLocalFirst(c, k, name) ==
  CHOOSE i \in Matches(c, k, name) : \A j \in Matches(c, k, name) : i <= j

(* resolve_local: from the last local of function k down.                  *)
ResolveLocal(c, k, name) ==
  CHOOSE i \in Matches(c, k, name) : \A j \in Matches(c, k, name) : j <= i

Same(u, v) == u.index = v.index /\ u.local = v.local

(* add_upvalue: u is at i, where it was or at the end.                     *)
Has(upvals, u) == \E j \in DOMAIN upvals : Same(upvals[j], u)
At(upvals, u, i) ==
  IF Has(upvals, u) THEN i \in DOMAIN upvals /\ Same(upvals[i], u) ELSE i = Len(upvals) + 1
(* Mutant: a second capture of a variable has an upvalue of its own.       *)
WithAlways(upvals, u) == Append(upvals, u)

With(upvals, u) == IF Has(upvals, u) THEN upvals ELSE Append(upvals, u)

(* Mutant: every function takes the variable from the one around it as if  *)
(* it were a local of that.                                                *)
CaptureAsLocal(k, o, i, where, of) ==
  [index |-> IF k = o + 1 THEN i ELSE where[k - 1], local |-> TRUE, of |-> of]

(* What function k captures for local i of function o, if function k - 1   *)
(* has it at where[k - 1].  `of' is for the properties.                    *)
Capture(k, o, i, where, of) ==
  IF k = o + 1 THEN [index |-> i, local |-> TRUE, of |-> of]
               ELSE [index |-> where[k - 1], local |-> FALSE, of |-> of]

Used(locals, k, v) == [i \in DOMAIN locals |->
  IF v = [function |-> k, local |-> i] THEN [locals[i] EXCEPT !.used = TRUE] ELSE locals[i]]

Inst(op, arg, name) == <<[op |-> op, arg |-> arg, name |-> name]>>

(* Mutant: the local is not marked.                                        *)
MarkNothing(locals, i) == locals

Mark(locals, i) == [locals EXCEPT ![i].captured = TRUE]

(* resolve_upvalue: the nearest function around that has the name gives    *)
(* its local to the next one in, that one to the next, up to this one.     *)
ResolveUpvalue(c, name) ==
  LET o  == Highest(Owners(c, name))
      i  == ResolveLocal(c, o, name)
      of == Lexical(c, name)
  IN IF \E k \in o + 1 .. Current : Len(c[k].upvals) >= UpvalMax
     THEN failed' = TRUE /\ UNCHANGED <<chain, emitted>>
     ELSE \E where \in [o + 1 .. Current -> 1 .. UpvalMax] :
            /\ \A k \in o + 1 .. Current :
                 At(c[k].upvals, Capture(k, o, i, where, of), where[k])
            /\ chain' = [k \in DOMAIN c |->
                 IF k < o THEN c[k]
                 ELSE IF k = o THEN [c[k] EXCEPT !.locals = Used(Mark(@, i), k, of)]
                 ELSE [c[k] EXCEPT !.upvals = With(@, Capture(k, o, i, where, of))]]
            /\ emitted' = Inst("GET_UPVAL", where[Current], name)
            /\ UNCHANGED failed

(* variable(): a local, an upvalue or else a global.                       *)
Variable(c, name) ==
  IF Matches(c, Current, name) # {}
  THEN /\ emitted' = Inst("GET_LOCAL", ResolveLocal(c, Current, name), name)
       /\ chain' = c /\ UNCHANGED failed
  ELSE IF Owners(c, name) # {} THEN ResolveUpvalue(c, name)
  ELSE /\ emitted' = Inst("GET_GLOBAL", 0, name)
       /\ chain' = c /\ UNCHANGED failed

-------------------------------------------------------------------------------
(* Declarations and scopes.                                                *)

Redeclared(name) ==
  Here.depth > 0 /\ \E i \in Matches(chain, Current, name) : Here.locals[i].depth >= Here.depth

Fail == failed' = TRUE /\ UNCHANGED <<chain, emitted>>

(* The current Compiler after declaring a variable: at depth 0 of the      *)
(* script the variable is global.                                          *)
Declaring(name) ==
  IF Here.depth = 0 THEN Here
  ELSE [Here EXCEPT !.locals = Append(@, Local(name, Here.depth))]

HasRoom(n) == Len(Here.locals) + n <= LocalMax            \* bound

Become(compiler) == chain' = [chain EXCEPT ![Current] = compiler]

Declare(name) ==
  /\ ~failed /\ ~InClassBody /\ HasRoom(1)
  /\ IF Redeclared(name) THEN Fail
     ELSE Become(Declaring(name)) /\ emitted' = <<>> /\ UNCHANGED failed

Use(name) == ~failed /\ ~InClassBody /\ Variable(chain, name)

BeginBlock ==
  /\ ~failed /\ ~InClassBody /\ Here.depth < DepthMax       \* bound
  /\ Become([Here EXCEPT !.depth = @ + 1, !.inside = Append(@, Block)])
  /\ emitted' = <<>> /\ UNCHANGED failed

(* The locals that stay: up to the last one of a scope outside.            *)
Kept(compiler) ==
  Highest({0} \cup {i \in DOMAIN compiler.locals :
                       compiler.locals[i].depth < compiler.depth})

(* Mutant: the scope's variables stay declared.                            *)
EndScopeKeeps(compiler) ==
  [compiler EXCEPT !.depth = @ - 1, !.inside = Front(@)]

(* end_scope: the locals of the scope go, the last one first.              *)
EndScope(compiler) ==
  [compiler EXCEPT !.depth  = @ - 1,
                   !.inside = Front(@),
                   !.locals = SubSeq(@, 1, Kept(compiler))]

Released(compiler) ==
  LET n == Len(compiler.locals)
  IN [i \in 1 .. n - Kept(compiler) |->
        [op |-> IF compiler.locals[n + 1 - i].captured THEN "CLOSE_UPVAL" ELSE "POP"]]

EndBlock ==
  /\ ~failed /\ Here.inside # <<>> /\ Last(Here.inside) = Block
  /\ Become(EndScope(Here))
  /\ emitted' = Released(Here) /\ UNCHANGED failed

-------------------------------------------------------------------------------
(* Functions and classes.                                                  *)

(* function(): slot 0, the parameters in a scope, the body in another.     *)
BeginFunction(params) ==
  /\ ~failed /\ Current < FunctionMax                       \* bound
  /\ LET slot0 == IF InClassBody THEN "this" ELSE ""
     IN chain' = Append(chain,
          [locals |-> <<Local(slot0, 0)>> \o [i \in DOMAIN params |-> Local(params[i], 1)],
           upvals |-> <<>>, depth |-> 2, inside |-> <<>>])
  /\ emitted' = <<>> /\ UNCHANGED failed

(* The closure and a descriptor for each upvalue go to the function around.*)
EndFunction ==
  /\ ~failed /\ Current > 1 /\ Here.inside = <<>>
  /\ chain' = Front(chain)
  /\ emitted' = <<[op |-> "CLOSURE", upvals |-> Here.upvals]>>
  /\ UNCHANGED failed

(* The name of the class is declared.  With a superclass, a variable that  *)
(* is looked up, the methods are in a scope with the variable `super'.     *)
Subclass(compiler) ==
  [compiler EXCEPT !.depth  = @ + 1,
                   !.inside = Append(@, ClassBody(TRUE)),
                   !.locals = Append(@, Local("super", compiler.depth + 1))]

BeginClass(name) ==
  /\ ~failed /\ ~InClassBody /\ HasRoom(1)
  /\ IF Redeclared(name) THEN Fail
     ELSE /\ Become([Declaring(name) EXCEPT !.inside = Append(@, ClassBody(FALSE))])
          /\ emitted' = <<>> /\ UNCHANGED failed

BeginSubclass(name, superclass) ==
  /\ ~failed /\ ~InClassBody /\ HasRoom(2) /\ Here.depth < DepthMax
  /\ IF Redeclared(name) THEN Fail
     ELSE Variable([chain EXCEPT ![Current] = Subclass(Declaring(name))], superclass)

EndClass ==
  /\ ~failed /\ InClassBody
  /\ IF Last(Here.inside).super
     THEN Become(EndScope(Here)) /\ emitted' = Released(Here)
     ELSE Become([Here EXCEPT !.inside = Front(@)]) /\ emitted' = <<>>
  /\ UNCHANGED failed

(* cur_cls is the class whose body is being parsed in the innermost of the *)
(* functions that are in one.                                              *)
Bodies   == {k \in DOMAIN chain : InBody(chain[k])}
CurClass == Last(chain[Highest(Bodies)].inside)

(* `this' and `super' are variables like others.  (A `super' loads `this'  *)
(* first, as UseThis does.)                                                *)
UseThis ==
  /\ ~failed /\ ~InClassBody
  /\ IF Bodies = {} THEN Fail ELSE Variable(chain, "this")

(* Mutant: a class is enough, with or without a superclass.                *)
UseSuperAnyClass ==
  /\ ~failed /\ ~InClassBody
  /\ IF Bodies = {} THEN Fail ELSE Variable(chain, "super")

UseSuper ==
  /\ ~failed /\ ~InClassBody
  /\ IF Bodies = {} \/ ~CurClass.super THEN Fail ELSE Variable(chain, "super")

Stop == failed /\ UNCHANGED resolution

Init ==
  /\ chain = <<[locals |-> <<Local("", 0)>>, upvals |-> <<>>, depth |-> 0, inside |-> <<>>]>>
  /\ emitted = <<>> /\ failed = FALSE

Next ==
  \/ \E n \in Name : Declare(n) \/ Use(n)
  \/ BeginBlock \/ EndBlock
  \/ (\E params \in {<<>>} \cup {<<n>> : n \in Name} : BeginFunction(params))
  \/ EndFunction
  \/ \E n \in Name : BeginClass(n) \/ \E m \in Name : BeginSubclass(n, m)
  \/ EndClass \/ UseThis \/ UseSuper \/ Stop

Spec == Init /\ [][Next]_resolution

-------------------------------------------------------------------------------
(* Properties.                                                             *)

Variables == [function : Nat, local : Nat]

Locals == [name : Name \cup {"this", "super", ""}, depth : 0 .. DepthMax,
           captured : BOOLEAN, used : BOOLEAN]
Descriptors == [index : Nat \ {0}, local : BOOLEAN, of : Variables]
Constructs  == {Block, ClassBody(TRUE), ClassBody(FALSE)}
Compilers == [locals : Seq(Locals), upvals : Seq(Descriptors), depth : 0 .. DepthMax,
              inside : Seq(Constructs)]

Instructions ==
  [op : {"GET_LOCAL", "GET_UPVAL", "GET_GLOBAL"}, arg : Nat, name : Name \cup {"this", "super"}]
    \cup [op : {"POP", "CLOSE_UPVAL"}]
    \cup [op : {"CLOSURE"}, upvals : Seq(Descriptors)]

TypeOK ==
  /\ chain \in Seq(Compilers) /\ chain # <<>> /\ Len(chain) <= FunctionMax
  /\ \A k \in DOMAIN chain : /\ chain[k].locals # <<>> /\ Len(chain[k].locals) <= LocalMax
                             /\ Len(chain[k].upvals) <= UpvalMax
  /\ emitted \in Seq(Instructions)
  /\ failed \in BOOLEAN

(* What a descriptor says, followed from function to function, leads to the*)
(* variable that the name meant where it was used, and to no other, although*)
(* the name may mean something else to the functions between.              *)
Denotes(c, k, u) ==
  IF u.local THEN u.of = [function |-> k - 1, local |-> u.index]
  ELSE /\ u.index \in DOMAIN c[k - 1].upvals
       /\ c[k - 1].upvals[u.index].of = u.of

DescriptorsDenote ==
  \A k \in DOMAIN chain : \A j \in DOMAIN chain[k].upvals :
    k > 1 /\ Denotes(chain, k, chain[k].upvals[j])

(* A closure captures a variable once: two would have their own cell       *)
(* each after the variable is closed, and assignments would part them.     *)
CapturedOnce ==
  \A k \in DOMAIN chain : \A i, j \in DOMAIN chain[k].upvals :
    chain[k].upvals[i].of = chain[k].upvals[j].of => i = j

(* A variable that an inner function uses is marked, and no other is: the  *)
(* end of its scope closes it instead of popping it.                       *)
CapturedIffUsed ==
  \A k \in DOMAIN chain : \A i \in DOMAIN chain[k].locals :
    chain[k].locals[i].captured = chain[k].locals[i].used

(* The instruction for a name reads the innermost variable of that name;   *)
(* `this' is slot 0 of the innermost method, `super' the variable of the   *)
(* innermost class, and never what a class around that one has.            *)
Meaning(name) ==
  CASE name = "this"  -> [function |-> Highest(Bodies) + 1, local |-> 1]
    [] name = "super" -> [function |-> Highest(Bodies),
                          local |-> Len(chain[Highest(Bodies)].locals)]
    [] OTHER          -> Lexical(chain, name)

Reads(inst) ==
  CASE inst.op = "GET_LOCAL" -> Meaning(inst.name) = [function |-> Current, local |-> inst.arg]
    [] inst.op = "GET_UPVAL" -> /\ inst.arg \in DOMAIN Here.upvals
                                /\ Here.upvals[inst.arg].of = Meaning(inst.name)
    [] inst.op = "GET_GLOBAL" -> Owners(chain, inst.name) = {} /\ inst.name \in Name
    [] OTHER -> TRUE

AllRead == ~failed => \A i \in DOMAIN emitted : Reads(emitted[i])
NamesMeanInnermost == [][AllRead']_resolution
===============================================================================
