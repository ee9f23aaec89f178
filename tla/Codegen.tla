-------------------------------- MODULE Codegen --------------------------------
(***************************************************************************)
(* The code that src/src/compiler.c makes for statements: scopes and       *)
(* locals, the jumps of if, while, for, and, or, break and continue, and   *)
(* what must be popped or closed where a scope ends.                       *)
(*                                                                         *)
(* A program is a tree; each operator stands for one parse function and    *)
(* takes the Compiler (a record) to the Compiler after it.  An expression  *)
(* is one instruction EXPR, named by its place in the tree, that pushes a  *)
(* value: what is inside it leaves the stack as it was.  Instructions have *)
(* length one.                                                             *)
(***************************************************************************)
EXTENDS Integers, Sequences, SequencesExt

(* Statements:  expr  return(value)  var(name)  get(name)  fun(name, uses) *)
(*   block(body)  if(cond, then, else)  while(cond, body)                  *)
(*   for(init, cond, inc, body)  break  continue  none                     *)
(* A condition is "one" expression, "and" or "or" of two, or "none".       *)
None == [op |-> "none"]

NewCompiler(type) ==
  [type   |-> type,          \* "script", "function" or "initializer"
   code   |-> <<>>,
   locals |-> <<>>,          \* of [name, depth, captured]; slot 0 is left out
   depth  |-> 0,
   loops  |-> <<>>,          \* innermost last: [breaks, continues, locals]
   error  |-> FALSE,
   across |-> FALSE]         \* did a break or continue leave locals behind?

Inst(op, arg, at) == [op |-> op, arg |-> arg, at |-> at]

Emit(c, op, arg) == [c EXCEPT !.code = Append(@, Inst(op, arg, <<>>))]

(* An instruction that a reader of the source can see being executed.      *)
EmitAt(c, op, arg, at) == [c EXCEPT !.code = Append(@, Inst(op, arg, at))]

Failed(c) == [c EXCEPT !.error = TRUE]

-------------------------------------------------------------------------------
(* Jumps.  The position of a jump is its index once it is emitted.         *)

Here(c) == Len(c.code)

PatchJump(c, p) == [c EXCEPT !.code[p].arg = Here(c) - p]

PatchAll(c, P) == FoldLeft(PatchJump, c, P)

(* Back to the instruction that was emitted after start others.            *)
EmitLoop(c, start) == Emit(c, "LOOP", Here(c) + 1 - start)

-------------------------------------------------------------------------------
(* Scopes.                                                                 *)

BeginScope(c) == [c EXCEPT !.depth = @ + 1]

(* The locals of the scope go, from the last to the first.                 *)
EndScope(c) ==
  LET Dead(l) == l.depth >= c.depth
      dead    == Reverse(SelectSeq(c.locals, Dead))
  IN [c EXCEPT !.locals = SubSeq(@, 1, Len(@) - Len(dead)),
               !.depth  = @ - 1,
               !.code   = @ \o [i \in DOMAIN dead |->
                   Inst(IF dead[i].captured THEN "CLOSE_UPVAL" ELSE "POP", 0, <<>>)]]

AddLocal(c, name) ==
  [c EXCEPT !.locals = Append(@, [name |-> name, depth |-> c.depth, captured |-> FALSE])]

(* At depth 0 the variable is a global; twice in one scope is an error.    *)
DeclareVariable(c, name) ==
  IF c.depth = 0 THEN c
  ELSE IF \E i \in DOMAIN c.locals : c.locals[i].depth = c.depth /\ c.locals[i].name = name
       THEN Failed(c) ELSE AddLocal(c, name)

DefineVariable(c) == IF c.depth > 0 THEN c ELSE Emit(c, "DEFINE_GLOBAL", 0)

(* The slot of the innermost local of that name, or 0 if there is none.    *)
ResolveLocal(c, name) ==
  LET found == {i \in DOMAIN c.locals : c.locals[i].name = name}
  IN IF found = {} THEN 0 ELSE CHOOSE i \in found : \A j \in found : j <= i

Variable(c, name, at) ==
  LET slot == ResolveLocal(c, name)
  IN IF slot # 0 THEN EmitAt(c, "GET_LOCAL", slot, at)
                 ELSE EmitAt(c, "GET_GLOBAL", 0, at)

(* Mutant: the variable is not marked as captured.                         *)
FunctionUnmarked(c, name, at) == EmitAt(c, "CLOSURE", ResolveLocal(c, name), at)

(* resolve_upvalue, for a function directly inside this one: the local is  *)
(* marked as captured.  The closure is one instruction with its captures.  *)
Function(c, name, at) ==
  LET slot == ResolveLocal(c, name)
      d    == IF slot = 0 THEN c ELSE [c EXCEPT !.locals[slot].captured = TRUE]
  IN EmitAt(d, "CLOSURE", slot, at)

-------------------------------------------------------------------------------
(* Expressions.                                                            *)

Expression(c, at) == EmitAt(c, "EXPR", 0, at)

(* Mutant: or jumps when its first operand is false, like and.             *)
OrAsAnd(c, at) ==
  LET skip == Emit(Expression(c, Append(at, 1)), "JMP_IF_FALSE", 0)
  IN PatchJump(Expression(Emit(skip, "POP", 0), Append(at, 2)), Here(skip))

(* and_, or_: the second operand only if the first does not decide.        *)
And(c, at) ==
  LET skip == Emit(Expression(c, Append(at, 1)), "JMP_IF_FALSE", 0)
  IN PatchJump(Expression(Emit(skip, "POP", 0), Append(at, 2)), Here(skip))

Or(c, at) ==
  LET false == Emit(Expression(c, Append(at, 1)), "JMP_IF_FALSE", 0)
      out   == Emit(false, "JMP", 0)
      right == Emit(PatchJump(out, Here(false)), "POP", 0)
  IN PatchJump(Expression(right, Append(at, 2)), Here(out))

Condition(c, cond, at) ==
  CASE cond = "one" -> Expression(c, Append(at, 1))
    [] cond = "and" -> And(c, at)
    [] cond = "or"  -> Or(c, at)

-------------------------------------------------------------------------------
(* Statements.                                                             *)

ImplicitReturn(c) ==
  Emit(IF c.type = "initializer" THEN Emit(c, "GET_LOCAL", 0) ELSE Emit(c, "NIL", 0),
       "RETURN", 0)

Return(c, s, at) ==
  LET d == IF c.type \in {"script", "initializer"} THEN Failed(c) ELSE c
  IN IF s.value THEN Emit(Expression(d, at), "RETURN", 0) ELSE ImplicitReturn(d)

EnterLoop(c) ==
  [c EXCEPT !.loops = Append(@, [breaks |-> <<>>, continues |-> <<>>,
                                 locals |-> Len(c.locals)])]
ExitLoop(c) == [c EXCEPT !.loops = Front(@)]

PatchBreak(c)    == PatchAll(c, Last(c.loops).breaks)
PatchContinue(c) == PatchAll(c, Last(c.loops).continues)

(* break and continue are jumps whose positions the loop remembers; the    *)
(* locals of the blocks that they leave are not popped.                    *)
Leave(c) ==
  IF c.loops = <<>> THEN Failed(c)
  ELSE LET d == Emit(c, "JMP", 0)
       IN [d EXCEPT !.across = @ \/ Len(c.locals) > Last(c.loops).locals]

Break(c) ==
  LET d == Leave(c)
  IN IF d.error THEN d
     ELSE [d EXCEPT !.loops[Len(d.loops)].breaks = Append(@, Here(d))]
Continue(c) ==
  LET d == Leave(c)
  IN IF d.error THEN d
     ELSE [d EXCEPT !.loops[Len(d.loops)].continues = Append(@, Here(d))]

VarDeclaration(c, name, at) == DefineVariable(DeclareVariable(Expression(c, at), name))

RECURSIVE Statement(_, _, _)

Block(c, body, at) ==
  LET Each(d, i) == Statement(d, body[i], Append(at, i))
  IN EndScope(FoldLeftDomain(Each, BeginScope(c), body))

If(c, s, at) ==
  LET test   == Emit(Condition(c, s.cond, at), "JMP_IF_FALSE", 0)
      then   == Emit(Statement(Emit(test, "POP", 0), s.then, Append(at, 3)), "JMP", 0)
      skip   == Emit(then, "JMP", 0)
      else   == Emit(PatchJump(skip, Here(test)), "POP", 0)
      whole  == PatchJump(Statement(else, s.else, Append(at, 4)), Here(skip))
  IN IF s.else = None
     THEN PatchJump(Emit(PatchJump(then, Here(test)), "POP", 0), Here(then))
     ELSE PatchJump(whole, Here(then))

(* Mutant: a break jumps to the pop of the condition.                      *)
WhileBreakEarly(c, s, at) ==
  LET loop == EnterLoop(c)
      test == Emit(Condition(loop, s.cond, at), "JMP_IF_FALSE", 0)
      body == Statement(Emit(test, "POP", 0), s.body, Append(at, 3))
      back == EmitLoop(PatchContinue(body), Here(loop))
      exit == Emit(PatchBreak(PatchJump(back, Here(test))), "POP", 0)
  IN ExitLoop(exit)

While(c, s, at) ==
  LET loop == EnterLoop(c)
      test == Emit(Condition(loop, s.cond, at), "JMP_IF_FALSE", 0)
      body == Statement(Emit(test, "POP", 0), s.body, Append(at, 3))
      back == EmitLoop(PatchContinue(body), Here(loop))
      exit == Emit(PatchJump(back, Here(test)), "POP", 0)
  IN ExitLoop(PatchBreak(exit))

ForInit(c, init, at) ==
  CASE init = "var"  -> VarDeclaration(c, "i", Append(at, 5))
    [] init = "expr" -> Emit(Expression(c, Append(at, 5)), "POP", 0)
    [] init = "none" -> c

(* The loop is entered before its scope; where locals counts, it has the   *)
(* variable of the loop, which the scope's end pops for a break too.       *)
For(c, s, at) ==
  LET init  == ForInit(BeginScope(EnterLoop(c)), s.init, at)
      loop  == [init EXCEPT !.loops[Len(init.loops)].locals = Len(init.locals)]
      cond  == IF s.cond = "none" THEN EmitAt(loop, "TRUE", 0, Append(at, 1))
               ELSE Condition(loop, s.cond, at)
      test  == Emit(cond, "JMP_IF_FALSE", 0)
      enter == Emit(Emit(test, "POP", 0), "JMP", 0)
      inc   == IF s.inc THEN Emit(Expression(enter, Append(at, 6)), "POP", 0) ELSE enter
      body  == PatchJump(EmitLoop(inc, Here(loop)), Here(enter))
      done  == IF s.body = None THEN body
               ELSE PatchContinue(Statement(body, s.body, Append(at, 3)))
      back  == EmitLoop(done, Here(enter))
      exit  == Emit(PatchJump(back, Here(test)), "POP", 0)
  IN ExitLoop(EndScope(PatchBreak(exit)))

Statement(c, s, at) ==
  CASE s.op = "expr"     -> Emit(Expression(c, at), "POP", 0)
    [] s.op = "get"      -> Emit(Variable(c, s.name, at), "POP", 0)
    [] s.op = "var"      -> VarDeclaration(c, s.name, at)
    [] s.op = "fun"      -> DefineVariable(Function(DeclareVariable(c, s.name), s.uses, at))
    [] s.op = "block"    -> Block(c, s.body, at)
    [] s.op = "if"       -> If(c, s, at)
    [] s.op = "while"    -> While(c, s, at)
    [] s.op = "for"      -> For(c, s, at)
    [] s.op = "break"    -> Break(c)
    [] s.op = "continue" -> Continue(c)
    [] s.op = "return"   -> Return(c, s, at)
    [] s.op = "none"     -> c

(* compile, or function with its parameters: the body, and a return.       *)
Compile(type, params, body) ==
  LET Param(c, p)    == AddLocal(c, p)
      Decl(c, i)     == Statement(c, body[i], <<i>>)
  IN IF type = "script"
     THEN ImplicitReturn(FoldLeftDomain(Decl, NewCompiler(type), body))
     ELSE ImplicitReturn(EndScope(Block(
            FoldLeft(Param, BeginScope(NewCompiler(type)), params), body, <<>>)))
===============================================================================
