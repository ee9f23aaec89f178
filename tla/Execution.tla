------------------------------- MODULE Execution -------------------------------
(***************************************************************************)
(* The virtual machine running the code of Codegen, next to the statements *)
(* the code was made from: at each visible instruction the source takes    *)
(* its next step, with the same outcome of a test.                         *)
(***************************************************************************)
EXTENDS Codegen

CONSTANTS
  Program,       \* [type, params, body]: "script", "function", "initializer"
  AcrossLocals   \* may break and continue leave a block that has locals?

VARIABLES
  type,     \* what is compiled
  code,     \* and its code
  pc,       \* the instruction to execute, 0 at the end
  stack,    \* above slot 0, of [at, truth]: where the value was made
  open,     \* the slots that an open upvalue refers to
  todo,     \* what the source has to do
  env       \* the variables in the source's scopes

machine == <<pc, stack, open>>
source  == <<todo, env>>
vars    == <<type, code, machine, source>>

Src == INSTANCE Source

-------------------------------------------------------------------------------
Executing(op) == pc # 0 /\ code[pc].op = op

Push(v) == stack' = Append(stack, v)
Value(at, b) == [at |-> at, truth |-> b]

(* The source takes its step.                                              *)
InStep(outcome) ==
  LET after == Src!After(todo, env, outcome, type)
  IN todo' = after.todo /\ env' = after.env

(* An expression; its truth matters only if a jump looks at it next.       *)
Expr ==
  /\ Executing("EXPR")
  /\ \E b \in IF code[pc + 1].op = "JMP_IF_FALSE" THEN BOOLEAN ELSE {TRUE} :
       Push(Value(code[pc].at, b)) /\ InStep(b)
  /\ pc' = pc + 1 /\ UNCHANGED <<type, code, open>>

TrueConst ==
  /\ Executing("TRUE")
  /\ Push(Value(code[pc].at, TRUE)) /\ InStep(TRUE)
  /\ pc' = pc + 1 /\ UNCHANGED <<type, code, open>>

GetVariable ==
  /\ Executing("GET_LOCAL") \/ Executing("GET_GLOBAL")
  /\ Push(Value(code[pc].at, TRUE))
  /\ IF code[pc].at # <<>> THEN InStep(TRUE) ELSE UNCHANGED source
  /\ pc' = pc + 1 /\ UNCHANGED <<type, code, open>>

(* The closure captures the local that its argument names.                 *)
MakeClosure ==
  /\ Executing("CLOSURE")
  /\ Push(Value(code[pc].at, TRUE)) /\ InStep(TRUE)
  /\ open' = open \cup ({code[pc].arg} \ {0})
  /\ pc' = pc + 1 /\ UNCHANGED <<type, code>>

Nil ==
  /\ Executing("NIL") /\ Push(Value(<<>>, FALSE))
  /\ pc' = pc + 1 /\ UNCHANGED <<type, code, open, source>>

Pop ==
  /\ Executing("POP") \/ Executing("DEFINE_GLOBAL")
  /\ stack' = Front(stack)
  /\ pc' = pc + 1 /\ UNCHANGED <<type, code, open, source>>

CloseUpval ==
  /\ Executing("CLOSE_UPVAL")
  /\ open' = {s \in open : s < Len(stack)}
  /\ stack' = Front(stack)
  /\ pc' = pc + 1 /\ UNCHANGED <<type, code, source>>

JumpIfFalse ==
  /\ Executing("JMP_IF_FALSE")
  /\ pc' = IF Last(stack).truth THEN pc + 1 ELSE pc + 1 + code[pc].arg
  /\ UNCHANGED <<type, code, stack, open, source>>

Jump ==
  /\ Executing("JMP") /\ pc' = pc + 1 + code[pc].arg
  /\ UNCHANGED <<type, code, stack, open, source>>

Loop ==
  /\ Executing("LOOP") /\ pc' = pc + 1 - code[pc].arg
  /\ UNCHANGED <<type, code, stack, open, source>>

(* A function's frame is gone, and its upvalues are closed; a script pops  *)
(* the result and slot 0.                                                  *)
ReturnFrom ==
  /\ Executing("RETURN") /\ pc' = 0
  /\ IF type = "script" THEN stack' = Front(stack) /\ UNCHANGED open
                        ELSE stack' = <<>> /\ open' = {}
  /\ UNCHANGED <<type, code, source>>

Halted == pc = 0 /\ UNCHANGED vars

-------------------------------------------------------------------------------
(* A program that compiles, its arguments on the stack.                    *)
Init ==
  \E p \in Program :
    LET c      == Compile(p.type, p.params, p.body)
        start  == [i \in DOMAIN p.params |-> <<0, i>>]
        scope  == [i \in DOMAIN p.params |->
                     [name |-> p.params[i], at |-> start[i], captured |-> FALSE]]
        stmts  == [i \in DOMAIN p.body |-> Src!Stmt(p.body[i], <<i>>)]
        begin  == Src!Settle(stmts, scope, p.type)
    IN /\ ~c.error /\ (AcrossLocals \/ ~c.across)
       /\ type = p.type /\ code = c.code
       /\ pc = 1 /\ open = {}
       /\ stack = [i \in DOMAIN p.params |-> Value(start[i], TRUE)]
       /\ todo = begin.todo /\ env = begin.env

Next ==
  \/ Expr \/ TrueConst \/ GetVariable \/ MakeClosure \/ Nil \/ Pop \/ CloseUpval
  \/ JumpIfFalse \/ Jump \/ Loop \/ ReturnFrom \/ Halted

Spec == Init /\ [][Next]_vars

-------------------------------------------------------------------------------
(* Properties.                                                             *)

AtVisible == pc # 0 /\ code[pc].at # <<>>

(* The jumps lead where the statements say: what is executed next is what  *)
(* the source does next, and the code returns when the source is done.     *)
FollowsSource ==
  /\ AtVisible => todo # <<>> /\ Head(todo).at = code[pc].at
  /\ Executing("RETURN") => todo = <<>>

(* compiler.c:85-89: the compiler "mimicks the VM's behavior during        *)
(* runtime": between two expressions the stack has the variables in scope, *)
(* each in the slot that the compiler counts it in, and nothing else; and  *)
(* a script leaves nothing behind for the next line at the prompt.         *)
StackMirrorsScopes ==
  /\ AtVisible => [i \in DOMAIN stack |-> stack[i].at] = [i \in DOMAIN env |-> env[i].at]
  /\ pc = 0 => stack = <<>> /\ open = {}

(* Upvalues are open for exactly the captured variables in scope: each is  *)
(* closed when its scope is left, by whatever way.                         *)
OpenInScope == AtVisible => open = {i \in DOMAIN env : env[i].captured}
===============================================================================
