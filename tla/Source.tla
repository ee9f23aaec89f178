--------------------------------- MODULE Source ---------------------------------
(***************************************************************************)
(* What the statements of Codegen mean, with no code, no jump and no slot: *)
(* a list of things to do, and the variables in scope.  Leaving a block    *)
(* removes its variables, however it is left.                              *)
(***************************************************************************)
EXTENDS Integers, Sequences, SequencesExt

(* A thing to do, at a place in the tree.  The first four are visible:     *)
(* eval, test, get and closure; the others happen on the way to them.      *)
Do(what, at) == [do |-> what, at |-> at]
Visible == {"eval", "test", "get", "closure"}

Stmt(s, at)         == [do |-> "stmt", at |-> at, stmt |-> s]
Test(at, yes, no)   == [do |-> "test", at |-> at, yes |-> yes, no |-> no]
Get(at, name)       == [do |-> "get", at |-> at, name |-> name]
Closure(at, f, use) == [do |-> "closure", at |-> at, name |-> f, uses |-> use]
Declare(at, name)   == [do |-> "declare", at |-> at, name |-> name]
LeaveScope(n)       == [do |-> "leave", at |-> <<>>, size |-> n]
Marker(what)        == Do(what, <<>>)

(* A condition with what follows it.                                       *)
Branch(cond, at, yes, no) ==
  LET first == Append(at, 1)  second == Append(at, 2)
  IN CASE cond = "one"  -> Test(first, yes, no)
       [] cond = "and"  -> Test(first, <<Test(second, yes, no)>>, no)
       [] cond = "or"   -> Test(first, yes, <<Test(second, yes, no)>>)
       [] cond = "none" -> Test(first, yes, yes)

Body(s, at) == IF s.op = "none" THEN <<>> ELSE <<Stmt(s, at)>>

(* The items that a statement stands for when n variables are in scope.    *)
Unfold(s, at, n) ==
  CASE s.op = "expr"     -> <<Do("eval", at)>>
    [] s.op = "get"      -> <<Get(at, s.name)>>
    [] s.op = "var"      -> <<Do("eval", at), Declare(at, s.name)>>
    [] s.op = "fun"      -> <<Closure(at, s.name, s.uses)>>
    [] s.op = "block"    -> [i \in DOMAIN s.body |-> Stmt(s.body[i], Append(at, i))]
                              \o <<LeaveScope(n)>>
    [] s.op = "if"       -> <<Branch(s.cond, at, Body(s.then, Append(at, 3)),
                                                 Body(s.else, Append(at, 4)))>>
    [] s.op = "while"    -> <<[Stmt(s, at) EXCEPT !.do = "again"], Marker("exit")>>
    [] s.op = "for"      ->
         (CASE s.init = "var"  -> <<Do("eval", Append(at, 5)), Declare(Append(at, 5), "i")>>
            [] s.init = "expr" -> <<Do("eval", Append(at, 5))>>
            [] s.init = "none" -> <<>>)
         \o <<[Stmt(s, at) EXCEPT !.do = "again"], Marker("exit"), LeaveScope(n)>>
    [] s.op = "break"    -> <<Marker("break")>>
    [] s.op = "continue" -> <<Marker("continue")>>
    [] s.op = "return"   -> (IF s.value THEN <<Do("eval", at)>> ELSE <<>>)
                              \o <<Marker("stop")>>

(* One turn of a loop: a continue goes to the mark before the next one.    *)
Turn(s, at) ==
  LET again == <<[Stmt(s, at) EXCEPT !.do = "again"]>>
      rest  == IF s.op = "for" /\ s.inc
               THEN <<Marker("next"), Do("eval", Append(at, 6))>> \o again
               ELSE <<Marker("next")>> \o again
  IN Branch(s.cond, at, Body(s.body, Append(at, 3)) \o rest, <<>>)

-------------------------------------------------------------------------------
(* env: the variables in scope, of [name, at, captured], innermost last.   *)

FirstN(s, n) == SubSeq(s, 1, n)

(* Go on behind the first marker, out of the scopes that end before it.    *)
Unwind(todo, env, mark) ==
  LET k     == CHOOSE i \in DOMAIN todo :
                 todo[i].do = mark /\ \A j \in 1 .. i - 1 : todo[j].do # mark
      sizes == {todo[i].size : i \in {j \in 1 .. k : todo[j].do = "leave"}} \cup {Len(env)}
  IN [todo |-> SubSeq(todo, k + 1, Len(todo)),
      env  |-> FirstN(env, CHOOSE n \in sizes : \A m \in sizes : n <= m)]

AddVariable(env, name, at) ==
  Append(env, [name |-> name, at |-> at, captured |-> FALSE])

(* In a script, what is declared outside all blocks is global.             *)
Declared(env, name, at, type) ==
  IF type = "script" /\ Len(at) = 1 THEN env ELSE AddVariable(env, name, at)

Found(env, name) == {i \in DOMAIN env : env[i].name = name}
Innermost(env, name) == CHOOSE i \in Found(env, name) : \A j \in Found(env, name) : j <= i

(* What comes first, once nothing invisible is left in front of it.        *)
RECURSIVE Settle(_, _, _)
Settle(todo, env, type) ==
  IF todo = <<>> THEN [todo |-> todo, env |-> env]
  ELSE LET h == Head(todo)  rest == Tail(todo)
       IN CASE h.do \in Visible  -> [todo |-> todo, env |-> env]
            [] h.do = "stmt"     -> Settle(Unfold(h.stmt, h.at, Len(env)) \o rest, env, type)
            [] h.do = "again"    -> Settle(<<Turn(h.stmt, h.at)>> \o rest, env, type)
            [] h.do = "declare"  -> Settle(rest, Declared(env, h.name, h.at, type), type)
            [] h.do = "leave"    -> Settle(rest, FirstN(env, h.size), type)
            [] h.do \in {"next", "exit"} -> Settle(rest, env, type)
            [] h.do = "break"    -> LET u == Unwind(rest, env, "exit")
                                    IN Settle(u.todo, u.env, type)
            [] h.do = "continue" -> LET u == Unwind(rest, env, "next")
                                    IN Settle(u.todo, u.env, type)
            [] h.do = "stop"     -> [todo |-> <<>>, env |-> env]

(* What is left to do after the first thing; outcome is that of a test.    *)
After(todo, env, outcome, type) ==
  LET h == Head(todo)  rest == Tail(todo)
  IN CASE h.do = "test" -> Settle((IF outcome THEN h.yes ELSE h.no) \o rest, env, type)
       [] h.do = "closure" ->
            LET with == Declared(env, h.name, h.at, type)
            IN Settle(rest, IF Found(with, h.uses) = {} THEN with
                            ELSE [with EXCEPT ![Innermost(with, h.uses)].captured = TRUE], type)
       [] OTHER -> Settle(rest, env, type)
===============================================================================
