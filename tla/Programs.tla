-------------------------------- MODULE Programs --------------------------------
(***************************************************************************)
(* Small programs for Execution: conditions, loops in each of their forms  *)
(* with what may be inside, nested loops, and blocks that declare and      *)
(* capture variables of the same name.                                     *)
(***************************************************************************)
EXTENDS FiniteSets

None          == [op |-> "none"]
Op(op)        == [op |-> op]
Return_(v)    == [op |-> "return", value |-> v]
Var(x)        == [op |-> "var", name |-> x]
GetX          == [op |-> "get", name |-> "x"]
Fun(f, x)     == [op |-> "fun", name |-> f, uses |-> x]
Braces(body)  == [op |-> "block", body |-> body]
Cond(c, s, t) == [op |-> "if", cond |-> c, then |-> s, else |-> t]
Loops(C, S)   == [op : {"while"}, cond : C, body : S]
Fors(I, C, N, S) == [op : {"for"}, init : I, cond : C, inc : N, body : S]

Jumps   == {Op("break"), Op("continue")}
Plain   == {Op("expr"), GetX, Return_(TRUE)}
Decls   == {Var("x"), Fun("x", "x"), Fun("f", "x")}
Exits   == {Cond("one", s, t) : s \in Jumps \cup {Return_(FALSE)}, t \in {None, Op("expr")}}
Inner   == {Braces(<<Fun("f", "i")>>), Braces(<<Var("x"), Fun("f", "x")>>)}
Pieces  == Plain \cup Decls \cup Exits \cup Inner
Blocks  == {Braces(<<d, s>>) : d \in Pieces, s \in Pieces \cup Jumps}
             \cup {Braces(<<d, s, t>>) : d \in Decls \cup Inner, s \in Exits \cup Decls,
                                        t \in Plain \cup Exits}
Bodies  == Plain \cup Jumps \cup Exits \cup Blocks

Simple  == Loops({"one"}, Bodies) \cup Fors({"none", "var"}, {"none", "one"}, BOOLEAN, Bodies)
Ifs     == {Cond(c, s, t) : c \in {"one", "and", "or"}, s \in Plain \cup Blocks,
                            t \in Plain \cup {None}}
Tests   == Loops({"and", "or"}, Plain \cup Jumps \cup Exits)
             \cup Fors({"expr"}, {"and", "or"}, BOOLEAN, Jumps \cup Exits \cup {None})
Small   == Loops({"one"}, Jumps \cup Exits)
             \cup Fors({"var"}, {"one"}, {TRUE}, Exits \cup Inner)
Nested  == Loops({"one"}, {Braces(<<l, s>>) : l \in Small, s \in Exits})
             \cup Fors({"var"}, {"one"}, {TRUE}, {Braces(<<s, l>>) : l \in Small, s \in Exits \cup Inner})

InFunction(s) == [type |-> "function", params |-> <<"x">>, body |-> <<s, GetX>>]
InScript(s)   == [type |-> "script", params |-> <<>>,
                  body |-> <<Var("x"), Braces(<<Var("x"), s, GetX>>), GetX>>]
InInit(s)     == [type |-> "initializer", params |-> <<"x">>, body |-> <<s, GetX>>]

LoopPrograms == {InFunction(s) : s \in Simple} \cup {InScript(s) : s \in Nested}
TestPrograms == {InScript(s) : s \in Ifs \cup Tests} \cup {InFunction(s) : s \in Ifs}
                  \cup {InInit(s) : s \in Tests}
SourcePrograms == LoopPrograms \cup TestPrograms
AcrossPrograms == {InFunction(s) : s \in Loops({"one"}, Blocks)}
===============================================================================
