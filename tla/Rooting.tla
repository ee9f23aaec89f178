-------------------------------- MODULE Rooting --------------------------------
(***************************************************************************)
(* What the C code of one operation holds while it allocates (object.c,    *)
(* chunk.c, compiler.c, vm.c).                                             *)
(*                                                                         *)
(* Every allocation may collect garbage, and the collector knows the stack,*)
(* the globals, the frames, the open upvalues and the Compilers, but not   *)
(* the C variables.  An operation is therefore a sequence of steps, in the *)
(* order of its statements; before a step that allocates a collection may  *)
(* come, which frees at once all that cannot be reached (MarkSweep shows   *)
(* that this is what the collector does).                                  *)
(***************************************************************************)
EXTENDS Integers, Sequences, SequencesExt, FiniteSets, FiniteSetsExt, TLC

CONSTANTS
  Room,        \* how many objects of each kind there is memory for
  StackMax     \* a bound of the model: the code has no check

Kinds  == {"string", "native", "function", "closure", "upvalue",
           "class", "instance", "bound"}
Nil    == <<"nil", 0>>       \* a value that is no object

Objects == UNION {{<<k, i>> : i \in 1 .. Room[k]} : k \in Kinds}

Limits == Room \in [Kinds -> Nat] /\ StackMax \in Nat

ASSUME RootingAssumption == Limits

VARIABLES
  objects,     \* the objects that exist
  refs,        \* <<o, p>>: o refers to p, as mark_reachable_objects sees it
  stack, top,  \* vm.stack, what is left above the top included; vm.stack_top
  frames,      \* the closure and the first slot of each frame
  globals,     \* <<name, value>>: the entries of vm.globals
  init,        \* vm.cls_init_strlit
  open,        \* vm.open_upvalues: <<upvalue, slot>>
  compilers,   \* the function of each Compiler, current first
  todo,        \* the steps that are left of the operation under way
  var          \* its C variables

roots   == <<stack, top, frames, globals, init, open, compilers>>
rooting == <<objects, refs, roots, todo, var>>

-------------------------------------------------------------------------------
(* What is reachable.                                                      *)

Values  == {stack[i] : i \in 1 .. top}
RootSet == Values \cup {f.closure : f \in Range(frames)} \cup Range(compilers)
           \cup {u[1] : u \in open} \cup {init}
           \cup UNION {{g[1], g[2]} : g \in globals}

(* An open upvalue refers to the value in its slot.                        *)
Children(o) == {r[2] : r \in {x \in refs : x[1] = o}}
               \cup {stack[u[2]] : u \in {x \in open : x[1] = o}}

Followed[S \in SUBSET (Objects \cup {Nil})] ==
  LET more == S \cup UNION {Children(o) : o \in S}
  IN IF more = S THEN S ELSE Followed[more]

Reachable == Followed[RootSet] \ {Nil}

-------------------------------------------------------------------------------
(* The steps of operations.  Each names the C variables that it reads.     *)

Step(do, reads, args) == [do |-> do, reads |-> reads, args |-> args]

Grow             == Step("grow", {}, <<>>)
Make(v, kind, S) == Step("new", S, <<v, kind>>)
Use(S)           == Step("use", S, <<>>)
Push(v)          == Step("push", {v}, <<v>>)
Pop              == Step("pop", {}, <<>>)
Put(v)           == Step("put", {v}, <<v>>)
Link(v, w)       == Step("link", {v, w}, <<v, w>>)
Take(v, slot)    == Step("take", {}, <<v, slot>>)
Capture(v, u, S) == Step("capture", {v, u}, <<v, u, S>>)
Global(n, v)     == Step("global", {n, v}, <<n, v>>)
InitName(v)      == Step("init", {v}, <<v>>)
Open(u, slot)    == Step("open", {u}, <<u, slot>>)
Enter(v)         == Step("enter", {v}, <<v>>)
Leave            == Step("leave", {}, <<>>)
Call(v, slot)    == Step("call", {v}, <<v, slot>>)

(* StringObj_construct: where it finds the string, what follows the search *)
(* is left out.  It finds any string that has not been freed, whether or   *)
(* not it can be reached; the same content as v's is the string v, if that *)
(* is still there.                                                         *)
Allocation(v)      == <<Grow, Make(v, "string", {}), Push(v), Grow, Pop>>
ConstructString(v) == <<Step("find", {}, <<v>>)>> \o Allocation(v)
Again(v, w)        == <<Step("again", {}, <<v, w>>)>> \o Allocation(v)

(* Mutant: the value is not pushed.                                        *)
AddConstUnrooted(f, v) == <<Grow, Link(f, v)>>

(* chunk_add_const: the value is on the stack while the pool grows.        *)
AddConst(f, v) == <<Push(v), Grow, Link(f, v), Pop>>

(* Mutant: the Compiler is left first.                                     *)
EndCompilerEarly == <<Grow, Leave, Make("closure", "closure", {}), Push("closure"),
                      Link("closure", "function"), Grow, Pop>>

(* end_compiler, with ClosureObj_construct, for the C variable function.   *)
EndCompiler == <<Grow, Make("closure", "closure", {}), Push("closure"),
                 Link("closure", "function"), Grow, Pop, Leave>>

-------------------------------------------------------------------------------
(* Compiling.                                                              *)

Idle      == todo = <<>>
Compiling == Idle /\ compilers # <<>> /\ top < StackMax

Start(v, steps) == var' = v /\ todo' = steps /\ UNCHANGED <<objects, refs, roots>>

(* The names of classes and functions are the ones identifier_constant has *)
(* made; code goes to an array that grows.                                 *)
Identifier(v) == ConstructString(v) \o AddConst("current", v)

(* vm_init: the name of initializers and a native function.                *)
VmInit ==
  /\ Idle /\ init = Nil /\ top + 2 <= StackMax
  /\ Start(<<>>, ConstructString("init") \o <<InitName("init")>>
                 \o ConstructString("name")
                 \o <<Push("name"), Make("native", "native", {}), Push("native"), Grow,
                      Global("name", "native"), Pop, Pop>>)

(* compile, with compiler_init for the script.                             *)
BeginScript ==
  /\ Idle /\ init # Nil /\ compilers = <<>> /\ frames = <<>> /\ top + 2 <= StackMax
  /\ Start(<<>>, <<Make("function", "function", {}), Enter("function")>>)

(* identifier_constant, string: a constant and the code that uses it.      *)
Constant ==
  /\ Compiling
  /\ Start([current |-> Head(compilers)], Identifier("value") \o <<Grow>>)

(* Mutant: the name is made where it is needed, and not before.            *)
BeginFunctionUnnamed ==
  /\ Compiling
  /\ Start(<<>>, <<Make("function", "function", {})>> \o ConstructString("name")
                 \o <<Link("function", "name"), Enter("function")>>)

(* fun_declaration or method, and compiler_init.  The name is made twice:  *)
(* as a constant of the code around it, and for the new function, which    *)
(* nothing keeps alive before it is that of a Compiler.                    *)
BeginFunction ==
  /\ Compiling
  /\ Start([current |-> Head(compilers)],
           Identifier("identifier")
           \o <<Make("function", "function", {})>> \o Again("name", "identifier")
           \o <<Link("function", "name"), Enter("function")>>)

(* The end of function: the closure becomes a constant outside.            *)
EndFunction ==
  /\ Compiling /\ Len(compilers) > 1
  /\ Start([function |-> compilers[1], current |-> compilers[2]],
           EndCompiler \o <<Use({"closure"})>> \o AddConst("current", "closure") \o <<Grow>>)

(* The end of compile, and interpret, which runs what has no error.        *)
EndScript ==
  /\ Compiling /\ Len(compilers) = 1
  /\ \E run \in {<<Push("closure"), Call("closure", top + 1)>>, <<>>} :
       Start([function |-> Head(compilers)], EndCompiler \o run)

-------------------------------------------------------------------------------
(* Running.                                                                *)

Running == Idle /\ frames # <<>>
Working == Running /\ top < StackMax     \* as far as the model goes

Peek(n)     == stack[top - n]
Is(v, kind) == v[1] = kind
Held(S, kind) == {o \in S : o[1] = kind}

Frame == Last(frames)
Code  == UNION {Children(f) : f \in Held(Children(Frame.closure), "function")}
Names == Held(Code, "string")

(* The methods that a lookup in class c may find.                          *)
Methods(c) == Held(Children(c), "closure")

(* OP_CONST and what pushes a value that is no object; OP_POP.             *)
OpConst ==
  /\ Working
  /\ \E c \in Names \cup {Nil} : Start([constant |-> c], <<Push("constant")>>)

OpPop == Running /\ top > Frame.slot /\ Start(<<>>, <<Pop>>)

(* Mutant: the operands are popped first.                                  *)
OpAddPopped ==
  /\ Working /\ top > Frame.slot + 1 /\ Is(Peek(0), "string") /\ Is(Peek(1), "string")
  /\ Start([left |-> Peek(1), right |-> Peek(0)],
           <<Pop, Pop, Grow, Use({"left", "right"})>> \o ConstructString("result")
           \o <<Push("result")>>)

(* OP_ADD of strings: concatenate copies the operands between allocations. *)
OpAdd ==
  /\ Working /\ top > Frame.slot + 1 /\ Is(Peek(0), "string") /\ Is(Peek(1), "string")
  /\ Start([left |-> Peek(1), right |-> Peek(0)],
           <<Grow, Use({"left", "right"})>> \o ConstructString("result")
           \o <<Pop, Pop, Push("result")>>)

(* OP_DEFINE_GLOBAL pops the value, OP_SET_GLOBAL leaves it.               *)
OpSetGlobal ==
  /\ Running /\ top > Frame.slot
  /\ \E n \in Names, rest \in {<<Pop>>, <<>>} :
       Start([identifier |-> n, value |-> Peek(0)],
             <<Grow, Global("identifier", "value")>> \o rest)

OpGetGlobal ==
  /\ Working
  /\ \E g \in globals : g[1] \in Names /\ Start([value |-> g[2]], <<Push("value")>>)

(* OP_CLOSURE.  Each upvalue of the function is captured from a local, the *)
(* slot of the closure itself included, or taken from the function around  *)
(* it, while the entries before it are new and those behind it are the     *)
(* ones of an earlier run.  Bound: two captures.                           *)
Around == 0
Upvalues(source) == IF source = Around THEN Held(Children(Frame.closure), "upvalue")
                                       ELSE {u[1] : u \in {x \in open : x[2] = source}}
Sources == (Frame.slot .. top + 1) \cup {s \in {Around} : Upvalues(s) # {}}

Capturing(v, source, before) ==
  (IF Upvalues(source) = {} THEN <<Make(v, "upvalue", {}), Open(v, source)>>
                            ELSE <<Take(v, source)>>) \o <<Capture("closure", v, before)>>

OpClosure ==
  /\ Working
  /\ \E c \in Held(Code, "closure") :
       \/ Start([closure |-> c], <<Push("closure")>>)
       \/ \E s \in Sources : Start([closure |-> c], <<Push("closure")>> \o Capturing("first", s, {}))
       \/ \E s, r \in Sources :
            /\ s # r \/ s = Around
            /\ Start([closure |-> c], (<<Push("closure")>> \o Capturing("first", s, {}))
                                       \o Capturing("second", r, {"first"}))

(* OP_CLASS.  The name is not among the references: it is not marked.      *)
OpClass ==
  /\ Working
  /\ \E n \in Names :
       Start([name |-> n], <<Make("class", "class", {}), Use({"name"}), Push("class")>>)

OpMethod ==
  /\ Running /\ top > Frame.slot + 1 /\ Is(Peek(1), "class") /\ Is(Peek(0), "closure")
  /\ \E n \in Names :
       Start([name |-> n, class |-> Peek(1), method |-> Peek(0)],
             <<Grow, Link("class", "name"), Link("class", "method"), Pop>>)

(* OP_INHERIT: table_add_all may expand the table at each entry.           *)
OpInherit ==
  /\ Running /\ top > Frame.slot + 1 /\ Is(Peek(1), "class") /\ Is(Peek(0), "class")
  /\ LET entries == SetToSeq(Children(Peek(1)))
         names   == [i \in DOMAIN entries |-> "entry" \o ToString(i)]
         Adding  == [j \in 1 .. 2 * Len(entries) |->
                       IF j % 2 = 1 THEN Grow ELSE Link("class", names[j \div 2])]
     IN Start([n \in {"class"} \cup Range(names) |->
                 IF n = "class" THEN Peek(0)
                 ELSE entries[CHOOSE i \in DOMAIN names : names[i] = n]],
              Adding \o <<Pop>>)

OpSetProperty ==
  /\ Running /\ top > Frame.slot + 1 /\ Is(Peek(1), "instance")
  /\ \E n \in Names :
       Start([name |-> n, instance |-> Peek(1), value |-> Peek(0)],
             <<Grow, Link("instance", "name"), Link("instance", "value"),
               Pop, Pop, Push("value")>>)

(* OP_GET_PROPERTY: a field, or a method bound to the instance.            *)
OpGetProperty ==
  /\ Running /\ top > Frame.slot /\ Is(Peek(0), "instance")
  /\ \/ \E v \in Children(Peek(0)) : Start([property |-> v], <<Pop, Push("property")>>)
     \/ \E c \in Held(Children(Peek(0)), "class") : \E m \in Methods(c) :
          Start([top |-> Peek(0), method |-> m],
                <<Make("bound", "bound", {"top", "method"}), Pop, Push("bound")>>)

(* Mutant: receiver and class are popped before the allocation.            *)
OpGetSuperPopped ==
  /\ Running /\ top > Frame.slot + 1 /\ Is(Peek(0), "class") /\ Is(Peek(1), "instance")
  /\ \E m \in Methods(Peek(0)) :
       Start([receiver |-> Peek(1), method |-> m],
             <<Pop, Pop, Make("bound", "bound", {"receiver", "method"}), Push("bound")>>)

OpGetSuper ==
  /\ Running /\ top > Frame.slot + 1 /\ Is(Peek(0), "class") /\ Is(Peek(1), "instance")
  /\ \E m \in Methods(Peek(0)) :
       Start([receiver |-> Peek(1), method |-> m],
             <<Make("bound", "bound", {"receiver", "method"}), Pop, Pop, Push("bound")>>)

(* OP_CALL without arguments, which lie above the callee: a closure; a     *)
(* class, with and without init; a bound method, whose receiver takes its  *)
(* place.  OP_INVOKE calls a method of the class of an instance.           *)
OpCall ==
  /\ Running /\ top > Frame.slot
  /\ \/ /\ Is(Peek(0), "closure")
        /\ Start([closure |-> Peek(0)], <<Call("closure", top)>>)
     \/ /\ Is(Peek(0), "class")
        /\ \/ Start([class |-> Peek(0)],
                    <<Make("instance", "instance", {"class"}), Put("instance")>>)
           \/ \E m \in Methods(Peek(0)) :
                Start([class |-> Peek(0), init |-> m],
                      <<Make("instance", "instance", {"class"}),
                        Call("init", top), Put("instance")>>)
     \/ /\ Is(Peek(0), "bound")
        /\ \E r \in Held(Children(Peek(0)), "instance"), m \in Methods(Peek(0)) :
             Start([receiver |-> r, method |-> m],
                   <<Call("method", top), Put("receiver")>>)
     \/ /\ Is(Peek(0), "instance")
        /\ \E c \in Held(Children(Peek(0)), "class") : \E m \in Methods(c) :
             Start([method |-> m], <<Call("method", top)>>)

(* close_upvalues: the upvalues from slot on keep the value themselves.    *)
Closed(slot) == {u \in open : u[2] >= slot}
CloseUpvalues(slot) ==
  /\ open' = open \ Closed(slot)
  /\ refs' = refs \cup {<<u[1], stack[u[2]]>> : u \in {x \in Closed(slot) : stack[x[2]] # Nil}}

OpCloseUpvalue ==
  /\ Running /\ top > Frame.slot
  /\ CloseUpvalues(top) /\ top' = top - 1
  /\ UNCHANGED <<objects, stack, frames, globals, init, compilers, todo, var>>

(* OP_RETURN, from a function and from the script.                         *)
OpReturn ==
  /\ Running /\ top > Frame.slot
  /\ frames' = Front(frames)
  /\ IF Len(frames) = 1
     THEN top' = top - 2 /\ UNCHANGED <<stack, open, refs>>
     ELSE /\ CloseUpvalues(Frame.slot)
          /\ top' = Frame.slot
          /\ stack' = [stack EXCEPT ![Frame.slot] = Peek(0)]
  /\ UNCHANGED <<objects, globals, init, compilers, todo, var>>

(* runtime_error, which any instruction may come to before it allocates.   *)
RuntimeError ==
  /\ Running
  /\ frames' = <<>> /\ top' = 0
  /\ UNCHANGED <<objects, refs, stack, globals, init, open, compilers, todo, var>>

-------------------------------------------------------------------------------
(* The steps.                                                              *)

Act(do)      == todo # <<>> /\ Head(todo).do = do
Arg(i)       == Head(todo).args[i]
Val(i)       == var[Arg(i)]
Assign(v, o) == var' = [x \in {v} \cup DOMAIN var |-> IF x = v THEN o ELSE var[x]]
Done(n)      == todo' = SubSeq(todo, n + 1, Len(todo))
To(p)        == IF p = Nil THEN {} ELSE {p}

(* Those that change nothing but C variables.  A search may find a string, *)
(* and finds the one of the same content while it is there.                *)
Advance ==
  /\ \/ (Act("grow") \/ Act("use")) /\ Done(1) /\ UNCHANGED var
     \/ Act("find") /\ Done(1) /\ UNCHANGED var
     \/ Act("take") /\ Done(1) /\ \E u \in Upvalues(Arg(2)) : Assign(Arg(1), u)
     \/ Act("find") /\ Done(6) /\ \E s \in Held(objects, "string") : Assign(Arg(1), s)
     \/ Act("again") /\ IF Val(2) \in objects THEN Done(6) /\ Assign(Arg(1), Val(2))
                                              ELSE Done(1) /\ UNCHANGED var
  /\ UNCHANGED <<objects, refs, roots>>

(* allocate_object, at the first free address; exit where there is none.   *)
Allocate ==
  /\ Act("new")
  /\ LET free == {i \in 1 .. Room[Arg(2)] : <<Arg(2), i>> \notin objects}
         o    == <<Arg(2), Min(free)>>
     IN IF free = {} THEN UNCHANGED rooting
        ELSE /\ objects' = objects \cup {o}
             /\ refs' = refs \cup {<<o, var[v]>> : v \in Head(todo).reads}
             /\ Assign(Arg(1), o) /\ Done(1) /\ UNCHANGED roots

StackStep ==
  /\ \/ /\ Act("push") /\ top' = top + 1
        /\ stack' = [stack EXCEPT ![top + 1] = Val(1)] /\ UNCHANGED frames
     \/ Act("pop") /\ top' = top - 1 /\ UNCHANGED <<stack, frames>>
     \/ Act("put") /\ stack' = [stack EXCEPT ![top] = Val(1)] /\ UNCHANGED <<top, frames>>
     \/ /\ Act("call") /\ UNCHANGED <<stack, top>>
        /\ frames' = Append(frames, [closure |-> Val(1), slot |-> Arg(2)])
  /\ Done(1) /\ UNCHANGED <<objects, refs, globals, init, open, compilers, var>>

(* What the entry of a captured upvalue may have held.                     *)
Replaced == Held({r[2] : r \in {x \in refs : x[1] = Val(1)}}, "upvalue") \ {var[v] : v \in Arg(3)}

Store ==
  /\ \/ /\ Act("link") /\ refs' = refs \cup ({Val(1)} \X To(Val(2)))
        /\ UNCHANGED <<globals, init, open>>
     \/ /\ Act("capture") /\ UNCHANGED <<globals, init, open>>
        /\ \E old \in {{}} \cup {{u} : u \in Replaced} :
             refs' = (refs \ ({Val(1)} \X old)) \cup {<<Val(1), Val(2)>>}
     \/ /\ Act("global") /\ UNCHANGED <<refs, init, open>>
        /\ globals' = {g \in globals : g[1] # Val(1)} \cup {<<Val(1), Val(2)>>}
     \/ Act("init") /\ init' = Val(1) /\ UNCHANGED <<refs, globals, open>>
     \/ Act("open") /\ open' = open \cup {<<Val(1), Arg(2)>>} /\ UNCHANGED <<refs, globals, init>>
  /\ Done(1) /\ UNCHANGED <<objects, stack, top, frames, compilers, var>>

Compile ==
  /\ \/ Act("enter") /\ compilers' = <<Val(1)>> \o compilers
     \/ Act("leave") /\ compilers' = Tail(compilers)
  /\ Done(1) /\ UNCHANGED <<objects, refs, stack, top, frames, globals, init, open, var>>

(* collect_garbage, in reallocate and before there is new memory.          *)
Collect ==
  /\ Act("grow") \/ Act("new")
  /\ objects' = objects \cap Reachable
  /\ refs' = {r \in refs : r[1] \in Reachable}
  /\ UNCHANGED <<roots, todo, var>>

-------------------------------------------------------------------------------
RootingInit ==
  /\ objects = {} /\ refs = {}
  /\ stack = [i \in 1 .. StackMax |-> Nil] /\ top = 0 /\ frames = <<>>
  /\ globals = {} /\ init = Nil /\ open = {} /\ compilers = <<>>
  /\ todo = <<>> /\ var = <<>>

CompileTime == VmInit \/ BeginScript \/ Constant \/ BeginFunction \/ EndFunction \/ EndScript

RunTime ==
  \/ OpConst \/ OpPop \/ OpAdd \/ OpSetGlobal \/ OpGetGlobal \/ OpClosure
  \/ OpClass \/ OpMethod \/ OpInherit \/ OpSetProperty \/ OpGetProperty
  \/ OpGetSuper \/ OpCall \/ OpCloseUpvalue \/ OpReturn \/ RuntimeError

Statement == Advance \/ Allocate \/ StackStep \/ Store \/ Compile

RootingNext == CompileTime \/ RunTime \/ Statement \/ Collect

RootingSpec == RootingInit /\ [][RootingNext]_rooting

-------------------------------------------------------------------------------
(* Properties.                                                             *)

(* Whatever allocation collects garbage, what the operation under way will *)
(* still use exists, and so does all that the program can reach: whatever  *)
(* is held in C variables alone is kept by something else until it is put  *)
(* where it belongs (the comments at chunk.c:95, compiler.c:446, vm.c:840).*)
InUseLive ==
  /\ \A i \in DOMAIN todo : \A v \in todo[i].reads \cap DOMAIN var :
       var[v] \in objects \cup {Nil}
  /\ Reachable \subseteq objects
================================================================================
