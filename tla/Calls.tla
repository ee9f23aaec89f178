--------------------------------- MODULE Calls ---------------------------------
(***************************************************************************)
(* Calls, classes and properties in the virtual machine (src/src/vm.c):    *)
(* what OP_CALL, OP_INVOKE and OP_SUPER_INVOKE do with closures, classes,  *)
(* bound methods and natives, how fields and methods are found, and what a *)
(* return, an error and the next line at the prompt leave on the stack.    *)
(*                                                                         *)
(* An action is an instruction of run(), or two that the compiler always   *)
(* emits together: the variable `super' and the instruction that takes it, *)
(* `this' and the OP_RETURN of an initializer, OP_CLASS and the definition *)
(* of its global, a method's closure and OP_METHOD.  Which of them comes   *)
(* next is open, as far as the compiler's count of the stack, `shapes',    *)
(* allows it: guards look there and never at the stack itself.  Classes    *)
(* are declared at top level, and the variables of functions around are    *)
(* locals and parameters, never the `this' or `super' of a method around.  *)
(*                                                                         *)
(* A variable is captured while an open upvalue refers to its slot, and a  *)
(* function may have any upvalue: which it has, and that an open one refers*)
(* to a variable that still lives, is the subject of Upvalues (OpenLive).  *)
(***************************************************************************)
EXTENDS Integers, Sequences, SequencesExt

CONSTANTS
  StackMax,    \* slots of vm.stack (STACK_MAX)
  FrameMax,    \* frames of vm.frames (CALL_FRAME_MAX)
  Lines,       \* sources interpreted: 1 for a file, more for the prompt
  Data,        \* values that are neither objects to call nor instances
  Script,      \* the closure of a script
  Function,    \* closures of functions and methods
  Native,      \* native functions
  Class,       \* class objects, one for each declaration
  Instance,    \* instances that may be made
  Name,        \* names of fields and methods
  Global,      \* variables assigned at top level
  Arity,       \* Arity[f]: parameters of f
  Owner,       \* Owner[f]: the class whose method f is, or Absent
  Declares,    \* Declares[c]: the methods in the body of c, in their order
  Extends,     \* Extends[c]: is c declared with a superclass?
  Initializer, \* the name "init"
  Absent,      \* no value
  Strays       \* what else programs do: see StraysAssumption

Plain == Data \cup {Script} \cup Function \cup Native \cup Class \cup Instance
Bound == [receiver : Plain, method : Function]
Value == Plain \cup Bound
Kind  == {"callee", "local", "captured", "operand", "this"}

ASSUME BoundsAssumption ==
  /\ StackMax \in Nat \ {0} /\ FrameMax \in Nat \ {0} /\ Lines \in Nat
  /\ Data # {} /\ Initializer \in Name

ASSUME CodeAssumption ==
  /\ Arity \in [Function -> Nat]
  /\ Owner \in [Function -> Class \cup {Absent}]
  /\ Declares \in [Class -> Seq([name : Name, method : Function])]
  /\ Extends \in [Class -> BOOLEAN]
  /\ \A c \in Class : \A i \in DOMAIN Declares[c] :
       /\ Owner[Declares[c][i].method] = c
       /\ \A j \in DOMAIN Declares[c] :
            Declares[c][i].method = Declares[c][j].method => i = j

ASSUME SentinelAssumption ==
  /\ Absent \notin Value
  /\ Instance \cap (Data \cup {Script} \cup Function \cup Native \cup Class) = {}
  /\ Instance \cap Bound = {} /\ Function \cap Bound = {} /\ Class \cap Bound = {}
  /\ Native \cap Bound = {} /\ Script \notin Function \cup Bound \cup Class \cup Native
  /\ Class \cap (Function \cup Native) = {} /\ Function \cap Native = {}
  /\ Data \cap (Function \cup Native \cup Class \cup Bound) = {}

(* Programs that the compiler accepts and the machine does not stand: a    *)
(* class without init called with arguments, an assignment to `this', a    *)
(* super method that is not there.  (Two more are never here: one that     *)
(* calls a closure after an error has ended the functions whose variables  *)
(* it captured, and so reads stale slots, RunningUpvaluesLive of Upvalues, *)
(* and one whose break or continue leaves a block with locals, which the   *)
(* compiler no longer counts, StackMirrorsScopes of Execution.)            *)
ASSUME StraysAssumption == Strays \subseteq {"arguments", "this", "super"}

VARIABLES
  stack,       \* vm.stack[0 .. stack_top), from 1
  frames,      \* vm.frames[0 .. frame_count): closure and first slot of each
  klass,       \* InstanceObj.klass, or Absent before it is made
  fields,      \* InstanceObj.fields
  methods,     \* ClassObj.methods
  superOf,     \* the variable `super' that the methods of a class capture
  declaring,   \* the class whose body runs, and how many methods it has
  globals,     \* vm.globals
  closed,      \* what is or has been the value of a closed upvalue
  declared,    \* the classes declared so far
  line,        \* sources given to interpret() so far
  crashed,     \* a variable without a value has been used
  (* What the code does not store but the properties speak about:          *)
  shapes,      \* shapes[i]: the slots of frame i as the compiler counts them
  lineage      \* lineage[c]: c, its superclass, the superclass of that, ...

machine == <<stack, frames, shapes>>
classes == <<methods, superOf, declaring, declared, lineage>>
session == <<line, crashed>>
vars    == <<machine, klass, fields, closed, classes, globals, session>>

-------------------------------------------------------------------------------
(* Reading the machine's state.                                            *)

Frame == Last(frames)
Shape == Last(shapes)
NotDeclaring == <<>>
InCode == frames # <<>> /\ declaring = NotDeclaring /\ ~crashed

Peek(distance) == stack[Len(stack) - distance]

Variables == {i \in DOMAIN Shape : Shape[i] \in {"local", "captured"}}

(* The n slots on top are operands; the one under n is `this'.             *)
Operands(n) == /\ n < Len(Shape)
               /\ \A i \in Len(Shape) - n + 1 .. Len(Shape) : Shape[i] \in {"operand", "this"}
OnThis(n)   == n < Len(Shape) - 1 /\ Operands(n + 1) /\ Shape[Len(Shape) - n] = "this"

InMethod == Frame.closure \in Function /\ Owner[Frame.closure] # Absent
IsInit(f) == \E c \in Class : \E i \in DOMAIN Declares[c] :
               Declares[c][i] = [name |-> Initializer, method |-> f]

(* The compiler's count after n operands have become one result.           *)
Result(n, kind) ==
  [shapes EXCEPT ![Len(shapes)] = Append(SubSeq(@, 1, Len(@) - n), kind)]

(* n values on top of the stack are replaced by v.                         *)
Replace(n, v) ==
  /\ Len(stack) - n < StackMax                      \* bound
  /\ stack' = Append(SubSeq(stack, 1, Len(stack) - n), v)

Compute(n, v) == Replace(n, v) /\ shapes' = Result(n, "operand") /\ UNCHANGED frames

(* runtime_error: the stack and the frames are reset.                      *)
RuntimeError == stack' = <<>> /\ frames' = <<>> /\ shapes' = <<>>

-------------------------------------------------------------------------------
(* Calls.                                                                  *)

(* Mutants: the frame begins at the first argument; slot 0 keeps the callee.*)
EnterAtArgument(f, argc, slot0, made) ==
  /\ stack'  = [stack EXCEPT ![Len(stack) - argc] = slot0]
  /\ frames' = Append(frames, [closure |-> f, slots |-> Len(stack) - argc + 1, made |-> made])
  /\ shapes' = Append(Result(argc + 1, "operand"),
                      <<"callee">> \o [i \in 1 .. argc |-> "local"])

EnterKeepsCallee(f, argc, slot0, made) ==
  /\ stack'  = stack
  /\ frames' = Append(frames, [closure |-> f, slots |-> Len(stack) - argc, made |-> made])
  /\ shapes' = Append(Result(argc + 1, "operand"),
                      <<"callee">> \o [i \in 1 .. argc |-> "local"])

(* A frame for f over its argc arguments, with slot 0 set to slot0.        *)
Enter(f, argc, slot0, made) ==
  /\ stack'  = [stack EXCEPT ![Len(stack) - argc] = slot0]
  /\ frames' = Append(frames, [closure |-> f, slots |-> Len(stack) - argc, made |-> made])
  /\ shapes' = Append(Result(argc + 1, "operand"),
                      <<"callee">> \o [i \in 1 .. argc |-> "local"])

PushFrame(f, argc, slot0) ==
  /\ UNCHANGED klass
  /\ IF argc = Arity[f] THEN Enter(f, argc, slot0, Absent) ELSE RuntimeError

(* A new instance goes to slot 0 of its initializer; without one it goes   *)
(* to the top of the stack, where the class is if there is no argument.    *)
(* (An instance whose initializer is not entered is garbage at once.)      *)
Instantiate(c, argc) ==
  LET init == methods[c][Initializer] IN
  IF init # Absent /\ argc # Arity[init]
  THEN RuntimeError /\ UNCHANGED klass
  ELSE \E new \in Instance :
         /\ klass[new] = Absent
         /\ klass' = [klass EXCEPT ![new] = c]
         /\ IF init # Absent THEN Enter(init, argc, new, new)
            ELSE /\ argc > 0 => "arguments" \in Strays
                 /\ stack'  = [stack EXCEPT ![Len(stack)] = new]
                 /\ shapes' = Result(argc + 1, "operand")
                 /\ UNCHANGED frames

CallNative(argc) ==
  (\E res \in Data : Compute(argc + 1, res)) /\ UNCHANGED klass

CallValue(callee, argc) ==
  IF Len(frames) >= FrameMax THEN RuntimeError /\ UNCHANGED klass
  ELSE \/ callee \in Function /\ PushFrame(callee, argc, Peek(argc))
       \/ callee \in Bound    /\ PushFrame(callee.method, argc, callee.receiver)
       \/ callee \in Class    /\ Instantiate(callee, argc)
       \/ callee \in Native   /\ CallNative(argc)

Callable(v) == v \in Function \cup Bound \cup Class \cup Native

Fail == RuntimeError /\ UNCHANGED klass

Call(argc) ==
  /\ InCode /\ Operands(argc + 1)
  /\ IF Callable(Peek(argc)) THEN CallValue(Peek(argc), argc) ELSE Fail
  /\ UNCHANGED <<fields, closed, classes, globals, session>>

(* obj.name(...): a field that can be called, or else a method.            *)
Invoke(name, argc) ==
  /\ InCode /\ Operands(argc + 1)
  /\ LET obj == Peek(argc) IN
     IF obj \notin Instance THEN Fail
     ELSE LET field  == fields[obj][name]
              method == methods[klass[obj]][name]
          IN IF field # Absent
             THEN IF Callable(field) THEN CallValue(field, argc) ELSE Fail
             ELSE IF method # Absent THEN CallValue(method, argc) ELSE Fail
  /\ UNCHANGED <<fields, closed, classes, globals, session>>

(* Reading the method after it was not found: the machine goes on with a   *)
(* variable that has no value, and the process ends.                       *)
Crash == "super" \in Strays /\ crashed' = TRUE /\ UNCHANGED <<machine, klass, line>>

(* The method that `super.name' means in the running method.               *)
SuperMethod(name) == methods[superOf[Owner[Frame.closure]]][name]

InSubclass == InMethod /\ Extends[Owner[Frame.closure]]

SuperInvoke(name, argc) ==
  /\ InCode /\ InSubclass /\ OnThis(argc)
  /\ IF SuperMethod(name) = Absent THEN Crash
     ELSE CallValue(SuperMethod(name), argc) /\ UNCHANGED session
  /\ UNCHANGED <<fields, closed, classes, globals>>

GetSuper(name) ==
  /\ InCode /\ InSubclass /\ OnThis(0)
  /\ IF SuperMethod(name) = Absent THEN Crash
     ELSE /\ Compute(1, [receiver |-> Peek(0), method |-> SuperMethod(name)])
          /\ UNCHANGED <<klass, session>>
  /\ UNCHANGED <<fields, closed, classes, globals>>

(* close_upvalues(frame->slots): the values of captured variables move out.*)
CloseAll == closed' = closed \cup {stack[Frame.slots + i - 1] :
                                   i \in {j \in DOMAIN Shape : Shape[j] = "captured"}}

(* Mutant: the locals of the callee stay on the stack.                     *)
ReturnKeepsLocals ==
  /\ InCode /\ Len(frames) > 1 /\ (IsInit(Frame.closure) \/ Operands(1))
  /\ stack'  = Append(SubSeq(stack, 1, Frame.slots),
                      IF IsInit(Frame.closure) THEN stack[Frame.slots] ELSE Peek(0))
  /\ frames' = Front(frames) /\ shapes' = Front(shapes) /\ CloseAll
  /\ UNCHANGED <<klass, fields, classes, globals, session>>

(* Mutant: an initializer returns like any function.                       *)
ReturnInitValue ==
  /\ InCode /\ Len(frames) > 1 /\ Operands(1)
  /\ stack'  = Append(SubSeq(stack, 1, Frame.slots - 1), Peek(0))
  /\ frames' = Front(frames) /\ shapes' = Front(shapes) /\ CloseAll
  /\ UNCHANGED <<klass, fields, classes, globals, session>>

(* The result, `this' for an initializer, takes the place of the callee.   *)
Return ==
  /\ InCode /\ Len(frames) > 1 /\ (IsInit(Frame.closure) \/ Operands(1))
  /\ stack'  = Append(SubSeq(stack, 1, Frame.slots - 1),
                      IF IsInit(Frame.closure) THEN stack[Frame.slots] ELSE Peek(0))
  /\ frames' = Front(frames) /\ shapes' = Front(shapes) /\ CloseAll
  /\ UNCHANGED <<klass, fields, classes, globals, session>>

(* nil is pushed and popped, then the script's closure.                    *)
ReturnScript ==
  /\ InCode /\ Len(frames) = 1 /\ Shape = <<"callee">>
  /\ stack' = Front(stack) /\ frames' = <<>> /\ shapes' = <<>>
  /\ UNCHANGED <<klass, fields, closed, classes, globals, session>>

-------------------------------------------------------------------------------
(* Fields and methods.                                                     *)

Quiet == UNCHANGED <<klass, fields, closed, classes, session>>

GetProperty(name) ==
  /\ InCode /\ Operands(1)
  /\ LET obj == Peek(0) IN
     IF obj \notin Instance THEN RuntimeError
     ELSE LET method == methods[klass[obj]][name] IN
          IF fields[obj][name] # Absent THEN Compute(1, fields[obj][name])
          ELSE IF method # Absent
               THEN Compute(1, [receiver |-> obj, method |-> method])
               ELSE RuntimeError
  /\ Quiet /\ UNCHANGED globals

(* The value stays on the stack as the value of the assignment.            *)
SetProperty(name) ==
  /\ InCode /\ Operands(2)
  /\ IF Peek(1) \notin Instance THEN RuntimeError /\ UNCHANGED fields
     ELSE /\ fields' = [fields EXCEPT ![Peek(1)][name] = Peek(0)]
          /\ Compute(2, Peek(0))
  /\ UNCHANGED <<klass, closed, classes, globals, session>>

-------------------------------------------------------------------------------
(* A class declaration of the script.                                      *)

(* OP_CLASS and OP_DEFINE_GLOBAL; without a superclass the class is loaded *)
(* again for its methods.                                                  *)
BeginClass(c) ==
  /\ InCode /\ Len(frames) = 1 /\ Shape = <<"callee">> /\ c \notin declared
  /\ declared'  = declared \cup {c}
  /\ declaring' = <<c, 0>>
  /\ IF Extends[c] THEN UNCHANGED machine ELSE Compute(0, c)
  /\ UNCHANGED <<klass, fields, closed, methods, superOf, lineage, globals, session>>

(* Mutant: methods that are there already are not replaced.                *)
MethodKeepsFirst(old, name, method) ==
  IF old[name] = Absent THEN [old EXCEPT ![name] = method] ELSE old

AddMethod(old, name, method) == [old EXCEPT ![name] = method]

AddAll(from, to) == [n \in Name |-> IF from[n] # Absent THEN from[n] ELSE to[n]]

(* The superclass is what a global variable holds.  It stays on the stack  *)
(* as the local `super', and the class is loaded again for its methods.    *)
Inherit ==
  /\ declaring # NotDeclaring /\ shapes = << <<"callee">> >>
  /\ LET c == declaring[1] IN
     /\ Extends[c]
     /\ \E v \in declared \cup ({globals[x] : x \in Global} \ {Absent}) :
          IF v \in Class
          THEN /\ methods' = [methods EXCEPT ![c] = AddAll(methods[v], @)]
               /\ superOf' = [superOf EXCEPT ![c] = v]
               /\ lineage' = [lineage EXCEPT ![c] = {c} \cup lineage[v]]
               /\ Len(stack) + 2 <= StackMax            \* bound
               /\ stack'  = stack \o <<v, c>>
               /\ shapes' = << <<"callee", "operand", "operand">> >>
               /\ UNCHANGED <<frames, declaring>>
          ELSE /\ RuntimeError /\ declaring' = NotDeclaring
               /\ UNCHANGED <<methods, superOf, lineage>>
  /\ UNCHANGED <<klass, fields, closed, declared, globals, session>>

InBody == declaring # NotDeclaring /\ Len(shapes) = 1 /\ Len(Shape) > 1

Method ==
  /\ InBody /\ declaring[2] < Len(Declares[declaring[1]])
  /\ LET c == declaring[1]
         d == Declares[c][declaring[2] + 1]
     IN methods' = [methods EXCEPT ![c] = AddMethod(@, d.name, d.method)]
  /\ declaring' = <<declaring[1], declaring[2] + 1>>
  /\ UNCHANGED <<machine, klass, fields, closed, superOf, declared, lineage, globals, session>>

(* OP_POP of the class, and the end of the scope of `super'.               *)
EndClass ==
  /\ InBody /\ declaring[2] = Len(Declares[declaring[1]])
  /\ declaring' = NotDeclaring
  /\ stack'  = SubSeq(stack, 1, Len(stack) - (Len(Shape) - 1))
  /\ shapes' = << <<"callee">> >>
  /\ UNCHANGED <<frames, klass, fields, closed, methods, superOf, declared, lineage, globals, session>>

-------------------------------------------------------------------------------
(* Everything else that moves values.                                      *)

Load(v) == InCode /\ Compute(0, v) /\ Quiet /\ UNCHANGED globals

Const    == \E v \in Data \cup {f \in Function : Owner[f] = Absent} : Load(v)
GetClass == \E v \in declared \cup Native : Load(v)
GetLocal == InCode /\ \E i \in Variables : Load(stack[Frame.slots + i - 1])

GetThis ==
  /\ InCode /\ InMethod
  /\ Replace(0, stack[Frame.slots]) /\ shapes' = Result(0, "this")
  /\ UNCHANGED frames /\ Quiet /\ UNCHANGED globals

(* `this = value' compiles to an assignment to slot 0.                     *)
SetLocal ==
  /\ InCode /\ Operands(1)
  /\ \E i \in Variables \cup (IF InMethod /\ "this" \in Strays THEN {1} ELSE {}) :
       stack' = [stack EXCEPT ![Frame.slots + i - 1] = Peek(0)]
  /\ UNCHANGED <<frames, shapes>> /\ Quiet /\ UNCHANGED globals

(* var x = value; in a function or a block: the operand is a variable now. *)
Declare ==
  /\ InCode /\ Operands(1) /\ \A i \in 2 .. Len(Shape) - 1 : i \in Variables
  /\ shapes' = [shapes EXCEPT ![Len(shapes)] = Append(Front(@), "local")]
  /\ UNCHANGED <<stack, frames>> /\ Quiet /\ UNCHANGED globals

(* fun f in a function or a block: a new variable holds the closure, which *)
(* may capture any variables of the function, itself among them.           *)
Closure ==
  /\ InCode /\ \A i \in 2 .. Len(Shape) : i \in Variables
  /\ \E f \in Function : Owner[f] = Absent /\ Replace(0, f)
  /\ \E captures \in SUBSET (Variables \cup {Len(Shape) + 1}) :
       shapes' = [shapes EXCEPT ![Len(shapes)] =
                    [i \in 1 .. Len(@) + 1 |->
                       IF i \in captures THEN "captured"
                       ELSE IF i \in DOMAIN @ THEN @[i] ELSE "local"]]
  /\ UNCHANGED frames /\ Quiet /\ UNCHANGED globals

(* The end of a variable's scope: OP_POP, or OP_CLOSE_UPVAL if captured.   *)
EndScope ==
  /\ InCode /\ Len(Shape) \in Variables
  /\ Len(Shape) > 1 + (IF Frame.closure = Script THEN 0 ELSE Arity[Frame.closure])
  /\ stack' = Front(stack)
  /\ shapes' = [shapes EXCEPT ![Len(shapes)] = Front(@)]
  /\ closed' = IF Last(Shape) = "captured" THEN closed \cup {Peek(0)} ELSE closed
  /\ UNCHANGED <<frames, klass, fields, classes, globals, session>>

(* Upvalues: an open one refers to a captured variable of an activation    *)
(* that has not ended, and a closed one has the value itself.              *)
InClosure == InCode /\ Frame.closure \in Function /\ Owner[Frame.closure] = Absent

Captured  == {c \in (DOMAIN shapes) \X (1 .. StackMax) :
                c[2] \in DOMAIN shapes[c[1]] /\ shapes[c[1]][c[2]] = "captured"}
SlotOf(c) == frames[c[1]].slots + c[2] - 1

GetUpvalue ==
  /\ InClosure
  /\ \E v \in closed \cup {stack[SlotOf(c)] : c \in Captured} : Load(v)

(* Mutant: the slot next to the variable is written.                       *)
SetUpvalueNext ==
  /\ InClosure /\ Operands(1)
  /\ \/ /\ \E c \in Captured : stack' = [stack EXCEPT ![SlotOf(c) + 1] = Peek(0)]
        /\ UNCHANGED closed
     \/ /\ closed # {} /\ closed' = closed \cup {Peek(0)}
        /\ UNCHANGED stack
  /\ UNCHANGED <<frames, shapes, klass, fields, classes, globals, session>>

SetUpvalue ==
  /\ InClosure /\ Operands(1)
  /\ \/ /\ \E c \in Captured : stack' = [stack EXCEPT ![SlotOf(c)] = Peek(0)]
        /\ UNCHANGED closed
     \/ /\ closed # {} /\ closed' = closed \cup {Peek(0)}
        /\ UNCHANGED stack
  /\ UNCHANGED <<frames, shapes, klass, fields, classes, globals, session>>

Pop ==
  /\ InCode /\ Operands(1)
  /\ stack' = Front(stack)
  /\ shapes' = [shapes EXCEPT ![Len(shapes)] = Front(@)]
  /\ UNCHANGED frames /\ Quiet /\ UNCHANGED globals

GetGlobal(x) ==
  /\ InCode
  /\ IF globals[x] = Absent THEN RuntimeError ELSE Compute(0, globals[x])
  /\ Quiet /\ UNCHANGED globals

(* The value is stored first; then it is an error if the variable was new. *)
SetGlobal(x) ==
  /\ InCode /\ Operands(1)
  /\ globals' = [globals EXCEPT ![x] = Peek(0)]
  /\ IF globals[x] = Absent THEN RuntimeError ELSE UNCHANGED machine
  /\ Quiet

DefineGlobal(x) ==
  /\ InCode /\ Len(frames) = 1 /\ Operands(1) /\ Len(Shape) = 2
  /\ globals' = [globals EXCEPT ![x] = Peek(0)]
  /\ stack' = Front(stack)
  /\ shapes' = [shapes EXCEPT ![1] = Front(@)]
  /\ UNCHANGED frames /\ Quiet

Interpret ==
  /\ frames = <<>> /\ ~crashed /\ line < Lines
  /\ stack'  = Append(stack, Script)
  /\ frames' = <<[closure |-> Script, slots |-> Len(stack) + 1, made |-> Absent]>>
  /\ shapes' = << <<"callee">> >>
  /\ line'   = line + 1
  /\ UNCHANGED <<klass, fields, closed, classes, globals, crashed>>

Terminated == crashed \/ (frames = <<>> /\ line = Lines)
Halt == Terminated /\ UNCHANGED vars

Init ==
  /\ stack = <<>> /\ frames = <<>> /\ shapes = <<>>
  /\ klass   = [i \in Instance |-> Absent]
  /\ fields  = [i \in Instance |-> [n \in Name |-> Absent]]
  /\ methods = [c \in Class |-> [n \in Name |-> Absent]]
  /\ superOf = [c \in Class |-> Absent]
  /\ lineage = [c \in Class |-> {c}]
  /\ declared = {} /\ declaring = NotDeclaring
  /\ globals = [x \in Global |-> Absent] /\ closed = {}
  /\ line = 0 /\ crashed = FALSE

Next ==
  \/ Interpret \/ Const \/ GetClass \/ GetLocal \/ GetThis \/ SetLocal \/ Pop
  \/ Declare \/ Closure \/ EndScope \/ GetUpvalue \/ SetUpvalue
  \/ \E x \in Global : GetGlobal(x) \/ SetGlobal(x) \/ DefineGlobal(x)
  \/ \E argc \in 0 .. StackMax : Call(argc)
  \/ \E argc \in 0 .. StackMax, n \in Name : Invoke(n, argc) \/ SuperInvoke(n, argc)
  \/ \E n \in Name : GetProperty(n) \/ SetProperty(n) \/ GetSuper(n)
  \/ (\E c \in Class : BeginClass(c)) \/ Inherit \/ Method \/ EndClass
  \/ Return \/ ReturnScript \/ Halt

Spec == Init /\ [][Next]_vars

-------------------------------------------------------------------------------
(* Properties.                                                             *)

TypeOK ==
  /\ stack \in Seq(Value) /\ Len(stack) <= StackMax
  /\ frames \in Seq([closure : Function \cup {Script}, slots : Nat \ {0},
                     made : Instance \cup {Absent}])
  /\ Len(frames) <= FrameMax
  /\ shapes \in Seq(Seq(Kind))
  /\ klass \in [Instance -> Class \cup {Absent}]
  /\ fields \in [Instance -> [Name -> Value \cup {Absent}]]
  /\ methods \in [Class -> [Name -> Function \cup {Absent}]]
  /\ superOf \in [Class -> Class \cup {Absent}]
  /\ lineage \in [Class -> SUBSET Class]
  /\ declared \subseteq Class
  /\ declaring = NotDeclaring \/ declaring \in Class \X Nat
  /\ globals \in [Global -> Value \cup {Absent}]
  /\ closed \subseteq Value
  /\ line \in 0 .. Lines /\ crashed \in BOOLEAN

(* The stack is as high as the compiler counts it, in the running frame and*)
(* in every caller, whose count has the result already in the place of the *)
(* callee and its arguments: every local and operand lies where the code   *)
(* will look for it, and no line leaves anything to the next (call_value,  *)
(* vm.c:240, OP_RETURN, vm.c:390).                                         *)
StackMatchesCode ==
  /\ Len(shapes) = Len(frames)
  /\ frames = <<>> => stack = <<>>
  /\ frames # <<>> => /\ frames[1].slots = 1
                      /\ Len(stack) = Frame.slots + Len(Shape) - 1
  /\ \A i \in 1 .. Len(frames) - 1 :
       frames[i + 1].slots = frames[i].slots + Len(shapes[i]) - 1

(* Slot 0 of a method's frame holds an instance whose class declares or    *)
(* inherits the method, however the method was reached: through OP_INVOKE, *)
(* a bound method kept in a field, an initializer or super.                *)
Fits(v, f) == /\ v \in Instance /\ klass[v] # Absent
              /\ Owner[f] \in lineage[klass[v]]

ReceiverFits ==
  \A i \in DOMAIN frames :
    LET f == frames[i].closure IN
    f \in Function /\ Owner[f] # Absent => Fits(stack[frames[i].slots], f)

(* A name means, for a class, the last method its body declares under that *)
(* name, or else what it means for the superclass now: OP_INHERIT copies   *)
(* the methods once, before the body adds its own (vm.c:803, 725).         *)
Declared(c) == IF declaring # NotDeclaring /\ declaring[1] = c
               THEN declaring[2] ELSE Len(Declares[c])

MethodsNearest ==
  \A c \in declared : ~Extends[c] \/ superOf[c] # Absent =>
    \A n \in Name :
      LET own == {i \in 1 .. Declared(c) : Declares[c][i].name = n}
      IN methods[c][n] =
           IF own # {} THEN Declares[c][CHOOSE i \in own : \A j \in own : j <= i].method
           ELSE IF superOf[c] \in Class \ {c} THEN methods[superOf[c]][n] ELSE Absent

(* A class call whose initializer returns leaves the instance it made,     *)
(* whatever the initializer did in between.                                *)
ConstructorsYield ==
  [][frames' = Front(frames) /\ Len(frames) > 1 /\ Frame.made # Absent
       => Last(stack') = Frame.made]_vars

(* Every frame has its part of the stack to itself: a call takes the callee*)
(* and its arguments away from the caller and gives it one value back.  All*)
(* that changes in a caller that waits is a variable a closure captured,   *)
(* and one at a time (vm_call_frame_push, vm.c:226; OP_RETURN, vm.c:390;   *)
(* OP_SET_UPVAL, vm.c:616).                                                *)
Segment(i) ==
  SubSeq(stack, frames[i].slots,
         IF i = Len(frames) THEN Len(stack) ELSE frames[i + 1].slots - 1)

CapturedIn(i) == {j \in DOMAIN shapes[i] : shapes[i][j] = "captured"}

Private == INSTANCE Activations WITH
             acts   <- [i \in DOMAIN frames |-> Segment(i)],
             shared <- [i \in DOMAIN frames |-> CapturedIn(i)]
PrivateActivations == Private!Spec

-------------------------------------------------------------------------------
(* What the assertion of OP_GET_SUPER says and the code does not ensure.   *)

(* vm.c:848: the operand under the superclass is an instance, also when a  *)
(* method has assigned to `this'.                                          *)
SuperReceiver ==
  InCode /\ InSubclass /\ OnThis(0) => Peek(0) \in Instance
===============================================================================
