------------------------------- MODULE Upvalues -------------------------------
(***************************************************************************)
(* The value stack, the call frames and the upvalues of the virtual        *)
(* machine (src/src/vm.c): how a local variable lives on the stack, how    *)
(* OP_CLOSURE captures it, how it is moved to the heap when its scope ends *)
(* and how the closures that captured it reach it before and after.        *)
(*                                                                         *)
(* One action is one instruction of run(), except OP_CLOSURE, whose loop   *)
(* over the upvalue descriptors takes one step per descriptor.  The code   *)
(* that runs is any code the compiler may emit for a program whose         *)
(* functions are those of Fn: an operand names a live local of the running *)
(* frame, a scope that ends emits OP_CLOSE_UPVAL for its captured locals   *)
(* and OP_POP for the others, and a `return' stands in a function.  (The   *)
(* one construct that breaks this discipline, a `break' or `continue' out  *)
(* of a block with locals, belongs to the compiler and not to this module.)*)
(***************************************************************************)
EXTENDS Integers, Sequences, SequencesExt

CONSTANTS
  StackMax,    \* slots of vm.stack (STACK_MAX)
  FrameMax,    \* frames of vm.frames (CALL_FRAME_MAX)
  Lines,       \* sources interpreted: 1 for a file, more for the prompt
  Upval,       \* the UpvalueObj that may exist at one time
  NoUpval,     \* an entry of an upvalue array not filled in yet
  VarId,       \* the variable instances that may exist at one time
  Temp,        \* mark of a slot that holds an operand
  Callee,      \* mark of slot 0 of a frame
  Data,        \* values that are not functions
  Script,      \* the closure of a script
  Fn,          \* the functions declared; each is one ClosureObj constant
  Encl,        \* Encl[f]: the function, or the line, that declares f
  Arity,       \* Arity[f]: the parameters of f
  Upvals,      \* Upvals[f]: the upvalue descriptors emitted after OP_CLOSURE
  Unbound      \* see Variables

Value == Data \cup Fn \cup {Script}
Slot  == 0 .. StackMax - 1
Closed == -1                  \* loc of an upvalue that points to its own copy
NotCapturing == <<>>

ASSUME BoundsAssumption ==
  /\ StackMax \in Nat /\ StackMax > 1
  /\ FrameMax \in Nat /\ FrameMax > 0
  /\ Lines \in Nat /\ Lines > 0

ASSUME CodeAssumption ==
  /\ Encl \in [Fn -> Fn \cup 1 .. Lines]
  /\ Arity \in [Fn -> Nat]
  /\ Upvals \in [Fn -> Seq([local : BOOLEAN, index : Nat])]
  /\ \A f \in Fn :
       /\ Encl[f] # f
       /\ \A i \in DOMAIN Upvals[f] : ~Upvals[f][i].local =>
            Encl[f] \in Fn /\ Upvals[f][i].index < Len(Upvals[Encl[f]])

ASSUME SentinelAssumption ==
  /\ NoUpval \notin Upval
  /\ Temp \notin VarId /\ Callee \notin VarId /\ Temp # Callee
  /\ Script \notin Fn /\ Fn \cap (0 .. Lines) = {}
  /\ Unbound \notin Value /\ Data # {} /\ Data \cap (Fn \cup {Script}) = {}

VARIABLES
  stack,       \* vm.stack: every slot, the dead ones with what was left there
  stackTop,    \* vm.stack_top - vm.stack
  frames,      \* vm.frames[0 .. frame_count-1]: closure and slots of each
  open,        \* vm.open_upvalues, from its head
  loc,         \* where UpvalueObj.value points: a slot, or Closed
  cloned,      \* UpvalueObj.cloned
  closures,    \* ClosureObj.upvalues of every function
  global,      \* a global variable, which may hold a closure
  line,        \* sources given to interpret() so far
  capturing,   \* <<f, i>>: OP_CLOSURE for f is about to capture descriptor i
  (* What the code does not store but the properties speak about:          *)
  holds,       \* holds[s]: the variable in slot s, Temp or Callee
  captured,    \* the slots whose Local has `captured' set in the compiler
  owner,       \* owner[u]: the variable u was made for
  failed       \* a runtime error has happened in this session

vm      == <<stack, stackTop, frames>>
heap    == <<open, loc, cloned, closures, owner>>
ghost   == <<holds, captured>>
session == <<global, line, failed>>
vars    == <<vm, heap, ghost, session, capturing>>

-------------------------------------------------------------------------------
(* Reading the machine's state.                                            *)

Frame   == frames[Len(frames)]
Running == IF Frame.closure = Script THEN line ELSE Frame.closure
Idle    == capturing = NotCapturing
InCode  == Idle /\ frames # <<>>

Peek(distance) == stack[stackTop - 1 - distance]
IsTemp(s)      == s >= 0 /\ holds[s] = Temp

(* The slots that the operand of OP_GET_LOCAL and OP_SET_LOCAL may name.   *)
Locals == {s \in Frame.slots .. stackTop - 1 : holds[s] \in VarId}

(* The upvalue that an OP_GET_UPVAL or OP_SET_UPVAL of the running frame   *)
(* may name, and what is read through one.                                 *)
RunningUpvals ==
  IF Frame.closure = Script THEN {} ELSE Range(closures[Frame.closure])
Deref(u) == IF loc[u] = Closed THEN cloned[u] ELSE stack[loc[u]]

(* The upvalues an object or the machine still refers to: the others are   *)
(* garbage, and the collector may hand their memory out again.             *)
Referred ==
  (Range(open) \cup UNION {Range(closures[f]) : f \in Fn}) \ {NoUpval}

(* The variables that some code can still name.                            *)
OnStack == {holds[s] : s \in 0 .. stackTop - 1} \cap VarId
Named   == OnStack \cup {owner[u] : u \in Referred}

(* The compiler marks a local captured if a function inside names it.      *)
MayBeCaptured(fn, index) ==
  \E g \in Fn : /\ Encl[g] = fn
                /\ \E d \in Range(Upvals[g]) : d.local /\ d.index = index

-------------------------------------------------------------------------------
(* The stack.                                                              *)

(* Bound: the code pushes without looking at STACK_MAX.                    *)
Push(x, mark) ==
  /\ stackTop < StackMax
  /\ stack'    = [stack EXCEPT ![stackTop] = x]
  /\ stackTop' = stackTop + 1
  /\ holds'    = [holds EXCEPT ![stackTop] = mark]

(* The slots from n on are dead, and keep what they hold.                  *)
Kill(n) == /\ holds'    = [s \in Slot |-> IF s < n THEN holds[s] ELSE Temp]
           /\ captured' = captured \cap 0 .. n - 1

PopTo(n) == stackTop' = n /\ Kill(n) /\ UNCHANGED stack

(* The stack and the frames are reset, and nothing else.                   *)
RuntimeError ==
  /\ PopTo(0)
  /\ frames' = <<>>
  /\ failed' = TRUE
  /\ UNCHANGED <<heap, global, line, capturing>>

-------------------------------------------------------------------------------
(* Upvalues.                                                               *)

NewUpvalue(f, i, s, k, u) ==
  /\ open'     = InsertAt(open, k, u)
  /\ loc'      = [loc EXCEPT ![u] = s]
  /\ owner'    = [owner EXCEPT ![u] = holds[s]]
  /\ closures' = [closures EXCEPT ![f][i] = u]
  /\ UNCHANGED cloned

ShareUpvalue(f, i, u) ==
  /\ closures' = [closures EXCEPT ![f][i] = u]
  /\ UNCHANGED <<open, loc, owner, cloned>>

(* Mutants: the new upvalue always goes to the head; none is shared; the   *)
(* collector has freed an upvalue that only a closure refers to.           *)
CaptureUpvalAtHead(f, i, s) ==
  IF \E w \in Range(open) : loc[w] = s
    THEN \E w \in Range(open) : loc[w] = s /\ ShareUpvalue(f, i, w)
    ELSE \E u \in Upval \ Referred : NewUpvalue(f, i, s, 1, u)

CaptureUpvalUnshared(f, i, s) ==
  \E k \in 1 .. Len(open) + 1, u \in Upval \ Referred :
    /\ \A j \in DOMAIN open : j < k <=> s < loc[open[j]]
    /\ NewUpvalue(f, i, s, k, u)

CaptureUpvalFreed(f, i, s) ==
  \E k \in 1 .. Len(open) + 1, u \in Upval \ Range(open) :
    /\ \A j \in DOMAIN open : j < k <=> s < loc[open[j]]
    /\ NewUpvalue(f, i, s, k, u)

(* The descending list is walked as far as the first upvalue that is not   *)
(* above slot s, which is shared if it refers to s.                        *)
CaptureUpval(f, i, s) ==
  \E k \in 1 .. Len(open) + 1 :
    /\ \A j \in 1 .. k - 1 : s < loc[open[j]]
    /\ k <= Len(open) => ~(s < loc[open[k]])
    /\ IF k <= Len(open) /\ loc[open[k]] = s
         THEN ShareUpvalue(f, i, open[k])
         ELSE \E u \in Upval \ Referred : NewUpvalue(f, i, s, k, u)

(* Mutants: the upvalue is pointed to its copy before the copy is made; it *)
(* is taken off the list and left pointing to the stack.                   *)
CloseUpvaluesSwapped(last) ==
  LET gone == {u \in Range(open) : loc[u] >= last} IN
  /\ open' = SelectSeq(open, LAMBDA u : u \notin gone)
  /\ loc'  = [u \in Upval |-> IF u \in gone THEN Closed ELSE loc[u]]
  /\ UNCHANGED <<cloned, closures, owner>>

CloseUpvaluesUnlinked(last) ==
  /\ open' = SelectSeq(open, LAMBDA u : loc[u] < last)
  /\ UNCHANGED <<loc, cloned, closures, owner>>

(* Upvalues are taken off the head of the list, each with a copy of its    *)
(* slot, up to the first that refers below slot `last'.                    *)
CloseUpvalues(last) ==
  \E k \in 0 .. Len(open) :
    LET gone == {open[i] : i \in 1 .. k} IN
    /\ \A u \in gone : loc[u] >= last
    /\ k < Len(open) => ~(loc[open[k + 1]] >= last)
    /\ open'   = SubSeq(open, k + 1, Len(open))
    /\ loc'    = [u \in Upval |-> IF u \in gone THEN Closed ELSE loc[u]]
    /\ cloned' = [u \in Upval |->
                    IF u \in gone THEN stack[loc[u]] ELSE cloned[u]]
    /\ UNCHANGED <<closures, owner>>

-------------------------------------------------------------------------------
(* The instructions.                                                       *)

(* The next source is compiled and its script called.                      *)
Interpret ==
  /\ frames = <<>> /\ line < Lines
  /\ Push(Script, Callee)
  /\ frames' = <<[closure |-> Script, slots |-> stackTop]>>
  /\ line'   = line + 1
  /\ UNCHANGED <<heap, captured, global, failed, capturing>>

PushOperand(x) ==
  InCode /\ Push(x, Temp) /\ UNCHANGED <<frames, heap, captured, session, capturing>>

Const     == \E x \in Data : PushOperand(x)
GetLocal  == InCode /\ \E s \in Locals : PushOperand(stack[s])
GetUpval  == InCode /\ \E u \in RunningUpvals : PushOperand(Deref(u))
GetGlobal == PushOperand(global)

(* The instructions that store the operand on top and leave it there.      *)
Storing == /\ InCode /\ IsTemp(stackTop - 1)
           /\ UNCHANGED <<stackTop, frames, open, loc, closures, owner, ghost,
                          line, failed, capturing>>

SetLocal ==
  /\ Storing
  /\ \E s \in Locals : stack' = [stack EXCEPT ![s] = Peek(0)]
  /\ UNCHANGED <<cloned, global>>

SetUpval ==
  /\ Storing
  /\ \E u \in RunningUpvals :
       IF loc[u] = Closed
         THEN cloned' = [cloned EXCEPT ![u] = Peek(0)] /\ UNCHANGED stack
         ELSE stack' = [stack EXCEPT ![loc[u]] = Peek(0)] /\ UNCHANGED cloned
  /\ UNCHANGED global

SetGlobal == Storing /\ global' = Peek(0) /\ UNCHANGED <<stack, cloned>>

(* OP_POP of an operand.                                                   *)
Pop ==
  /\ InCode /\ IsTemp(stackTop - 1)
  /\ PopTo(stackTop - 1)
  /\ UNCHANGED <<frames, heap, session, capturing>>

(* A new local in slot s, on top of the locals of its frame.               *)
NewLocal(s) ==
  /\ \A r \in Frame.slots + 1 .. s - 1 : holds[r] \in VarId
  /\ \/ captured' = captured
     \/ /\ MayBeCaptured(Running, s - Frame.slots)
        /\ captured' = captured \cup {s}

(* `var': the initializer's value becomes a local where it lies.           *)
Declare ==
  /\ InCode /\ IsTemp(stackTop - 1)
  /\ NewLocal(stackTop - 1)
  /\ \E v \in VarId \ Named : holds' = [holds EXCEPT ![stackTop - 1] = v]
  /\ UNCHANGED <<vm, heap, session, capturing>>

(* end_scope() emitted OP_POP for a local that no function captures and    *)
(* OP_CLOSE_UPVAL for one that some function does.                         *)
EndLocal ==
  /\ InCode /\ stackTop > 0 /\ holds[stackTop - 1] \in VarId
  /\ IF stackTop - 1 \in captured THEN CloseUpvalues(stackTop - 1)
                                  ELSE UNCHANGED heap
  /\ PopTo(stackTop - 1)
  /\ UNCHANGED <<frames, session, capturing>>

(* Mutant: the loop stops one descriptor early.                            *)
AfterShort(f, i) == IF i < Len(Upvals[f]) THEN <<f, i>> ELSE NotCapturing

After(f, i) == IF i <= Len(Upvals[f]) THEN <<f, i>> ELSE NotCapturing

(* OP_CLOSURE pushes the one ClosureObj of f, as the local `fun f' declares *)
(* or as an operand, then goes through the descriptors of f.               *)
Closure ==
  /\ InCode
  /\ \E f \in Fn :
       /\ Encl[f] = Running
       /\ \/ Push(f, Temp) /\ captured' = captured
          \/ /\ \E v \in VarId \ Named : Push(f, v)
             /\ NewLocal(stackTop)
       /\ \A d \in Range(Upvals[f]) : d.local =>
            /\ Frame.slots + d.index \in captured'
            /\ holds'[Frame.slots + d.index] \in VarId
       /\ capturing' = After(f, 1)
  /\ UNCHANGED <<frames, heap, session>>

CaptureNext ==
  /\ ~Idle
  /\ LET f == capturing[1]
         i == capturing[2]
         d == Upvals[f][i]
     IN /\ IF d.local
             THEN CaptureUpval(f, i, Frame.slots + d.index)
             ELSE ShareUpvalue(f, i, closures[Frame.closure][d.index + 1])
        /\ capturing' = After(f, i + 1)
  /\ UNCHANGED <<vm, ghost, session>>

(* A frame for a callee that takes argc arguments: slot 0 is the callee's, *)
(* the arguments become the parameters.                                    *)
PushFrame(callee, argc) ==
  LET slots  == stackTop - argc - 1
      params == slots + 1 .. stackTop - 1
  IN /\ frames' = Append(frames, [closure |-> callee, slots |-> slots])
     /\ \E p \in Injection(params, VarId \ Named) :
          holds' = [s \in Slot |-> IF s \in params THEN p[s]
                                   ELSE IF s = slots THEN Callee ELSE holds[s]]
     /\ \E C \in SUBSET {s \in params : MayBeCaptured(callee, s - slots)} :
          captured' = captured \cup C

(* OP_CALL of a function, or of what cannot be called so.  Bound: there is *)
(* room for what the callee pushes.                                        *)
Call(argc) ==
  /\ InCode /\ stackTop < StackMax
  /\ \A d \in 0 .. argc : IsTemp(stackTop - 1 - d)
  /\ LET callee == Peek(argc) IN
     IF callee \in Fn /\ Len(frames) < FrameMax /\ argc = Arity[callee]
       THEN /\ PushFrame(callee, argc)
            /\ UNCHANGED <<stack, stackTop, heap, session, capturing>>
       ELSE RuntimeError

(* Any instruction may meet operands of the wrong type.                    *)
OperandError == InCode /\ IsTemp(stackTop - 1) /\ RuntimeError

(* The value returned replaces the frame's slots.                          *)
Leave == /\ InCode /\ Len(frames) > 1 /\ IsTemp(stackTop - 1)
         /\ Kill(Frame.slots)
         /\ stackTop' = Frame.slots + 1
         /\ stack'    = [stack EXCEPT ![Frame.slots] = Peek(0)]
         /\ frames'   = SubSeq(frames, 1, Len(frames) - 1)
         /\ UNCHANGED <<session, capturing>>

(* Mutant: close_upvalues is not called.                                   *)
ReturnUnclosed == Leave /\ UNCHANGED heap

(* OP_RETURN from a function: its locals are closed and dropped.           *)
Return == Leave /\ CloseUpvalues(Frame.slots)

(* Mutant: one value too many is popped.                                   *)
ReturnScriptExtraPop ==
  /\ InCode /\ Len(frames) = 1
  /\ stackTop = Frame.slots + 2 /\ IsTemp(stackTop - 1)
  /\ PopTo(stackTop - 3) /\ frames' = <<>>
  /\ UNCHANGED <<heap, session, capturing>>

(* OP_RETURN from the script, where no scope is open: the value and the    *)
(* script's closure are popped and run() ends.                             *)
ReturnScript ==
  /\ InCode /\ Len(frames) = 1
  /\ stackTop = Frame.slots + 2 /\ IsTemp(stackTop - 1)
  /\ PopTo(stackTop - 2) /\ frames' = <<>>
  /\ UNCHANGED <<heap, session, capturing>>

(* The file, or the input of the prompt, has ended.                        *)
Terminated == frames = <<>> /\ line = Lines /\ UNCHANGED vars

Init ==
  /\ \E x \in Data : /\ stack  = [s \in Slot |-> x]
                     /\ cloned = [u \in Upval |-> x]
                     /\ global = x
  /\ stackTop = 0 /\ frames = <<>> /\ capturing = NotCapturing
  /\ open     = <<>>
  /\ loc      = [u \in Upval |-> Closed]
  /\ closures = [f \in Fn |-> [i \in DOMAIN Upvals[f] |-> NoUpval]]
  /\ line     = 0 /\ failed = FALSE
  /\ holds    = [s \in Slot |-> Temp] /\ captured = {}
  /\ owner    = [u \in Upval |-> Unbound]

Next ==
  \/ Interpret \/ Const \/ GetLocal \/ SetLocal \/ GetUpval \/ SetUpval
  \/ GetGlobal \/ SetGlobal \/ Pop \/ Declare \/ EndLocal
  \/ Closure \/ CaptureNext
  \/ \E argc \in 0 .. StackMax : Call(argc)
  \/ OperandError \/ Return \/ ReturnScript \/ Terminated

Spec == Init /\ [][Next]_vars

-------------------------------------------------------------------------------
(* Properties.                                                             *)

TypeOK ==
  /\ stack \in [Slot -> Value]
  /\ stackTop \in 0 .. StackMax
  /\ frames \in Seq([closure : Fn \cup {Script}, slots : Slot])
  /\ open \in Seq(Upval)
  /\ loc \in [Upval -> Slot \cup {Closed}]
  /\ cloned \in [Upval -> Value]
  /\ closures \in [Fn -> Seq(Upval \cup {NoUpval})]
  /\ \A f \in Fn : Len(closures[f]) = Len(Upvals[f])
  /\ global \in Value
  /\ line \in 0 .. Lines
  /\ capturing = NotCapturing \/ capturing \in Fn \X (Nat \ {0})
  /\ holds \in [Slot -> VarId \cup {Temp, Callee}]
  /\ captured \subseteq Slot
  /\ owner \in [Upval -> VarId \cup {Unbound}]
  /\ failed \in BOOLEAN

(* The open list is sorted by slot with no slot twice, its head the        *)
(* highest, through every capture, close and error: capture_upval's search *)
(* and close_upvalues' loop both stop early and rely on it.                *)
OpenSorted ==
  /\ \A u \in Range(open) : loc[u] # Closed
  /\ \A i, j \in 1 .. Len(open) : i < j => loc[open[i]] > loc[open[j]]

(* An upvalue that something refers to points into the stack if and only   *)
(* if it is in the open list, so that the scope's end will find it         *)
(* (close_upvalues, vm.c:339).                                             *)
OpenIffListed ==
  \A u \in Referred : loc[u] # Closed <=> u \in Range(open)

(* Until a runtime error cuts the stack and leaves the list as it is, an   *)
(* upvalue in the list refers to a slot in use, of a local the compiler    *)
(* marked captured, and to the very variable it was made for: no upvalue   *)
(* outlives the slot it points to (vm.h:43).                               *)
OpenLive ==
  failed \/ \A u \in Range(open) : /\ loc[u] < stackTop
                                   /\ loc[u] \in captured
                                   /\ holds[loc[u]] = owner[u]

(* Closures that captured one variable share one upvalue, and a variable   *)
(* that was closed has left the stack: no write to it is missed by anyone. *)
OneCell ==
  failed \/ /\ \A u, w \in Referred : owner[u] = owner[w] => u = w
            /\ \A u \in Referred : loc[u] = Closed => owner[u] \notin OnStack

(* A closure that code can get hold of has every upvalue filled in: no     *)
(* OP_GET_UPVAL or OP_SET_UPVAL goes through an entry not captured yet,    *)
(* and no inner closure copies one (vm.c:592-602).                         *)
ClosuresComplete ==
  \A f \in Fn :
    /\ \/ \E s \in 0 .. stackTop - 1 : stack[s] = f
       \/ global = f
       \/ \E u \in Referred : loc[u] = Closed /\ cloned[u] = f
    /\ Idle \/ capturing[1] # f
    => NoUpval \notin Range(closures[f])

(* An upvalue that was closed never points into the stack again and is     *)
(* never put back on the list, whatever is captured later.                 *)
ClosedForGood ==
  [][\A u \in Referred \cap Referred' :
       loc[u] = Closed => loc'[u] = Closed /\ u \notin Range(open')]_vars

(* The machine keeps the promise of lexical scoping: each variable is one  *)
(* cell, read through its slot while it has one and through its upvalue    *)
(* after, and only an assignment to it changes it.                         *)
CellOf(v) ==
  LET slots == {s \in 0 .. stackTop - 1 : holds[s] = v}
      upvs  == {u \in Referred : owner[u] = v}
  IN CASE slots # {} -> stack[CHOOSE s \in slots : TRUE]
       [] slots = {} /\ upvs # {} -> Deref(CHOOSE u \in upvs : TRUE)
       [] OTHER -> Unbound

Operands == {s \in 0 .. stackTop - 1 : holds[s] = Temp}

Scoping == INSTANCE Variables WITH
             Place    <- Slot,
             cell     <- [v \in VarId |-> CellOf(v)],
             operands <- [s \in Operands |-> stack[s]],
             broken   <- failed
LexicalScoping == Scoping!Spec

-------------------------------------------------------------------------------
(* What the comments of vm.h say and the code does not do.                 *)

(* vm.h:46-48: a captured variable is kept alive when its scope is gone,   *)
(* so a closure that runs reaches, through each upvalue, either the copy   *)
(* or the live slot of the variable it captured.                           *)
RunningUpvaluesLive ==
  \A i \in DOMAIN frames : frames[i].closure \in Fn =>
    \A u \in Range(closures[frames[i].closure]) \ {NoUpval} :
      loc[u] # Closed => loc[u] < stackTop /\ holds[loc[u]] = owner[u]

(* vm.h:82-83: a closure invoked outside the scope uses the values it      *)
(* captured, that is, running OP_CLOSURE again does not change what a      *)
(* closure held somewhere else captured.                                   *)
HeldElsewhere(f) ==
  \/ \E s \in 0 .. stackTop - 2 : stack[s] = f
  \/ global = f

CapturesKept ==
  [][\A f \in Fn : HeldElsewhere(f) /\ NoUpval \notin Range(closures[f])
       => closures'[f] = closures[f]]_vars
===============================================================================
