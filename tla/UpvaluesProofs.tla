---------------------------- MODULE UpvaluesProofs ----------------------------
(***************************************************************************)
(* What Upvalues keeps for every program, stack size, call depth and       *)
(* number of lines.  Typing is proved first, and with it that no closure   *)
(* is ever in reach of code with an upvalue missing; then the list of open *)
(* upvalues; then that each variable is one cell, and with it that the     *)
(* machine implements Variables.                                           *)
(***************************************************************************)
EXTENDS Upvalues, SequenceTheorems, TLAPS

-------------------------------------------------------------------------------
(* Sequences.                                                              *)

LEMMA InsertAtProperties ==
  ASSUME NEW S, NEW s \in Seq(S), NEW k \in 1 .. Len(s) + 1, NEW e \in S
  PROVE  /\ InsertAt(s, k, e) \in Seq(S)
         /\ Len(InsertAt(s, k, e)) = Len(s) + 1
         /\ \A i \in 1 .. Len(s) + 1 :
              InsertAt(s, k, e)[i] = IF i < k THEN s[i]
                                     ELSE IF i = k THEN e ELSE s[i - 1]
<1> DEFINE a == SubSeq(s, 1, k - 1)
           b == SubSeq(s, k, Len(s))
<1>1. /\ a \in Seq(S) /\ Len(a) = k - 1
      /\ \A i \in 1 .. k - 1 : a[i] = s[i]
  BY SubSeqProperties, LenProperties
<1>2. /\ b \in Seq(S) /\ Len(b) = Len(s) - k + 1
      /\ \A i \in 1 .. Len(s) - k + 1 : b[i] = s[k + i - 1]
  BY SubSeqProperties, LenProperties
<1> DEFINE c == a \o <<e>>
<1>3. /\ c \in Seq(S) /\ Len(c) = k
      /\ \A i \in 1 .. k : c[i] = IF i < k THEN s[i] ELSE e
  <2> HIDE DEF a, b
  <2>1. /\ c = Append(a, e) /\ Len(s) \in Nat
    BY <1>1, AppendIsConcat, LenProperties
  <2>2. /\ Append(a, e) \in Seq(S) /\ Len(Append(a, e)) = Len(a) + 1
        /\ \A i \in 1 .. Len(a) : Append(a, e)[i] = a[i]
        /\ Append(a, e)[Len(a) + 1] = e
    BY <1>1, AppendProperties
  <2> HIDE DEF c
  <2>3. QED
    BY <1>1, <2>1, <2>2
<1>4. InsertAt(s, k, e) = c \o b
  BY DEF InsertAt
<1>5. Len(s) \in Nat /\ k + (Len(s) - k + 1) = Len(s) + 1
  BY LenProperties
<1> HIDE DEF a, b, c
<1>6. /\ c \o b \in Seq(S)
      /\ Len(c \o b) = Len(c) + Len(b)
      /\ \A i \in 1 .. Len(c) + Len(b) :
           (c \o b)[i] = IF i <= Len(c) THEN c[i] ELSE b[i - Len(c)]
  BY <1>2, <1>3, ConcatProperties, Zenon
<1>7. /\ c \o b \in Seq(S)
      /\ Len(c \o b) = Len(s) + 1
      /\ \A i \in 1 .. Len(s) + 1 :
           (c \o b)[i] = IF i <= k THEN c[i] ELSE b[i - k]
  BY <1>6, <1>2, <1>3, <1>5
<1>8. ASSUME NEW i \in 1 .. Len(s) + 1
      PROVE  InsertAt(s, k, e)[i] = IF i < k THEN s[i]
                                    ELSE IF i = k THEN e ELSE s[i - 1]
  <2>1. CASE i <= k
    BY <2>1, <1>3, <1>4, <1>7
  <2>2. CASE i > k
    <3>1. i - k \in 1 .. Len(s) - k + 1 /\ k + (i - k) - 1 = i - 1
      BY <2>2, <1>5
    <3>2. b[i - k] = s[i - 1]
      BY <3>1, <1>2
    <3>3. QED
      BY <2>2, <3>2, <1>4, <1>7
  <2>3. QED
    BY <2>1, <2>2, <1>5
<1>9. QED
  BY <1>4, <1>7, <1>8

-------------------------------------------------------------------------------
(* Typing.  TypeOK is not inductive: OP_GET_UPVAL pushes what it finds     *)
(* through the running closure's upvalue, so the running closure must have *)
(* every upvalue filled in, and so must whatever it may call.              *)

Complete(f) == \A i \in DOMAIN Upvals[f] : closures[f][i] \in Upval

Known(f) ==
  \/ \E s \in Slot : stack[s] = f
  \/ \E u \in Upval : cloned[u] = f
  \/ global = f
  \/ \E i \in DOMAIN frames : frames[i].closure = f

KnownComplete ==
  \A f \in Fn : Known(f) => Complete(f) \/ (~Idle /\ capturing[1] = f)

(* OP_CLOSURE is at a descriptor of a function declared in the running     *)
(* code, with the earlier ones done and the locals it names in place.      *)
CapturingOK ==
  ~Idle => /\ frames # <<>>
           /\ capturing \in Fn \X (Nat \ {0})
           /\ capturing[2] \in DOMAIN Upvals[capturing[1]]
           /\ Encl[capturing[1]] = Running
           /\ \A j \in 1 .. capturing[2] - 1 :
                closures[capturing[1]][j] \in Upval
           /\ \A d \in Range(Upvals[capturing[1]]) : d.local =>
                /\ Frame.slots + d.index \in captured
                /\ holds[Frame.slots + d.index] \in VarId

Typed == TypeOK /\ KnownComplete /\ CapturingOK

USE DEF Closed, NotCapturing

LEMMA InitTyped == Init => Typed
<1> SUFFICES ASSUME Init PROVE Typed
  OBVIOUS
<1>1. TypeOK
  <2>1. \A f \in Fn : /\ closures[f] \in Seq(Upval \cup {NoUpval})
                      /\ Len(closures[f]) = Len(Upvals[f])
    BY CodeAssumption, LenProperties DEF Init
  <2>2. closures \in [Fn -> Seq(Upval \cup {NoUpval})]
    BY <2>1 DEF Init
  <2>3. QED
    BY <2>1, <2>2, BoundsAssumption, SentinelAssumption, EmptySeq
    DEF Init, TypeOK, Slot, Value
<1>2. KnownComplete
  BY SentinelAssumption DEF Init, KnownComplete, Known
<1>3. CapturingOK
  BY DEF Init, CapturingOK, Idle
<1>4. QED
  BY <1>1, <1>2, <1>3 DEF Typed

(* A step outside OP_CLOSURE that makes no new function known.             *)
LEMMA SameClosures ==
  ASSUME Typed, Idle, TypeOK', UNCHANGED <<closures, capturing>>,
         \A f \in Fn : Known(f)' => Known(f)
  PROVE  Typed'
BY DEF Typed, KnownComplete, CapturingOK, Idle, Complete

LEMMA FrameTyped ==
  ASSUME TypeOK, frames # <<>>
  PROVE  /\ Len(frames) \in DOMAIN frames
         /\ Frame \in [closure : Fn \cup {Script}, slots : Slot]
<1> DEFINE S == [closure : Fn \cup {Script}, slots : Slot]
<1>1. frames \in Seq(S)
  BY DEF TypeOK
<1> HIDE DEF S
<1>2. Len(frames) \in Nat \ {0} /\ DOMAIN frames = 1 .. Len(frames)
  BY <1>1, EmptySeq, LenProperties
<1>3. frames[Len(frames)] \in S
  BY <1>1, <1>2, ElementOfSeq
<1>4. QED
  BY <1>2, <1>3 DEF Frame, S

LEMMA PeekKnown ==
  ASSUME TypeOK, NEW d \in Nat, stackTop - 1 - d >= 0
  PROVE  /\ stackTop - 1 - d \in Slot
         /\ Peek(d) \in Value
         /\ \A f \in Fn : Peek(d) = f => Known(f)
BY BoundsAssumption DEF TypeOK, Peek, Slot, Known

LEMMA PushTyped ==
  ASSUME TypeOK, NEW x \in Value, NEW mark \in VarId \cup {Temp, Callee},
         Push(x, mark)
  PROVE  /\ stack' \in [Slot -> Value] /\ stackTop' \in 0 .. StackMax
         /\ holds' \in [Slot -> VarId \cup {Temp, Callee}]
         /\ \A s \in Slot : stack'[s] = x \/ stack'[s] = stack[s]
BY BoundsAssumption DEF TypeOK, Push, Slot

LEMMA PopTyped ==
  ASSUME TypeOK, NEW n \in 0 .. StackMax, PopTo(n)
  PROVE  /\ stack' = stack /\ stackTop' \in 0 .. StackMax
         /\ holds' \in [Slot -> VarId \cup {Temp, Callee}]
         /\ captured' \subseteq Slot
BY BoundsAssumption DEF TypeOK, PopTo, Kill, Slot

LEMMA CloseTyped ==
  ASSUME TypeOK, NEW last \in Slot, CloseUpvalues(last)
  PROVE  /\ open' \in Seq(Upval)
         /\ loc' \in [Upval -> Slot \cup {Closed}]
         /\ cloned' \in [Upval -> Value]
         /\ \A u \in Upval : \/ cloned'[u] = cloned[u]
                             \/ \E s \in Slot : cloned'[u] = stack[s]
         /\ UNCHANGED <<closures, owner>>
<1>1. PICK k \in 0 .. Len(open) :
        /\ \A u \in {open[i] : i \in 1 .. k} : loc[u] >= last
        /\ open' = SubSeq(open, k + 1, Len(open))
        /\ loc' = [u \in Upval |-> IF u \in {open[i] : i \in 1 .. k}
                                     THEN Closed ELSE loc[u]]
        /\ cloned' = [u \in Upval |-> IF u \in {open[i] : i \in 1 .. k}
                                        THEN stack[loc[u]] ELSE cloned[u]]
        /\ UNCHANGED <<closures, owner>>
  BY DEF CloseUpvalues
<1>2. open' \in Seq(Upval)
  <2>1. /\ Len(open) \in Nat
        /\ \A i \in k + 1 .. Len(open) : open[i] \in Upval
    BY LenProperties, ElementOfSeq DEF TypeOK
  <2>2. QED
    BY <1>1, <2>1, SubSeqProperties
<1>3. \A u \in {open[i] : i \in 1 .. k} : u \in Upval => loc[u] \in Slot
  BY <1>1 DEF TypeOK, Slot
<1>4. QED
  BY <1>1, <1>2, <1>3 DEF TypeOK

LEMMA CaptureTyped ==
  ASSUME TypeOK, NEW f \in Fn, NEW i \in DOMAIN Upvals[f], NEW s \in Slot,
         holds[s] \in VarId, CaptureUpval(f, i, s)
  PROVE  /\ open' \in Seq(Upval)
         /\ loc' \in [Upval -> Slot \cup {Closed}]
         /\ owner' \in [Upval -> VarId \cup {Unbound}]
         /\ \E u \in Upval : closures' = [closures EXCEPT ![f][i] = u]
         /\ cloned' = cloned
<1>1. PICK k \in 1 .. Len(open) + 1 :
        IF k <= Len(open) /\ loc[open[k]] = s
          THEN ShareUpvalue(f, i, open[k])
          ELSE \E u \in Upval \ Referred : NewUpvalue(f, i, s, k, u)
  BY DEF CaptureUpval
<1>2. /\ Len(open) \in Nat
      /\ \A j \in 1 .. Len(open) : open[j] \in Upval
  BY LenProperties, ElementOfSeq DEF TypeOK
<1>3. CASE k <= Len(open) /\ loc[open[k]] = s
  <2>1. open[k] \in Upval
    BY <1>2, <1>3
  <2>2. ShareUpvalue(f, i, open[k])
    BY <1>1, <1>3
  <2>3. QED
    BY <2>1, <2>2 DEF TypeOK, ShareUpvalue
<1>4. CASE ~(k <= Len(open) /\ loc[open[k]] = s)
  <2>1. PICK u \in Upval : NewUpvalue(f, i, s, k, u)
    BY <1>1, <1>4
  <2>2. InsertAt(open, k, u) \in Seq(Upval)
    BY InsertAtProperties DEF TypeOK
  <2>3. QED
    BY <2>1, <2>2 DEF TypeOK, NewUpvalue
<1>5. QED
  BY <1>3, <1>4

(* A descriptor that is not local copies an upvalue that the running       *)
(* closure has.                                                            *)
LEMMA EnclosingEntry ==
  ASSUME Typed, NEW f \in Fn, NEW i \in Nat \ {0}, capturing = <<f, i>>,
         ~Upvals[f][i].local
  PROVE  /\ Frame.closure \in Fn
         /\ Upvals[f][i].index + 1 \in DOMAIN closures[Frame.closure]
         /\ closures[Frame.closure][Upvals[f][i].index + 1] \in Upval
<1> DEFINE d == Upvals[f][i]
<1>1. frames # <<>> /\ i \in DOMAIN Upvals[f] /\ Encl[f] = Running
  BY DEF Typed, CapturingOK, Idle
<1>2. d \in [local : BOOLEAN, index : Nat]
  BY <1>1, CodeAssumption, LenProperties, ElementOfSeq
<1>3. /\ Encl[f] \in Fn /\ Encl[f] # f
      /\ d.index \in Nat /\ d.index < Len(Upvals[Encl[f]])
  BY <1>1, <1>2, CodeAssumption
<1> HIDE DEF d
<1>4. Frame.closure = Encl[f] /\ Known(Frame.closure)
  <2>1. Frame.closure # Script
    BY <1>1, <1>3, SentinelAssumption DEF Running, Typed, TypeOK
  <2>2. QED
    BY <1>1, <2>1, FrameTyped DEF Running, Frame, Known, Typed
<1>5. Complete(Encl[f])
  BY <1>3, <1>4 DEF Typed, KnownComplete
<1>6. d.index + 1 \in DOMAIN Upvals[Encl[f]]
  BY <1>3, CodeAssumption, LenProperties
<1>7. DOMAIN closures[Encl[f]] = DOMAIN Upvals[Encl[f]]
  BY <1>3, CodeAssumption, LenProperties DEF Typed, TypeOK
<1>8. QED
  BY <1>3, <1>4, <1>5, <1>6, <1>7 DEF Complete, d

LEMMA NextTyped == Typed /\ [Next]_vars => Typed'
<1> SUFFICES ASSUME Typed, [Next]_vars PROVE Typed'
  OBVIOUS
<1> USE DEF Typed
<1>1. CASE UNCHANGED vars
  BY <1>1 DEF vars, vm, heap, ghost, session, TypeOK, KnownComplete, Known,
              Complete, CapturingOK, Idle, Running, Frame
<1>2. CASE Interpret
  <2>1. [closure |-> Script, slots |-> stackTop] \in
          [closure : Fn \cup {Script}, slots : Slot]
    <3>1. stackTop \in Slot
      BY <1>2, BoundsAssumption DEF Interpret, Push, TypeOK, Slot
    <3>2. QED
      BY <3>1
  <2>2. Script \in Value /\ Idle
    <3>1. frames = <<>>
      BY <1>2 DEF Interpret
    <3>2. QED
      BY <3>1 DEF Value, CapturingOK
  <2>3. TypeOK'
    <3>1. /\ stack' \in [Slot -> Value] /\ stackTop' \in 0 .. StackMax
          /\ holds' \in [Slot -> VarId \cup {Temp, Callee}]
      BY <1>2, <2>2, PushTyped DEF Interpret
    <3>2. frames' \in Seq([closure : Fn \cup {Script}, slots : Slot])
      BY <1>2, <2>1 DEF Interpret
    <3>3. line' \in 0 .. Lines
      BY <1>2, BoundsAssumption DEF Interpret, TypeOK
    <3>4. QED
      BY <1>2, <3>1, <3>2, <3>3 DEF Interpret, heap, TypeOK
  <2>4. \A f \in Fn : Known(f)' => Known(f)
    BY <1>2, <2>2, PushTyped, SentinelAssumption DEF Interpret, heap, Known
  <2>5. QED
    BY <1>2, <2>2, <2>3, <2>4, SameClosures DEF Interpret, heap
<1>3. ASSUME NEW x \in Value, PushOperand(x),
             \A f \in Fn : x = f => Known(f)
      PROVE  Typed'
  <2>1. Idle /\ Push(x, Temp)
    BY <1>3 DEF PushOperand, InCode
  <2>2. TypeOK'
    BY <1>3, <2>1, PushTyped DEF PushOperand, heap, session, TypeOK
  <2>3. \A f \in Fn : Known(f)' => Known(f)
    BY <1>3, <2>1, PushTyped DEF PushOperand, heap, session, Known
  <2>4. QED
    BY <1>3, <2>1, <2>2, <2>3, SameClosures DEF PushOperand, heap
<1>4. CASE Const
  BY <1>3, <1>4, SentinelAssumption DEF Const, Value
<1>5. CASE GetLocal
  <2>1. PICK s \in Locals : PushOperand(stack[s])
    BY <1>5 DEF GetLocal
  <2>2. s \in Slot
    <3>1. Frame.slots \in Slot /\ stackTop \in 0 .. StackMax
      BY <1>5, FrameTyped DEF GetLocal, InCode, TypeOK
    <3>2. QED
      BY <3>1, BoundsAssumption DEF Locals, Slot
  <2>3. QED
    BY <1>3, <2>1, <2>2 DEF Known, TypeOK
<1>6. ASSUME NEW u \in RunningUpvals, InCode
      PROVE  u \in Upval
  <2>1. Frame.closure \in Fn /\ Known(Frame.closure)
    BY <1>6, FrameTyped DEF RunningUpvals, InCode, Frame, Known
  <2>2. Complete(Frame.closure)
    BY <1>6, <2>1 DEF InCode, KnownComplete
  <2>3. DOMAIN closures[Frame.closure] = DOMAIN Upvals[Frame.closure]
    BY <2>1, CodeAssumption, LenProperties DEF TypeOK
  <2>4. QED
    BY <1>6, <2>1, <2>2, <2>3 DEF RunningUpvals, Complete, Range
<1>7. CASE GetUpval
  <2>1. PICK u \in RunningUpvals : PushOperand(Deref(u))
    BY <1>7 DEF GetUpval
  <2>2. u \in Upval
    BY <1>6, <1>7 DEF GetUpval
  <2>3. Deref(u) \in Value /\ \A f \in Fn : Deref(u) = f => Known(f)
    BY <2>2 DEF Deref, Known, TypeOK
  <2>4. QED
    BY <1>3, <2>1, <2>3
<1>8. CASE GetGlobal
  BY <1>3, <1>8 DEF GetGlobal, Known, TypeOK
<1>9. ASSUME Storing, stack' \in [Slot -> Value], cloned' \in [Upval -> Value],
             global' \in Value, \A f \in Fn : Known(f)' => Known(f)
      PROVE  Typed'
  BY <1>9, SameClosures DEF Storing, InCode, ghost, TypeOK
<1>10. Storing => /\ Peek(0) \in Value
                  /\ \A f \in Fn : Peek(0) = f => Known(f)
  <2>1. Storing => stackTop - 1 >= 0 /\ stackTop - 1 - 0 = stackTop - 1
    BY DEF Storing, IsTemp, TypeOK
  <2>2. QED
    BY <2>1, PeekKnown
<1>11. CASE SetLocal
  <2>1. PICK s \in Locals : stack' = [stack EXCEPT ![s] = Peek(0)]
    BY <1>11 DEF SetLocal
  <2>2. stack' \in [Slot -> Value]
    BY <1>10, <1>11, <2>1 DEF SetLocal, TypeOK
  <2>3. \A f \in Fn : Known(f)' => Known(f)
    BY <1>10, <1>11, <2>1 DEF SetLocal, Storing, Known, TypeOK
  <2>4. QED
    BY <1>9, <1>11, <2>2, <2>3 DEF SetLocal, TypeOK
<1>12. CASE SetUpval
  <2>1. /\ stack' \in [Slot -> Value] /\ cloned' \in [Upval -> Value]
        /\ \A s \in Slot : stack'[s] = stack[s] \/ stack'[s] = Peek(0)
        /\ \A u \in Upval : cloned'[u] = cloned[u] \/ cloned'[u] = Peek(0)
    BY <1>10, <1>12 DEF SetUpval, TypeOK
  <2>2. \A f \in Fn : Known(f)' => Known(f)
    BY <1>10, <1>12, <2>1 DEF SetUpval, Storing, Known
  <2>3. QED
    BY <1>9, <1>12, <2>1, <2>2 DEF SetUpval, TypeOK
<1>13. CASE SetGlobal
  <2>1. \A f \in Fn : Known(f)' => Known(f)
    BY <1>10, <1>13 DEF SetGlobal, Storing, Known
  <2>2. QED
    BY <1>9, <1>10, <1>13, <2>1 DEF SetGlobal, TypeOK
<1>14. CASE Pop
  <2>1. stackTop - 1 \in 0 .. StackMax
    BY <1>14, BoundsAssumption DEF Pop, IsTemp, TypeOK
  <2>2. TypeOK' /\ \A f \in Fn : Known(f)' => Known(f)
    BY <1>14, <2>1, PopTyped DEF Pop, heap, session, TypeOK, Known
  <2>3. QED
    BY <1>14, <2>2, SameClosures DEF Pop, InCode, heap
<1>15. CASE Declare
  <2>1. /\ stackTop - 1 \in Slot
        /\ holds' \in [Slot -> VarId \cup {Temp, Callee}]
    BY <1>15, BoundsAssumption DEF Declare, IsTemp, TypeOK, Slot
  <2>2. captured' \subseteq Slot
    BY <1>15, <2>1 DEF Declare, NewLocal, TypeOK
  <2>3. TypeOK' /\ \A f \in Fn : Known(f)' => Known(f)
    BY <1>15, <2>1, <2>2 DEF Declare, vm, heap, session, TypeOK, Known
  <2>4. QED
    BY <1>15, <2>3, SameClosures DEF Declare, InCode, heap
<1>16. CASE EndLocal
  <2>1. stackTop - 1 \in Slot /\ stackTop - 1 \in 0 .. StackMax
    BY <1>16, BoundsAssumption DEF EndLocal, TypeOK, Slot
  <2>2. /\ open' \in Seq(Upval) /\ loc' \in [Upval -> Slot \cup {Closed}]
        /\ cloned' \in [Upval -> Value]
        /\ \A u \in Upval : \/ cloned'[u] = cloned[u]
                            \/ \E s \in Slot : cloned'[u] = stack[s]
        /\ UNCHANGED <<closures, owner>>
    BY <1>16, <2>1, CloseTyped DEF EndLocal, heap, TypeOK
  <2>3. TypeOK' /\ \A f \in Fn : Known(f)' => Known(f)
    BY <1>16, <2>1, <2>2, PopTyped DEF EndLocal, session, TypeOK, Known
  <2>4. QED
    BY <1>16, <2>2, <2>3, SameClosures DEF EndLocal, InCode
<1>17. CASE Closure
  <2>1. PICK f \in Fn :
          /\ Encl[f] = Running
          /\ \/ Push(f, Temp) /\ captured' = captured
             \/ (\E v \in VarId \ Named : Push(f, v)) /\ NewLocal(stackTop)
          /\ \A d \in Range(Upvals[f]) : d.local =>
               /\ Frame.slots + d.index \in captured'
               /\ holds'[Frame.slots + d.index] \in VarId
          /\ capturing' = After(f, 1)
    BY <1>17 DEF Closure
  <2>2. /\ stack' \in [Slot -> Value] /\ stackTop' \in 0 .. StackMax
        /\ holds' \in [Slot -> VarId \cup {Temp, Callee}]
        /\ \A s \in Slot : stack'[s] = f \/ stack'[s] = stack[s]
    BY <2>1, PushTyped DEF Value
  <2>3. captured' \subseteq Slot
    <3>1. stackTop \in Slot
      BY <2>1, BoundsAssumption DEF Push, TypeOK, Slot
    <3>2. captured' = captured \/ captured' = captured \cup {stackTop}
      BY <2>1 DEF NewLocal
    <3>3. QED
      BY <3>1, <3>2 DEF TypeOK
  <2>4. Len(Upvals[f]) \in Nat /\ DOMAIN Upvals[f] = 1 .. Len(Upvals[f])
    BY CodeAssumption, LenProperties
  <2>5. capturing' = NotCapturing \/ capturing' \in Fn \X (Nat \ {0})
    BY <2>1 DEF After
  <2>6. TypeOK'
    BY <1>17, <2>2, <2>3, <2>5 DEF Closure, heap, session, TypeOK
  <2>7. KnownComplete'
    <3>1. \A g \in Fn : Known(g)' => g = f \/ Known(g)
      BY <1>17, <2>2 DEF Closure, heap, session, Known
    <3>2. \A g \in Fn : g # f /\ Known(g)' => Complete(g)'
      BY <1>17, <3>1 DEF Closure, InCode, heap, KnownComplete, Complete
    <3>3. Complete(f)' \/ (~Idle' /\ capturing'[1] = f)
      BY <2>1, <2>4 DEF After, Idle, Complete
    <3>4. QED
      BY <3>2, <3>3 DEF KnownComplete
  <2>8. CapturingOK'
    <3>1. frames' = frames /\ line' = line /\ frames # <<>>
      BY <1>17 DEF Closure, session, InCode
    <3>2. Idle' \/ (capturing' = <<f, 1>> /\ 1 <= Len(Upvals[f]))
      BY <2>1 DEF After, Idle
    <3>3. QED
      BY <2>1, <2>4, <3>1, <3>2 DEF CapturingOK, Running, Frame
  <2>9. QED
    BY <2>6, <2>7, <2>8
<1>18. CASE CaptureNext
  <2>0. PICK f \in Fn, i \in Nat \ {0} : capturing = <<f, i>>
    BY <1>18 DEF CaptureNext, CapturingOK
  <2> DEFINE d == Upvals[f][i]
  <2>1. /\ frames # <<>> /\ f \in Fn /\ i \in DOMAIN Upvals[f]
        /\ capturing = <<f, i>>
        /\ Encl[f] = Running
        /\ \A j \in 1 .. i - 1 : closures[f][j] \in Upval
        /\ d.local => /\ Frame.slots + d.index \in captured
                      /\ holds[Frame.slots + d.index] \in VarId
    BY <1>18, <2>0 DEF CaptureNext, CapturingOK, Range
  <2>2. /\ Len(Upvals[f]) \in Nat /\ DOMAIN Upvals[f] = 1 .. Len(Upvals[f])
        /\ closures[f] \in Seq(Upval \cup {NoUpval})
        /\ Len(closures[f]) = Len(Upvals[f])
        /\ DOMAIN closures[f] = DOMAIN Upvals[f]
    BY <2>1, CodeAssumption, LenProperties DEF TypeOK
  <2>3. /\ IF d.local
             THEN CaptureUpval(f, i, Frame.slots + d.index)
             ELSE ShareUpvalue(f, i, closures[Frame.closure][d.index + 1])
        /\ capturing' = After(f, i + 1)
        /\ UNCHANGED <<vm, ghost, session>>
    BY <1>18, <2>0 DEF CaptureNext
  <2> HIDE DEF d
  <2>4. /\ open' \in Seq(Upval)
        /\ loc' \in [Upval -> Slot \cup {Closed}]
        /\ owner' \in [Upval -> VarId \cup {Unbound}]
        /\ \E u \in Upval : closures' = [closures EXCEPT ![f][i] = u]
        /\ cloned' = cloned
    <3>1. CASE d.local
      <4>1. Frame.slots + d.index \in Slot
        BY <2>1, <3>1 DEF TypeOK
      <4>2. QED
        BY <2>1, <2>3, <3>1, <4>1, CaptureTyped
    <3>2. CASE ~d.local
      <4>1. closures[Frame.closure][d.index + 1] \in Upval
        BY <2>0, <3>2, EnclosingEntry DEF d
      <4>2. QED
        BY <2>3, <3>2, <4>1 DEF ShareUpvalue, TypeOK
    <3>3. QED
      BY <3>1, <3>2
  <2>5. PICK u \in Upval : closures' = [closures EXCEPT ![f][i] = u]
    BY <2>4
  <2>6. /\ closures'[f] = [closures[f] EXCEPT ![i] = u]
        /\ \A g \in Fn : g # f => closures'[g] = closures[g]
    BY <2>1, <2>5 DEF TypeOK
  <2>7. /\ closures'[f] \in Seq(Upval \cup {NoUpval})
        /\ Len(closures'[f]) = Len(Upvals[f])
        /\ \A j \in DOMAIN Upvals[f] :
             closures'[f][j] = IF j = i THEN u ELSE closures[f][j]
    BY <2>1, <2>2, <2>6, ExceptSeq
  <2>8. capturing' = NotCapturing \/ capturing' \in Fn \X (Nat \ {0})
    BY <2>1, <2>2, <2>3 DEF After
  <2>9. TypeOK'
    <3>1. closures' \in [Fn -> Seq(Upval \cup {NoUpval})]
      BY <2>5, <2>6, <2>7 DEF TypeOK
    <3>2. \A g \in Fn : Len(closures'[g]) = Len(Upvals[g])
      BY <2>6, <2>7 DEF TypeOK
    <3>3. QED
      BY <2>3, <2>4, <2>8, <3>1, <3>2 DEF vm, ghost, session, TypeOK
  <2>10. \A g \in Fn : Complete(g) => Complete(g)'
    BY <2>6, <2>7 DEF Complete
  <2>11. \/ capturing' = <<f, i + 1>> /\ i + 1 \in DOMAIN Upvals[f]
         \/ capturing' = NotCapturing /\ i = Len(Upvals[f])
    BY <2>1, <2>2, <2>3 DEF After
  <2>12. \A j \in 1 .. i : closures'[f][j] \in Upval
    BY <2>1, <2>2, <2>7
  <2>13. KnownComplete'
    <3>1. \A g \in Fn : Known(g)' => Known(g)
      BY <2>3, <2>4 DEF vm, session, Known
    <3>2. \A g \in Fn : g # f /\ Known(g) => Complete(g)
      BY <2>1 DEF KnownComplete
    <3>3. Complete(f)' \/ (~Idle' /\ capturing'[1] = f)
      BY <2>2, <2>11, <2>12 DEF Complete, Idle
    <3>4. QED
      BY <2>10, <3>1, <3>2, <3>3 DEF KnownComplete
  <2>14. CapturingOK'
    <3>1. Idle' \/ (capturing' = <<f, i + 1>> /\ i + 1 \in DOMAIN Upvals[f])
      BY <2>11 DEF Idle
    <3>2. UNCHANGED <<frames, line, captured, holds>>
      BY <2>3 DEF vm, ghost, session
    <3>3. \A e \in Range(Upvals[f]) : e.local =>
            /\ Frame.slots + e.index \in captured
            /\ holds[Frame.slots + e.index] \in VarId
      BY <1>18, <2>1 DEF CaptureNext, CapturingOK
    <3>4. QED
      BY <2>1, <2>8, <2>12, <3>1, <3>2, <3>3 DEF CapturingOK, Running, Frame
  <2>15. QED
    BY <2>9, <2>13, <2>14
<1>19. ASSUME InCode, RuntimeError
       PROVE  Typed'
  <2>1. TypeOK' /\ \A f \in Fn : Known(f)' => Known(f)
    BY <1>19, PopTyped, BoundsAssumption, EmptySeq
    DEF RuntimeError, heap, TypeOK, Known
  <2>2. QED
    BY <1>19, <2>1, SameClosures DEF InCode, RuntimeError, heap
<1>20. ASSUME NEW argc \in 0 .. StackMax, Call(argc)
       PROVE  Typed'
  <2> DEFINE callee == Peek(argc)
             slots  == stackTop - argc - 1
  <2>1. /\ InCode
        /\ \/ /\ callee \in Fn
              /\ PushFrame(callee, argc)
              /\ UNCHANGED <<stack, stackTop, heap, session, capturing>>
           \/ RuntimeError
    BY <1>20 DEF Call
  <2>2. stackTop - 1 - argc >= 0
    BY <1>20 DEF Call, IsTemp
  <2>3. slots \in Slot /\ slots + 1 .. stackTop - 1 \subseteq Slot
    BY <1>20, <2>2, BoundsAssumption DEF TypeOK, Slot
  <2>4. callee \in Fn => Known(callee)
    BY <2>2, PeekKnown
  <2> HIDE DEF callee, slots
  <2>5. CASE /\ callee \in Fn
             /\ PushFrame(callee, argc)
             /\ UNCHANGED <<stack, stackTop, heap, session, capturing>>
    <3>1. frames' = Append(frames, [closure |-> callee, slots |-> slots])
      BY <2>5 DEF PushFrame, slots
    <3>2. frames' \in Seq([closure : Fn \cup {Script}, slots : Slot])
      BY <2>3, <2>5, <3>1, AppendProperties DEF TypeOK
    <3>3. holds' \in [Slot -> VarId \cup {Temp, Callee}]
      <4>1. PICK p \in Injection(slots + 1 .. stackTop - 1, VarId \ Named) :
              holds' = [s \in Slot |->
                          IF s \in slots + 1 .. stackTop - 1 THEN p[s]
                          ELSE IF s = slots THEN Callee ELSE holds[s]]
        BY <2>5 DEF PushFrame, slots
      <4>2. QED
        BY <4>1 DEF Injection, TypeOK
    <3>4. captured' \subseteq Slot
      BY <2>3, <2>5 DEF PushFrame, slots, TypeOK
    <3>5. TypeOK'
      BY <2>5, <3>2, <3>3, <3>4 DEF heap, session, TypeOK
    <3>6. \A i \in DOMAIN frames' : \/ i \in DOMAIN frames /\ frames'[i] = frames[i]
                                    \/ frames'[i].closure = callee
      BY <3>1, AppendProperties, LenProperties DEF TypeOK
    <3>7. \A f \in Fn : Known(f)' => Known(f)
      BY <2>4, <2>5, <3>6 DEF heap, session, Known
    <3>8. QED
      BY <2>1, <2>5, <3>5, <3>7, SameClosures DEF InCode, heap
  <2>6. CASE RuntimeError
    BY <1>19, <2>1, <2>6
  <2>7. QED
    BY <2>1, <2>5, <2>6
<1>21. CASE \E argc \in 0 .. StackMax : Call(argc)
  BY <1>20, <1>21
<1>22. CASE OperandError
  BY <1>19, <1>22 DEF OperandError
<1>23. CASE Return
  <2>1. Leave /\ CloseUpvalues(Frame.slots)
    BY <1>23 DEF Return
  <2>2. Frame.slots \in Slot
    BY <2>1, FrameTyped DEF Leave, InCode
  <2>3. Peek(0) \in Value /\ \A f \in Fn : Peek(0) = f => Known(f)
    <3>1. stackTop - 1 - 0 >= 0
      BY <2>1 DEF Leave, IsTemp, TypeOK
    <3>2. QED
      BY <3>1, PeekKnown
  <2>4. /\ open' \in Seq(Upval)
        /\ loc' \in [Upval -> Slot \cup {Closed}]
        /\ cloned' \in [Upval -> Value]
        /\ \A u \in Upval : \/ cloned'[u] = cloned[u]
                            \/ \E s \in Slot : cloned'[u] = stack[s]
        /\ UNCHANGED <<closures, owner>>
    BY <2>1, <2>2, CloseTyped
  <2>5. /\ frames' \in Seq([closure : Fn \cup {Script}, slots : Slot])
        /\ \A i \in DOMAIN frames' : i \in DOMAIN frames /\ frames'[i] = frames[i]
    <3> DEFINE S == [closure : Fn \cup {Script}, slots : Slot]
    <3>1. frames \in Seq(S) /\ frames' = SubSeq(frames, 1, Len(frames) - 1)
      BY <2>1 DEF Leave, TypeOK
    <3> HIDE DEF S
    <3>2. /\ Len(frames) \in Nat /\ DOMAIN frames = 1 .. Len(frames)
          /\ \A i \in 1 .. Len(frames) - 1 : frames[i] \in S
      BY <3>1, LenProperties, ElementOfSeq
    <3>3. /\ frames' \in Seq(S)
          /\ Len(frames') = IF 1 <= Len(frames) - 1 THEN Len(frames) - 1 ELSE 0
          /\ \A i \in 1 .. Len(frames) - 1 : frames'[i] = frames[i]
      BY <3>1, <3>2, SubSeqProperties
    <3>4. DOMAIN frames' = 1 .. Len(frames')
      BY <3>3, LenProperties
    <3>5. Len(frames') = Len(frames) - 1
      BY <2>1, <3>2, <3>3 DEF Leave
    <3>6. ASSUME NEW i \in DOMAIN frames'
          PROVE  i \in DOMAIN frames /\ frames'[i] = frames[i]
      <4>1. i \in 1 .. Len(frames) - 1
        BY <3>4, <3>5
      <4>2. frames'[i] = frames[i]
        BY <4>1, <3>3
      <4>3. i \in 1 .. Len(frames)
        BY <4>1, <3>2
      <4>4. QED
        BY <4>2, <4>3, <3>2
    <3>7. QED
      BY <3>3, <3>6 DEF S
  <2>6. /\ stackTop' \in 0 .. StackMax /\ stack' \in [Slot -> Value]
        /\ holds' \in [Slot -> VarId \cup {Temp, Callee}]
        /\ captured' \subseteq Slot
    BY <2>1, <2>2, <2>3, BoundsAssumption, SMTT(30) DEF Leave, Kill, TypeOK, Slot
  <2>7. TypeOK'
    BY <2>1, <2>4, <2>5, <2>6 DEF Leave, session, TypeOK
  <2>8. \A f \in Fn : Known(f)' => Known(f)
    <3>1. \A s \in Slot : stack'[s] = stack[s] \/ stack'[s] = Peek(0)
      BY <2>1, <2>2 DEF Leave, TypeOK
    <3>2. global' = global
      BY <2>1 DEF Leave, session
    <3>3. ASSUME NEW f \in Fn, Known(f)' PROVE Known(f)
      <4>1. CASE \E s \in Slot : stack'[s] = f
        BY <2>3, <3>1, <4>1 DEF Known
      <4>2. CASE \E u \in Upval : cloned'[u] = f
        BY <2>3, <2>4, <4>2 DEF Known
      <4>3. CASE \E i \in DOMAIN frames' : frames'[i].closure = f
        BY <2>5, <4>3 DEF Known
      <4>4. QED
        BY <3>2, <3>3, <4>1, <4>2, <4>3 DEF Known
    <3>4. QED
      BY <3>3
  <2>9. QED
    BY <2>1, <2>4, <2>7, <2>8, SameClosures DEF Leave, InCode
<1>24. CASE ReturnScript
  <2>1. stackTop - 2 \in 0 .. StackMax
    <3>1. Frame.slots \in Slot
      BY <1>24, FrameTyped DEF ReturnScript, InCode
    <3>2. QED
      BY <1>24, <3>1, BoundsAssumption DEF ReturnScript, TypeOK, Slot
  <2>2. TypeOK' /\ \A f \in Fn : Known(f)' => Known(f)
    BY <1>24, <2>1, PopTyped, EmptySeq, SMTT(30)
    DEF ReturnScript, heap, session, TypeOK, Known
  <2>3. QED
    BY <1>24, <2>2, SameClosures DEF ReturnScript, InCode, heap
<1>25. CASE Terminated
  BY <1>1, <1>25 DEF Terminated
<1>26. QED
  BY <1>1, <1>2, <1>4, <1>5, <1>7, <1>8, <1>11, <1>12, <1>13, <1>14, <1>15,
     <1>16, <1>17, <1>18, <1>21, <1>22, <1>23, <1>24, <1>25 DEF Next

THEOREM SpecTyped == Spec => []Typed
<1>1. QED
  BY InitTyped, NextTyped, PTL DEF Spec

(* Every variable of the machine stays in its type (TypeOK).               *)
THEOREM Typing == Spec => []TypeOK
<1>1. Typed => TypeOK
  BY DEF Typed
<1>2. QED
  BY <1>1, SpecTyped, PTL

(* No instruction reaches a closure with an upvalue missing: what the      *)
(* stack, a global or an upvalue holds went through all of OP_CLOSURE.     *)
THEOREM Completeness == Spec => []ClosuresComplete
<1>1. ASSUME Typed, NEW f \in Fn,
             \/ \E s \in 0 .. stackTop - 1 : stack[s] = f
             \/ global = f
             \/ \E u \in Referred : loc[u] = Closed /\ cloned[u] = f,
             Idle \/ capturing[1] # f
      PROVE  NoUpval \notin Range(closures[f])
  <2>1. Referred \subseteq Upval
    <3>1. Range(open) \subseteq Upval
      BY <1>1, LenProperties DEF Typed, TypeOK, Range
    <3>2. \A g \in Fn : Range(closures[g]) \subseteq Upval \cup {NoUpval}
      BY <1>1, LenProperties DEF Typed, TypeOK, Range
    <3>3. QED
      BY <3>1, <3>2 DEF Referred
  <2>2. Known(f)
    <3>1. 0 .. stackTop - 1 \subseteq Slot
      BY <1>1, BoundsAssumption DEF Typed, TypeOK, Slot
    <3>2. QED
      BY <1>1, <2>1, <3>1 DEF Known
  <2>3. Complete(f) /\ DOMAIN closures[f] = DOMAIN Upvals[f]
    BY <1>1, <2>2, CodeAssumption, LenProperties DEF Typed, KnownComplete, TypeOK
  <2>4. QED
    BY <2>3, SentinelAssumption DEF Complete, Range
<1>2. Typed => ClosuresComplete
  BY <1>1 DEF ClosuresComplete
<1>3. QED
  BY <1>2, SpecTyped, PTL

-------------------------------------------------------------------------------
(* The list of open upvalues: that it is sorted, and that it holds exactly *)
(* the upvalues still pointing into the stack.  The two are proved         *)
(* together: a close takes the right upvalues off because the list is      *)
(* sorted, and a capture keeps it sorted because what it inserts is new.   *)

LEMMA OpenTyped ==
  ASSUME TypeOK
  PROVE  /\ Len(open) \in Nat /\ DOMAIN open = 1 .. Len(open)
         /\ \A i \in 1 .. Len(open) : open[i] \in Upval
         /\ Range(open) \subseteq Upval
         /\ \A u \in Range(open) : \E i \in 1 .. Len(open) : open[i] = u
         /\ \A i \in 1 .. Len(open) : open[i] \in Range(open)
BY LenProperties, ElementOfSeq DEF TypeOK, Range

LEMMA ReferredTyped ==
  TypeOK => /\ Referred \subseteq Upval
            /\ Range(open) \subseteq Referred
            /\ \A u \in Upval : u \in Referred <=>
                 u \in Range(open) \/ \E f \in Fn : u \in Range(closures[f])
<1> SUFFICES ASSUME TypeOK
             PROVE  /\ Referred \subseteq Upval
                    /\ Range(open) \subseteq Referred
                    /\ \A u \in Upval : u \in Referred <=>
                         \/ u \in Range(open)
                         \/ \E f \in Fn : u \in Range(closures[f])
  OBVIOUS
<1>1. \A f \in Fn : Range(closures[f]) \subseteq Upval \cup {NoUpval}
  BY LenProperties, ElementOfSeq DEF TypeOK, Range
<1>2. QED
  BY <1>1, OpenTyped, SentinelAssumption DEF Referred

LEMMA ReferredTypedNext == TypeOK' => (Referred \subseteq Upval)'
<1>1. TypeOK => Referred \subseteq Upval
  BY ReferredTyped
<1>2. QED
  BY <1>1, PTL

(* What close_upvalues does, said of the list as a set.                    *)
LEMMA CloseEffect ==
  ASSUME TypeOK, OpenSorted, NEW last \in Slot, CloseUpvalues(last)
  PROVE  /\ OpenSorted'
         /\ Range(open') = {u \in Range(open) : loc[u] < last}
         /\ \A u \in Upval :
              loc'[u] = IF u \in Range(open) /\ loc[u] >= last
                          THEN Closed ELSE loc[u]
         /\ \A u \in Upval :
              cloned'[u] = IF u \in Range(open) /\ loc[u] >= last
                             THEN stack[loc[u]] ELSE cloned[u]
         /\ UNCHANGED <<closures, owner>>
<1>1. PICK k \in 0 .. Len(open) :
        /\ \A u \in {open[i] : i \in 1 .. k} : loc[u] >= last
        /\ k < Len(open) => ~(loc[open[k + 1]] >= last)
        /\ open' = SubSeq(open, k + 1, Len(open))
        /\ loc' = [u \in Upval |-> IF u \in {open[i] : i \in 1 .. k}
                                     THEN Closed ELSE loc[u]]
        /\ cloned' = [u \in Upval |-> IF u \in {open[i] : i \in 1 .. k}
                                        THEN stack[loc[u]] ELSE cloned[u]]
        /\ UNCHANGED <<closures, owner>>
  BY DEF CloseUpvalues
<1>2. /\ Len(open) \in Nat /\ \A i \in 1 .. Len(open) : open[i] \in Upval
      /\ \A i \in 1 .. Len(open) : loc[open[i]] \in Slot
  BY OpenTyped DEF OpenSorted, TypeOK
<1>3. \A i \in 1 .. Len(open) : i <= k <=> loc[open[i]] >= last
  <2>1. /\ \A u \in {open[i] : i \in 1 .. k} : loc[u] >= last
        /\ k < Len(open) => ~(loc[open[k + 1]] >= last)
    BY <1>1
  <2>2. \A i \in 1 .. Len(open) : loc[open[i]] \in Int /\ last \in Int
    BY <1>2, BoundsAssumption DEF Slot
  <2>3. ASSUME NEW i \in 1 .. Len(open), i <= k PROVE loc[open[i]] >= last
    <3>1. i \in 1 .. k
      BY <2>3
    <3>2. QED
      BY <3>1, <2>1
  <2>4. ASSUME NEW i \in 1 .. Len(open), ~(i <= k) PROVE ~(loc[open[i]] >= last)
    <3>1. k < Len(open) /\ k + 1 \in 1 .. Len(open) /\ (i = k + 1 \/ k + 1 < i)
      BY <2>4, <1>2
    <3>2. ~(loc[open[k + 1]] >= last)
      BY <3>1, <2>1
    <3>3. CASE i = k + 1
      BY <3>2, <3>3
    <3>4. CASE k + 1 < i
      <4>1. loc[open[k + 1]] > loc[open[i]]
        BY <3>1, <3>4 DEF OpenSorted
      <4>2. QED
        BY <4>1, <3>1, <3>2, <2>2
    <3>5. QED
      BY <3>1, <3>3, <3>4
  <2>5. QED
    BY <2>3, <2>4
<1>4. \A u \in Range(open) :
        u \in {open[i] : i \in 1 .. k} <=> loc[u] >= last
  BY <1>2, <1>3, OpenTyped
<1>5. /\ open' \in Seq(Upval) /\ Len(open') = Len(open) - k
      /\ \A i \in 1 .. Len(open) - k : open'[i] = open[k + i]
  BY <1>1, <1>2, SubSeqProperties
<1>6. Range(open') = {u \in Range(open) : loc[u] < last}
  <2>1. Range(open') = {open[k + i] : i \in 1 .. Len(open) - k}
    BY <1>5, LenProperties DEF Range
  <2>2. \A i \in 1 .. Len(open) - k :
          k + i \in 1 .. Len(open) /\ loc[open[k + i]] < last
    BY <1>2, <1>3 DEF Slot
  <2>3. \A j \in 1 .. Len(open) : loc[open[j]] < last =>
          j - k \in 1 .. Len(open) - k /\ j = k + (j - k)
    BY <1>2, <1>3 DEF Slot
  <2>4. QED
    BY <2>1, <2>2, <2>3, OpenTyped
<1>7. /\ \A u \in Upval : loc'[u] = IF u \in Range(open) /\ loc[u] >= last
                                      THEN Closed ELSE loc[u]
      /\ \A u \in Upval : cloned'[u] = IF u \in Range(open) /\ loc[u] >= last
                                         THEN stack[loc[u]] ELSE cloned[u]
  <2> DEFINE gone == {open[i] : i \in 1 .. k}
  <2>1. \A u \in Upval : u \in gone <=> u \in Range(open) /\ loc[u] >= last
    BY <1>1, <1>2, <1>4, OpenTyped, SMTT(20)
  <2>2. /\ loc' = [u \in Upval |-> IF u \in gone THEN Closed ELSE loc[u]]
        /\ cloned' = [u \in Upval |-> IF u \in gone THEN stack[loc[u]] ELSE cloned[u]]
    BY <1>1
  <2> HIDE DEF gone
  <2>3. QED
    BY <2>1, <2>2
<1>8. OpenSorted'
  <2>1. \A u \in Range(open') : loc'[u] = loc[u] /\ loc[u] # Closed
    <3>1. SUFFICES ASSUME NEW u \in Range(open), loc[u] < last
                   PROVE  loc'[u] = loc[u] /\ loc[u] # Closed
      BY <1>6
    <3>2. u \in Upval /\ loc[u] \in Slot
      BY OpenTyped DEF OpenSorted, TypeOK
    <3>3. QED
      BY <1>7, <3>1, <3>2 DEF Slot
  <2>2. ASSUME NEW i \in 1 .. Len(open'), NEW j \in 1 .. Len(open'), i < j
        PROVE  loc'[open'[i]] > loc'[open'[j]]
    <3>1. /\ k + i \in 1 .. Len(open) /\ k + j \in 1 .. Len(open)
          /\ k + i < k + j
          /\ open'[i] = open[k + i] /\ open'[j] = open[k + j]
      BY <1>2, <1>5, <2>2
    <3>2. open'[i] \in Range(open') /\ open'[j] \in Range(open')
      BY <1>5, <2>2, LenProperties DEF Range
    <3>3. QED
      BY <2>1, <3>1, <3>2 DEF OpenSorted
  <2>3. QED
    BY <2>1, <2>2 DEF OpenSorted
<1>9. QED
  BY <1>1, <1>6, <1>7, <1>8

(* InsertAtProperties at the list of open upvalues.                        *)
LEMMA InsertAtOpen ==
  ASSUME NEW r \in Upval, NEW m \in 1 .. Len(open) + 1, open \in Seq(Upval)
  PROVE  /\ InsertAt(open, m, r) \in Seq(Upval)
         /\ Len(InsertAt(open, m, r)) = Len(open) + 1
         /\ \A j \in 1 .. Len(open) + 1 :
              InsertAt(open, m, r)[j] = IF j < m THEN open[j]
                                        ELSE IF j = m THEN r ELSE open[j - 1]
BY InsertAtProperties

(* What capture_upval does: either it finds the upvalue of slot s, or no   *)
(* upvalue of the list refers to s and it adds a new one.                  *)
LEMMA CaptureEffect ==
  ASSUME TypeOK, OpenSorted, NEW f \in Fn, NEW i \in DOMAIN Upvals[f],
         NEW s \in Slot, CaptureUpval(f, i, s)
  PROVE  /\ OpenSorted'
         /\ \E u \in Upval :
              /\ closures' = [closures EXCEPT ![f][i] = u]
              /\ loc'[u] = s
              /\ \/ /\ u \in Range(open)
                    /\ UNCHANGED <<open, loc, owner>>
                 \/ /\ u \notin Referred
                    /\ \A w \in Range(open) : loc[w] # s
                    /\ Range(open') = Range(open) \cup {u}
                    /\ loc'   = [loc EXCEPT ![u] = s]
                    /\ owner' = [owner EXCEPT ![u] = holds[s]]
<1>1. PICK k \in 1 .. Len(open) + 1 :
        /\ \A j \in 1 .. k - 1 : s < loc[open[j]]
        /\ k <= Len(open) => ~(s < loc[open[k]])
        /\ IF k <= Len(open) /\ loc[open[k]] = s
             THEN ShareUpvalue(f, i, open[k])
             ELSE \E u \in Upval \ Referred : NewUpvalue(f, i, s, k, u)
  BY DEF CaptureUpval
<1>2. /\ Len(open) \in Nat /\ \A j \in 1 .. Len(open) : open[j] \in Upval
      /\ \A j \in 1 .. Len(open) : loc[open[j]] \in Slot
  BY OpenTyped DEF OpenSorted, TypeOK
<1>3. CASE k <= Len(open) /\ loc[open[k]] = s
  <2>1. ShareUpvalue(f, i, open[k]) /\ open[k] \in Range(open)
    BY <1>1, <1>2, <1>3, OpenTyped
  <2>2. QED
    BY <1>2, <1>3, <2>1, OpenTyped DEF ShareUpvalue, OpenSorted
<1>4. CASE ~(k <= Len(open) /\ loc[open[k]] = s)
  <2>1. PICK u \in Upval \ Referred : NewUpvalue(f, i, s, k, u)
    BY <1>1, <1>4
  <2>2. /\ open' \in Seq(Upval) /\ Len(open') = Len(open) + 1
        /\ \A j \in 1 .. Len(open) + 1 :
             open'[j] = IF j < k THEN open[j]
                        ELSE IF j = k THEN u ELSE open[j - 1]
    <3>1. open' = InsertAt(open, k, u) /\ open \in Seq(Upval) /\ u \in Upval
      BY <2>1 DEF NewUpvalue, TypeOK
    <3>2. k \in 1 .. Len(open) + 1
      BY <1>1
    <3>3. /\ InsertAt(open, k, u) \in Seq(Upval)
          /\ Len(InsertAt(open, k, u)) = Len(open) + 1
          /\ \A j \in 1 .. Len(open) + 1 :
               InsertAt(open, k, u)[j] = IF j < k THEN open[j]
                                         ELSE IF j = k THEN u ELSE open[j - 1]
      BY <3>1, <3>2, InsertAtOpen
    <3>4. QED
      BY <3>1, <3>3
  <2>3. u \notin Range(open)
    BY <2>1, ReferredTyped
  <2>4. \A j \in 1 .. Len(open) : IF j < k THEN loc[open[j]] > s
                                           ELSE loc[open[j]] < s
    BY <1>1, <1>2, <1>4, BoundsAssumption DEF OpenSorted, Slot
  <2>5. Range(open') = Range(open) \cup {u}
    <3>1. DOMAIN open' = 1 .. Len(open) + 1
      BY <2>2, LenProperties
    <3>2. \A j \in 1 .. Len(open) : open[j] \in Range(open')
      <4>1. SUFFICES ASSUME NEW j \in 1 .. Len(open)
                     PROVE  open[j] \in Range(open')
        OBVIOUS
      <4>2. CASE j < k
        BY <1>2, <2>2, <3>1, <4>2, SMTT(30) DEF Range
      <4>3. CASE ~(j < k)
        <5>1. j + 1 \in 1 .. Len(open) + 1 /\ open'[j + 1] = open[j]
          BY <1>2, <2>2, <4>3
        <5>2. QED
          BY <3>1, <5>1 DEF Range
      <4>4. QED
        BY <4>2, <4>3
    <3>3. open'[k] = u /\ k \in DOMAIN open'
      BY <2>2, <3>1
    <3>4. \A j \in DOMAIN open' : open'[j] \in Range(open) \cup {u}
      BY <1>2, <2>2, <3>1, OpenTyped
    <3>5. QED
      BY <3>2, <3>3, <3>4, OpenTyped DEF Range
  <2>6. /\ loc'[u] = s
        /\ \A w \in Range(open) : loc'[w] = loc[w]
    BY <2>1, <2>3 DEF NewUpvalue, TypeOK
  <2>7. OpenSorted'
    <3>1. \A w \in Range(open') : loc'[w] # Closed
      BY <2>5, <2>6 DEF OpenSorted, Slot
    <3>2. ASSUME NEW p \in 1 .. Len(open'), NEW q \in 1 .. Len(open'), p < q
          PROVE  loc'[open'[p]] > loc'[open'[q]]
      <4>1. p \in 1 .. Len(open) + 1 /\ q \in 1 .. Len(open) + 1
        BY <1>2, <2>2
      <4>2. \A j \in 1 .. Len(open) : loc'[open[j]] = loc[open[j]]
        BY <2>6, OpenTyped
      <4>3. CASE q < k
        BY <1>2, <2>2, <3>2, <4>1, <4>2, <4>3 DEF OpenSorted
      <4>4. CASE q = k
        BY <1>2, <2>2, <2>4, <2>6, <3>2, <4>1, <4>2, <4>4, SMTT(30) DEF Slot
      <4>5. CASE q > k /\ p < k
        <5>1. open'[p] = open[p] /\ open'[q] = open[q - 1]
          BY <2>2, <4>1, <4>5
        <5>2. p \in 1 .. Len(open) /\ q - 1 \in 1 .. Len(open) /\ p < q - 1 + 1
          BY <1>2, <4>1, <4>5
        <5>3. loc[open[p]] > s /\ loc[open[q - 1]] < s
          BY <2>4, <4>5, <5>2
        <5>4. QED
          BY <1>2, <4>2, <5>1, <5>2, <5>3, SMTT(30) DEF Slot
      <4>6. CASE q > k /\ p = k
        <5>1. open'[p] = u /\ open'[q] = open[q - 1]
          BY <2>2, <4>1, <4>6
        <5>2. q - 1 \in 1 .. Len(open) /\ ~(q - 1 < k)
          BY <1>2, <4>1, <4>6
        <5>3. QED
          BY <1>2, <2>4, <2>6, <4>2, <5>1, <5>2 DEF Slot
      <4>7. CASE p > k
        <5>1. open'[p] = open[p - 1] /\ open'[q] = open[q - 1]
          BY <2>2, <3>2, <4>1, <4>7
        <5>2. /\ p - 1 \in 1 .. Len(open) /\ q - 1 \in 1 .. Len(open)
              /\ p - 1 < q - 1
          BY <1>2, <3>2, <4>1, <4>7
        <5>3. QED
          BY <4>2, <5>1, <5>2 DEF OpenSorted
      <4>8. QED
        BY <4>1, <4>3, <4>4, <4>5, <4>6, <4>7
    <3>3. QED
      BY <3>1, <3>2 DEF OpenSorted
  <2>8. \A w \in Range(open) : loc[w] # s
    BY <1>2, <2>4, OpenTyped DEF Slot
  <2>9. QED
    BY <2>1, <2>5, <2>6, <2>7, <2>8 DEF NewUpvalue
<1>5. QED
  BY <1>3, <1>4

-------------------------------------------------------------------------------
(* Every step.                                                             *)

Linked == OpenSorted /\ OpenIffListed

LEMMA SameHeapLinked ==
  ASSUME Linked, UNCHANGED <<open, loc, closures>>
  PROVE  Linked'
BY DEF Linked, OpenSorted, OpenIffListed, Referred

LEMMA CloseLinked ==
  ASSUME TypeOK, TypeOK', Linked, NEW last \in Slot, CloseUpvalues(last)
  PROVE  Linked'
<1>1. /\ OpenSorted'
      /\ Range(open') = {u \in Range(open) : loc[u] < last}
      /\ \A u \in Upval :
           loc'[u] = IF u \in Range(open) /\ loc[u] >= last
                       THEN Closed ELSE loc[u]
      /\ closures' = closures
  BY CloseEffect DEF Linked
<1>2. ASSUME NEW u \in Referred'
      PROVE  loc'[u] # Closed <=> u \in Range(open')
  <2>1. u \in Upval /\ u \in Referred
    BY <1>1, ReferredTyped DEF Referred
  <2>2. loc[u] # Closed <=> u \in Range(open)
    BY <2>1 DEF Linked, OpenIffListed
  <2>3. loc[u] \in Slot \cup {Closed}
    BY <2>1 DEF TypeOK
  <2>4. QED
    BY <1>1, <2>1, <2>2, <2>3, BoundsAssumption DEF Slot
<1>3. QED
  BY <1>1, <1>2 DEF Linked, OpenIffListed

(* One entry of a closure is overwritten by an upvalue that is in use or   *)
(* that the list already has.                                              *)
LEMMA EntryReferred ==
  ASSUME TypeOK, TypeOK', NEW f \in Fn, NEW i, NEW u \in Upval,
         closures' = [closures EXCEPT ![f][i] = u]
  PROVE  \A w \in Referred' :
           w = u \/ w \in Range(open') \/ \E g \in Fn : w \in Range(closures[g])
<1>1. \A g \in Fn : Range(closures'[g]) \subseteq Range(closures[g]) \cup {u}
  BY DEF Range, TypeOK
<1>2. QED
  BY <1>1 DEF Referred

LEMMA CaptureLinked ==
  ASSUME TypeOK, TypeOK', Linked, NEW f \in Fn, NEW i \in DOMAIN Upvals[f],
         NEW s \in Slot, CaptureUpval(f, i, s)
  PROVE  Linked'
<1>1. OpenSorted'
  BY CaptureEffect DEF Linked
<1>2. PICK u \in Upval :
        /\ closures' = [closures EXCEPT ![f][i] = u]
        /\ loc'[u] = s
        /\ \/ u \in Range(open) /\ UNCHANGED <<open, loc, owner>>
           \/ /\ u \notin Referred
              /\ Range(open') = Range(open) \cup {u}
              /\ loc' = [loc EXCEPT ![u] = s]
  BY CaptureEffect DEF Linked
<1>3. ASSUME NEW w \in Referred'
      PROVE  loc'[w] # Closed <=> w \in Range(open')
  <2>1. w \in Upval
    BY ReferredTypedNext
  <2>2. w = u \/ w \in Referred
    <3>1. \/ w = u \/ w \in Range(open')
          \/ \E g \in Fn : w \in Range(closures[g])
      BY <1>2, EntryReferred, ZenonT(30)
    <3>2. w \in Range(open') => w = u \/ w \in Range(open)
      BY <1>2
    <3>3. QED
      BY <2>1, <3>1, <3>2, ReferredTyped
  <2>3. CASE w = u
    BY <1>2, <2>3 DEF Slot
  <2>4. CASE w # u
    BY <1>2, <2>1, <2>2, <2>4 DEF Linked, OpenIffListed, TypeOK
  <2>5. QED
    BY <2>3, <2>4
<1>4. QED
  BY <1>1, <1>3 DEF Linked, OpenIffListed

LEMMA NextLinked == Typed /\ Typed' /\ Linked /\ [Next]_vars => Linked'
<1> SUFFICES ASSUME Typed, Typed', Linked, [Next]_vars PROVE Linked'
  OBVIOUS
<1> USE DEF Typed
<1>1. CASE EndLocal
  <2>1. CASE stackTop - 1 \in captured
    <3>1. stackTop - 1 \in Slot
      BY <2>1 DEF TypeOK
    <3>2. QED
      BY <1>1, <2>1, <3>1, CloseLinked DEF EndLocal
  <2>2. CASE stackTop - 1 \notin captured
    BY <1>1, <2>2, SameHeapLinked DEF EndLocal, heap
  <2>3. QED
    BY <2>1, <2>2
<1>2. CASE Return
  <2>1. Frame.slots \in Slot /\ CloseUpvalues(Frame.slots)
    BY <1>2, FrameTyped DEF Return, Leave, InCode
  <2>2. QED
    BY <2>1, CloseLinked
<1>3. CASE CaptureNext
  <2>1. PICK f \in Fn, i \in Nat \ {0} : capturing = <<f, i>>
    BY <1>3 DEF CaptureNext, CapturingOK
  <2>2. /\ i \in DOMAIN Upvals[f]
        /\ Upvals[f][i].local =>
             Frame.slots + Upvals[f][i].index \in captured
        /\ IF Upvals[f][i].local
             THEN CaptureUpval(f, i, Frame.slots + Upvals[f][i].index)
             ELSE ShareUpvalue(f, i,
                    closures[Frame.closure][Upvals[f][i].index + 1])
    BY <1>3, <2>1 DEF CaptureNext, CapturingOK, Range
  <2>3. CASE Upvals[f][i].local
    <3>1. Frame.slots + Upvals[f][i].index \in Slot
      BY <2>2, <2>3 DEF TypeOK
    <3>2. QED
      BY <2>2, <2>3, <3>1, CaptureLinked
  <2>4. CASE ~Upvals[f][i].local
    <3> DEFINE u == closures[Frame.closure][Upvals[f][i].index + 1]
    <3>1. /\ u \in Upval /\ Frame.closure \in Fn
          /\ u \in Range(closures[Frame.closure])
      BY <2>1, <2>4, EnclosingEntry DEF Range
    <3>2. ShareUpvalue(f, i, u)
      BY <2>2, <2>4
    <3> HIDE DEF u
    <3>3. \A w \in Referred' : w \in Referred
      <4>1. /\ closures' = [closures EXCEPT ![f][i] = u]
            /\ open' = open
        BY <3>2 DEF ShareUpvalue
      <4>2. \A w \in Referred' :
              w = u \/ w \in Range(open') \/ \E g \in Fn : w \in Range(closures[g])
        BY <3>1, <4>1, EntryReferred
      <4>3. Referred' \subseteq Upval
        BY ReferredTypedNext
      <4>4. QED
        BY <3>1, <4>1, <4>2, <4>3, ReferredTyped
    <3>4. QED
      BY <3>2, <3>3 DEF ShareUpvalue, Linked, OpenSorted, OpenIffListed
  <2>5. QED
    BY <2>3, <2>4
<1>4. CASE \E argc \in 0 .. StackMax : Call(argc)
  BY <1>4, SameHeapLinked DEF Call, RuntimeError, heap
<1>5. ASSUME NEW x, PushOperand(x) PROVE Linked'
  BY <1>5, SameHeapLinked DEF PushOperand, heap
<1>6. ASSUME Storing PROVE Linked'
  BY <1>6, SameHeapLinked DEF Storing
<1>7. CASE Interpret \/ Pop \/ Declare \/ Closure \/ ReturnScript
  BY <1>7, SameHeapLinked
  DEF Interpret, Pop, Declare, Closure, ReturnScript, heap
<1>8. CASE OperandError
  BY <1>8, SameHeapLinked DEF OperandError, RuntimeError, heap
<1>9. CASE Terminated \/ UNCHANGED vars
  BY <1>9, SameHeapLinked DEF Terminated, vars, heap
<1>10. CASE Const \/ GetLocal \/ GetUpval \/ GetGlobal
  BY <1>5, <1>10 DEF Const, GetLocal, GetUpval, GetGlobal
<1>11. CASE SetLocal \/ SetUpval \/ SetGlobal
  BY <1>6, <1>11 DEF SetLocal, SetUpval, SetGlobal
<1>12. QED
  BY <1>1, <1>2, <1>3, <1>4, <1>7, <1>8, <1>9, <1>10, <1>11 DEF Next

LEMMA InitLinked == Init => Linked
<1> SUFFICES ASSUME Init PROVE Linked
  OBVIOUS
<1>1. Range(open) = {} /\ Len(open) = 0
  BY DEF Init, Range
<1>2. Referred \subseteq Upval
  BY InitTyped, ReferredTyped DEF Typed
<1>3. QED
  BY <1>1, <1>2 DEF Init, Linked, OpenSorted, OpenIffListed

THEOREM SpecLinked == Spec => []Linked
<1>1. QED
  BY InitLinked, NextLinked, SpecTyped, PTL DEF Spec

(* capture_upval and close_upvalues may stop where they stop: the list is  *)
(* strictly descending after any sequence of instructions and errors.      *)
THEOREM Sorting == Spec => []OpenSorted
<1>1. Linked => OpenSorted
  BY DEF Linked
<1>2. QED
  BY <1>1, SpecLinked, PTL

(* No upvalue points into the stack unnoticed: one that is in use is open  *)
(* exactly if close_upvalues will come across it.                          *)
THEOREM Listing == Spec => []OpenIffListed
<1>1. Linked => OpenIffListed
  BY DEF Linked
<1>2. QED
  BY <1>1, SpecLinked, PTL

-------------------------------------------------------------------------------
(* Each variable is one cell.  While no runtime error has happened, an     *)
(* open upvalue refers to the live slot of the variable it was made for    *)
(* and no variable has two upvalues, so that a variable is in one place:   *)
(* its slot, or the copy in its upvalue.  With that every step of the      *)
(* machine is a step of Variables.                                         *)

-------------------------------------------------------------------------------
(* The invariant: OpenLive and OneCell, and what keeps them.  A local that *)
(* is captured is a variable in use; no variable is in two slots; and the  *)
(* slots of the callees separate the frames, in their order.               *)

CapturedLive ==
  \A s \in captured : s < stackTop /\ holds[s] \in VarId

OneSlot ==
  \A s, t \in Slot :
    s < stackTop /\ t < stackTop /\ holds[s] \in VarId /\ holds[s] = holds[t] => s = t

FramesApart ==
  /\ \A i \in DOMAIN frames : /\ frames[i].slots < stackTop
                              /\ holds[frames[i].slots] = Callee
  /\ \A i, j \in DOMAIN frames : i < j => frames[i].slots < frames[j].slots

OpenInUse ==
  \A u \in Range(open) : /\ loc[u] < stackTop
                         /\ loc[u] \in captured
                         /\ holds[loc[u]] = owner[u]

OneUpvalue  == \A u, w \in Referred : owner[u] = owner[w] => u = w
ClosedAlone == \A u \in Referred : loc[u] = Closed => owner[u] \notin OnStack

Cells == CapturedLive /\ OneSlot /\ FramesApart /\ OpenInUse /\ OneUpvalue /\ ClosedAlone

Live == failed \/ Cells

Sure == Typed /\ Linked

LEMMA SpecSure == Spec => []Sure
BY SpecTyped, SpecLinked, PTL DEF Sure

LEMMA StackTyped ==
  ASSUME TypeOK
  PROVE  /\ stackTop \in 0 .. StackMax /\ StackMax \in Nat
         /\ Slot = 0 .. StackMax - 1
         /\ \A s \in 0 .. stackTop - 1 : s \in Slot
         /\ \A s \in Slot : holds[s] \in VarId \cup {Temp, Callee} /\ s \in Nat
BY BoundsAssumption DEF TypeOK, Slot

TopTyped == stackTop \in 0 .. StackMax /\ \A s \in 0 .. stackTop - 1 : s \in Slot

LEMMA TopTypedNext == TypeOK' => TopTyped'
<1>1. TypeOK => TopTyped
  BY StackTyped DEF TopTyped
<1>2. QED
  BY <1>1, PTL

LEMMA FrameSlots ==
  ASSUME TypeOK
  PROVE  /\ Len(frames) \in Nat /\ DOMAIN frames = 1 .. Len(frames)
         /\ \A i \in DOMAIN frames : frames[i].slots \in Slot
<1> DEFINE S == [closure : Fn \cup {Script}, slots : Slot]
<1>1. frames \in Seq(S)
  BY DEF TypeOK
<1> HIDE DEF S
<1>2. \A i \in DOMAIN frames : frames[i] \in S
  BY <1>1, ElementOfSeq, LenProperties
<1>3. QED
  BY <1>1, <1>2, LenProperties DEF S

(* A variable is on the stack if and only if some slot in use holds it.    *)
LEMMA OnStackSlot ==
  \A v : v \in OnStack <=>
           v \in VarId /\ \E s \in 0 .. stackTop - 1 : holds[s] = v
BY DEF OnStack

(* A referred upvalue that is not closed is in the list, so that its       *)
(* variable has the slot that it points to.                                *)
LEMMA OwnerPlaced ==
  ASSUME Sure, OpenInUse, NEW u \in Referred, loc[u] # Closed
  PROVE  /\ u \in Range(open) /\ u \in Upval
         /\ loc[u] \in Slot /\ loc[u] < stackTop /\ loc[u] \in captured
         /\ holds[loc[u]] = owner[u]
<1>1. u \in Upval /\ u \in Range(open)
  BY ReferredTyped DEF Sure, Typed, Linked, OpenIffListed
<1>2. QED
  BY <1>1 DEF OpenInUse, Sure, Typed, TypeOK

-------------------------------------------------------------------------------
(* The helpers.                                                            *)

(* A push of a mark that is not a variable in use: of an operand or a      *)
(* local, or of a script's closure with its frame.                         *)
LEMMA PushCells ==
  ASSUME Sure, Cells, NEW x, NEW mark \in VarId \cup {Temp, Callee}, Push(x, mark),
         mark \in VarId => mark \notin Named, UNCHANGED heap,
         \/ UNCHANGED frames
         \/ \E c : mark = Callee /\ frames' = <<[closure |-> c, slots |-> stackTop]>>,
         \/ captured' = captured
         \/ mark \in VarId /\ captured' = captured \cup {stackTop}
  PROVE  Cells'
<1>1. /\ stackTop \in Slot /\ stackTop' = stackTop + 1
      /\ holds' = [holds EXCEPT ![stackTop] = mark]
      /\ holds \in [Slot -> VarId \cup {Temp, Callee}]
      /\ captured \subseteq Slot
  BY StackTyped DEF Push, Sure, Typed, TypeOK, Slot
<1>2. \A s \in Slot : s < stackTop => holds'[s] = holds[s] /\ s < stackTop'
  BY <1>1, StackTyped DEF Sure, Typed
<1>3. holds'[stackTop] = mark
  BY <1>1
<1>4. \A s \in Slot : s < stackTop' <=> s < stackTop \/ s = stackTop
  BY <1>1, StackTyped DEF Sure, Typed
<1>5. CapturedLive'
  BY <1>1, <1>2, <1>3, <1>4 DEF Cells, CapturedLive
<1>6. \A s \in Slot : s < stackTop /\ holds[s] \in VarId => holds[s] \in Named
  BY StackTyped DEF Named, OnStack, Sure, Typed
<1>7. OneSlot'
  BY <1>2, <1>3, <1>4, <1>6 DEF Cells, OneSlot, Slot
<1>8. FramesApart'
  <2>1. ASSUME NEW i \in DOMAIN frames PROVE frames[i].slots \in Slot
    BY <2>1, FrameSlots DEF Sure, Typed
  <2>2. CASE UNCHANGED frames
    BY <1>2, <2>1, <2>2 DEF Cells, FramesApart
  <2>3. CASE \E c : mark = Callee /\ frames' = <<[closure |-> c, slots |-> stackTop]>>
    BY <1>1, <1>3, <1>4, <2>3 DEF FramesApart
  <2>4. QED
    BY <2>2, <2>3
<1>9. OpenInUse'
  <2>1. ASSUME NEW u \in Range(open)
        PROVE  loc[u] \in Slot
    BY <1>1, <2>1 DEF Cells, OpenInUse
  <2>2. QED
    BY <1>1, <1>2, <2>1 DEF Cells, OpenInUse, heap
<1>10. Referred' = Referred /\ OneUpvalue'
  BY DEF Cells, OneUpvalue, Referred, heap
<1>11. ClosedAlone'
  <2>1. \A v \in OnStack' : v \in OnStack \/ (v = mark /\ v \in VarId)
    BY <1>1, <1>2, <1>3, <1>4, StackTyped, OnStackSlot DEF OnStack, Sure, Typed
  <2>2. \A u \in Referred : owner[u] \in Named
    BY DEF Named
  <2>3. QED
    BY <1>10, <2>1, <2>2 DEF Cells, ClosedAlone, heap
<1>12. QED
  BY <1>5, <1>7, <1>8, <1>9, <1>10, <1>11 DEF Cells

(* The slots from n on are given up, with the frames that have them, and   *)
(* the upvalues that point there are closed.                               *)
Closing(n) ==
  /\ Range(open') = {u \in Range(open) : loc[u] < n}
  /\ \A u \in Upval : loc'[u] = IF u \in Range(open) /\ loc[u] >= n
                                  THEN Closed ELSE loc[u]
  /\ \A u \in Upval : cloned'[u] = IF u \in Range(open) /\ loc[u] >= n
                                     THEN stack[loc[u]] ELSE cloned[u]
  /\ UNCHANGED <<closures, owner>>

FramesBelow(n) ==
  \A i \in DOMAIN frames' : /\ i \in DOMAIN frames /\ frames'[i] = frames[i]
                            /\ frames[i].slots < n

Dropped(n) ==
  /\ n <= stackTop /\ n <= stackTop'
  /\ Kill(n) /\ Closing(n) /\ FramesBelow(n)
  /\ \A s \in 0 .. n - 1 : stack'[s] = stack[s]

LEMMA CutCells ==
  ASSUME Sure, Sure', Cells, NEW n \in Nat, Dropped(n)
  PROVE  Cells'
<1> USE DEF Dropped
<1>1. /\ \A s \in Slot : holds'[s] = IF s < n THEN holds[s] ELSE Temp
      /\ captured' = captured \cap 0 .. n - 1
      /\ captured \subseteq Slot
  BY DEF Kill, Sure, Typed, TypeOK
<1>2. stackTop' \in 0 .. StackMax /\ \A s \in 0 .. stackTop' - 1 : s \in Slot
  BY TopTypedNext DEF TopTyped, Sure, Typed
<1>3. CapturedLive'
  <2>1. ASSUME NEW s \in captured'
        PROVE  s < stackTop' /\ holds'[s] \in VarId
    <3>1. s \in captured /\ s \in Slot /\ s < n /\ s \in Nat
      BY <1>1, <2>1
    <3>2. QED
      BY <1>1, <1>2, <3>1 DEF Cells, CapturedLive
  <2>2. QED
    BY <2>1 DEF CapturedLive
<1>4. \A s \in Slot : holds'[s] \in VarId => s < n /\ holds'[s] = holds[s]
  BY <1>1, SentinelAssumption
<1>5. OneSlot'
  <2>1. ASSUME NEW s \in Slot, NEW t \in Slot, holds'[s] \in VarId, holds'[s] = holds'[t]
        PROVE  s = t
    <3>1. /\ s < n /\ t < n /\ holds[s] = holds[t] /\ holds[s] \in VarId
      BY <1>4, <2>1
    <3>2. s < stackTop /\ t < stackTop
      BY <3>1, StackTyped DEF Sure, Typed
    <3>3. QED
      BY <3>1, <3>2 DEF Cells, OneSlot
  <2>2. QED
    BY <2>1 DEF OneSlot
<1>6. FramesApart'
  <2>1. ASSUME NEW i \in DOMAIN frames'
        PROVE  frames'[i].slots < stackTop' /\ holds'[frames'[i].slots] = Callee
    <3>1. i \in DOMAIN frames /\ frames'[i] = frames[i] /\ frames[i].slots < n
      BY <2>1 DEF FramesBelow
    <3>2. frames[i].slots \in Slot
      BY <3>1, FrameSlots DEF Sure, Typed
    <3>3. frames[i].slots < stackTop'
      BY <1>2, <3>1, <3>2, StackTyped DEF Sure, Typed
    <3>4. QED
      BY <1>1, <3>1, <3>2, <3>3 DEF Cells, FramesApart
  <2>2. QED
    BY <2>1 DEF Cells, FramesApart, FramesBelow
<1>7. OpenInUse'
  <2>1. ASSUME NEW u \in Range(open')
        PROVE  /\ loc'[u] < stackTop' /\ loc'[u] \in captured'
               /\ holds'[loc'[u]] = owner'[u]
    <3>1. u \in Range(open) /\ loc[u] < n /\ u \in Upval
      BY OpenTyped DEF Closing, Sure, Typed
    <3>2. loc[u] \in captured /\ loc[u] \in Slot /\ holds[loc[u]] = owner[u]
      BY <1>1, <3>1 DEF Cells, OpenInUse
    <3>3. loc'[u] = loc[u] /\ loc[u] \in 0 .. n - 1 /\ owner'[u] = owner[u]
      BY <3>1, <3>2, StackTyped DEF Closing, Sure, Typed
    <3>4. QED
      BY <1>1, <1>2, <3>1, <3>2, <3>3
  <2>2. QED
    BY <2>1 DEF OpenInUse
<1>8. Referred' \subseteq Referred /\ Referred \subseteq Upval
  BY ReferredTyped DEF Closing, Referred, Sure, Typed
<1>9. OneUpvalue'
  BY <1>8 DEF Cells, OneUpvalue, Closing
<1>10. ClosedAlone'
  <2>1. ASSUME NEW u \in Referred', loc'[u] = Closed, owner'[u] \in OnStack'
        PROVE  FALSE
    <3>1. u \in Referred /\ u \in Upval /\ owner[u] = owner'[u]
      BY <1>8 DEF Closing
    <3>2. PICK s \in 0 .. stackTop' - 1 : holds'[s] = owner[u] /\ owner[u] \in VarId
      BY <2>1, <3>1 DEF OnStack
    <3>3. s \in Slot
      BY <1>2, <3>2
    <3>4. s < n /\ holds[s] = owner[u]
      BY <1>4, <3>2, <3>3
    <3>5. s \in 0 .. stackTop - 1
      BY <3>3, <3>4, StackTyped DEF Sure, Typed
    <3>6. owner[u] \in OnStack
      BY <3>2, <3>4, <3>5 DEF OnStack
    <3>7. loc[u] # Closed
      BY <3>1, <3>6 DEF Cells, ClosedAlone
    <3>8. /\ u \in Range(open) /\ loc[u] \in Slot /\ loc[u] < stackTop
          /\ holds[loc[u]] = owner[u]
      BY <3>1, <3>7, OwnerPlaced DEF Cells
    <3>9. loc[u] >= n
      BY <2>1, <3>1, <3>7 DEF Closing
    <3>10. s < stackTop /\ s = loc[u]
      BY <3>2, <3>3, <3>4, <3>5, <3>8, StackTyped DEF Cells, OneSlot, Sure, Typed
    <3>11. QED
      BY <3>3, <3>4, <3>9, <3>10, StackTyped DEF Sure, Typed
  <2>2. QED
    BY <2>1 DEF ClosedAlone
<1>11. QED
  BY <1>3, <1>5, <1>6, <1>7, <1>9, <1>10 DEF Cells

(* No upvalue points to slot n or above: nothing is to be closed.          *)
LEMMA NothingToClose ==
  ASSUME Sure, UNCHANGED heap, NEW n, \A u \in Range(open) : loc[u] < n /\ ~(loc[u] >= n)
  PROVE  Closing(n)
BY OpenTyped DEF Closing, heap, Sure, Typed

LEMMA ClosesAll ==
  ASSUME Sure, NEW n \in Slot, CloseUpvalues(n)
  PROVE  Closing(n)
BY CloseEffect DEF Closing, Sure, Typed, Linked

(* A call: the operand of the callee becomes the frame's slot 0, and the   *)
(* arguments become variables.                                             *)
LEMMA PushFrameCells ==
  ASSUME Sure, Cells, NEW callee, NEW argc \in Nat, frames # <<>>,
         \A d \in 0 .. argc : IsTemp(stackTop - 1 - d),
         PushFrame(callee, argc), UNCHANGED <<stackTop, heap>>
  PROVE  Cells'
<1> DEFINE slots  == stackTop - argc - 1
           params == slots + 1 .. stackTop - 1
<1>1. /\ stackTop \in 0 .. StackMax /\ StackMax \in Nat /\ Slot = 0 .. StackMax - 1
      /\ \A s \in Slot : holds[s] \in VarId \cup {Temp, Callee} /\ s \in Nat
      /\ captured \subseteq Slot
  BY StackTyped DEF Sure, Typed, TypeOK
<1>2. slots \in Slot /\ params \subseteq Slot /\ \A s \in slots .. stackTop - 1 : holds[s] = Temp
  <2>1. \A d \in 0 .. argc : stackTop - 1 - d >= 0 /\ holds[stackTop - 1 - d] = Temp
    BY DEF IsTemp
  <2>2. stackTop - 1 - argc >= 0
    BY <2>1
  <2>3. ASSUME NEW s \in slots .. stackTop - 1 PROVE holds[s] = Temp
    <3>1. /\ stackTop - 1 - s \in 0 .. argc
          /\ stackTop - 1 - (stackTop - 1 - s) = s
      BY <1>1, <2>2
    <3>2. QED
      BY <2>1, <3>1
  <2>4. QED
    BY <1>1, <2>2, <2>3
<1>3. PICK p \in Injection(params, VarId \ Named) :
        holds' = [s \in Slot |-> IF s \in params THEN p[s]
                                 ELSE IF s = slots THEN Callee ELSE holds[s]]
  BY DEF PushFrame
<1>4. PICK C \in SUBSET params : captured' = captured \cup C
  BY DEF PushFrame
<1>5. frames' = Append(frames, [closure |-> callee, slots |-> slots])
  BY DEF PushFrame
<1>6. /\ \A s \in params : holds'[s] \in VarId /\ holds'[s] \notin Named
      /\ \A s, t \in params : holds'[s] = holds'[t] => s = t
  BY <1>2, <1>3 DEF Injection, IsInjective
<1> HIDE DEF slots, params
<1>7. /\ holds'[slots] = Callee /\ slots \notin params
      /\ \A s \in Slot : s \notin params /\ s # slots => holds'[s] = holds[s]
  BY <1>1, <1>2, <1>3 DEF slots, params
<1>8. \A s \in params : s \in Nat /\ s < stackTop /\ s \in slots .. stackTop - 1
  BY <1>1, <1>2 DEF slots, params
<1>9. slots \in slots .. stackTop - 1 /\ slots < stackTop
  BY <1>1, <1>2 DEF slots, params
<1>10. \A s \in Slot : holds[s] # Temp => s \notin params /\ holds'[s] = holds[s]
  BY <1>2, <1>7, <1>8, <1>9
<1>11. CapturedLive'
  <2>1. \A s \in captured : s \in Slot /\ holds[s] \in VarId /\ s < stackTop
    BY <1>1 DEF Cells, CapturedLive
  <2>2. \A s \in captured : holds[s] # Temp
    BY <2>1, SentinelAssumption
  <2>3. QED
    BY <1>4, <1>6, <1>8, <1>10, <2>1, <2>2 DEF CapturedLive
<1>12. \A s \in Slot : holds'[s] \in VarId =>
         s \in params \/ (s \notin params /\ holds'[s] = holds[s])
  BY <1>7, SentinelAssumption
<1>13. \A s \in Slot : s < stackTop /\ holds[s] \in VarId => holds[s] \in Named
  BY StackTyped DEF Named, OnStack, Sure, Typed
<1>14. OneSlot'
  <2>1. ASSUME NEW s \in Slot, NEW t \in Slot, s < stackTop, t < stackTop,
               holds'[s] \in VarId, holds'[s] = holds'[t]
        PROVE  s = t
    BY <1>6, <1>12, <1>13, <2>1 DEF Cells, OneSlot
  <2>2. QED
    BY <2>1 DEF OneSlot
<1>15. FramesApart'
  <2>1. /\ Len(frames) \in Nat /\ DOMAIN frames = 1 .. Len(frames)
        /\ \A i \in DOMAIN frames : /\ frames[i].slots \in Slot
                                    /\ frames[i].slots < stackTop
                                    /\ holds[frames[i].slots] = Callee
    BY FrameSlots DEF Sure, Typed, Cells, FramesApart
  <2>2. \A i \in DOMAIN frames : /\ holds'[frames[i].slots] = Callee
                                 /\ frames[i].slots < slots
    <3>1. ASSUME NEW i \in DOMAIN frames
          PROVE  holds'[frames[i].slots] = Callee /\ frames[i].slots < slots
      <4>1. frames[i].slots \notin slots .. stackTop - 1
        BY <1>2, <2>1, SentinelAssumption
      <4>2. QED
        BY <1>1, <1>2, <1>10, <2>1, <4>1, SentinelAssumption
    <3>2. QED
      BY <3>1
  <2>3. /\ DOMAIN frames' = 1 .. Len(frames) + 1
        /\ \A i \in 1 .. Len(frames) : frames'[i] = frames[i]
        /\ frames'[Len(frames) + 1] = [closure |-> callee, slots |-> slots]
    BY <1>5, <2>1 DEF Sure, Typed, TypeOK
  <2>4. ASSUME NEW i \in DOMAIN frames'
        PROVE  frames'[i].slots < stackTop' /\ holds'[frames'[i].slots] = Callee
    BY <1>7, <1>9, <2>1, <2>2, <2>3
  <2>5. ASSUME NEW i \in DOMAIN frames', NEW j \in DOMAIN frames', i < j
        PROVE  frames'[i].slots < frames'[j].slots
    BY <2>1, <2>2, <2>3, <2>5 DEF Cells, FramesApart
  <2>6. QED
    BY <2>4, <2>5 DEF FramesApart
<1>16. OpenInUse'
  <2>1. ASSUME NEW u \in Range(open)
        PROVE  /\ loc[u] \in captured /\ loc[u] \in Slot /\ holds[loc[u]] \in VarId
    BY <1>1 DEF Cells, OpenInUse, CapturedLive
  <2>2. QED
    BY <1>4, <1>10, <2>1, SentinelAssumption DEF Cells, OpenInUse, heap
<1>17. Referred' = Referred /\ OneUpvalue'
  BY DEF Cells, OneUpvalue, Referred, heap
<1>18. ClosedAlone'
  <2>1. \A v \in OnStack' : v \in OnStack \/ v \notin Named
    <3>1. ASSUME NEW v \in OnStack' PROVE v \in OnStack \/ v \notin Named
      <4>1. PICK s \in 0 .. stackTop - 1 : holds'[s] = v /\ v \in VarId
        BY <3>1 DEF OnStack
      <4>2. s \in Slot
        BY <1>1
      <4>3. QED
        BY <1>6, <1>12, <4>1, <4>2 DEF OnStack
    <3>2. QED
      BY <3>1
  <2>2. \A u \in Referred : owner[u] \in Named
    BY DEF Named
  <2>3. QED
    BY <1>17, <2>1, <2>2 DEF Cells, ClosedAlone, heap
<1>19. QED
  BY <1>11, <1>14, <1>15, <1>16, <1>17, <1>18 DEF Cells

(* A step that makes nothing new: values move, and entries of closures are *)
(* given upvalues in use.                                                  *)
LEMMA SameCells ==
  ASSUME Cells, Referred' \subseteq Referred,
         UNCHANGED <<stackTop, frames, open, loc, owner, ghost>>
  PROVE  Cells'
<1>1. CapturedLive' /\ OneSlot' /\ FramesApart' /\ OpenInUse'
  BY DEF Cells, CapturedLive, OneSlot, FramesApart, OpenInUse, ghost
<1>2. OnStack' = OnStack
  BY DEF OnStack, ghost
<1>3. OneUpvalue' /\ ClosedAlone'
  BY <1>2 DEF Cells, OneUpvalue, ClosedAlone
<1>4. QED
  BY <1>1, <1>3 DEF Cells

(* Only the entry written can refer to an upvalue that was garbage.        *)
LEMMA EntryGrows ==
  ASSUME Sure, Sure', NEW f \in Fn, NEW i, NEW u \in Upval,
         closures' = [closures EXCEPT ![f][i] = u],
         Range(open') \subseteq Range(open) \cup {u}
  PROVE  Referred' \subseteq Referred \cup {u}
<1>1. ASSUME NEW w \in Referred', w # u
      PROVE  w \in Referred
  <2>1. w \in Upval
    BY ReferredTypedNext DEF Sure, Typed
  <2>2. \/ w \in Range(open')
        \/ \E g \in Fn : w \in Range(closures[g])
    BY <1>1, EntryReferred DEF Sure, Typed
  <2>3. QED
    BY <1>1, <2>1, <2>2, ReferredTyped DEF Sure, Typed
<1>2. QED
  BY <1>1

(* An upvalue is made for a variable that had none.                        *)
LEMMA CaptureCells ==
  ASSUME Sure, Sure', Cells, NEW f \in Fn, NEW i \in DOMAIN Upvals[f],
         NEW s \in captured, CaptureUpval(f, i, s), UNCHANGED <<vm, ghost>>
  PROVE  Cells'
<1>1. s \in Slot /\ s < stackTop /\ holds[s] \in VarId /\ holds[s] \in OnStack
  <2>1. s \in Slot /\ s < stackTop /\ holds[s] \in VarId
    BY DEF Sure, Typed, TypeOK, Cells, CapturedLive
  <2>2. s \in 0 .. stackTop - 1
    BY <2>1, StackTyped DEF Sure, Typed
  <2>3. QED
    BY <2>1, <2>2, OnStackSlot
<1>2. PICK u \in Upval :
        /\ closures' = [closures EXCEPT ![f][i] = u]
        /\ loc'[u] = s
        /\ \/ u \in Range(open) /\ UNCHANGED <<open, loc, owner>>
           \/ /\ u \notin Referred
              /\ \A w \in Range(open) : loc[w] # s
              /\ Range(open') = Range(open) \cup {u}
              /\ loc'   = [loc EXCEPT ![u] = s]
              /\ owner' = [owner EXCEPT ![u] = holds[s]]
  BY <1>1, CaptureEffect DEF Sure, Typed, Linked
<1>3. Range(open') \subseteq Range(open) \cup {u}
  BY <1>2
<1>4. Referred' \subseteq Referred \cup {u}
  BY <1>2, <1>3, EntryGrows
<1>5. CASE u \in Range(open) /\ UNCHANGED <<open, loc, owner>>
  <2>1. u \in Referred
    BY <1>5, ReferredTyped DEF Sure, Typed
  <2>2. QED
    BY <1>4, <1>5, <2>1, SameCells DEF vm
<1>6. CASE /\ u \notin Referred
           /\ \A w \in Range(open) : loc[w] # s
           /\ Range(open') = Range(open) \cup {u}
           /\ loc'   = [loc EXCEPT ![u] = s]
           /\ owner' = [owner EXCEPT ![u] = holds[s]]
  <2>1. CapturedLive' /\ OneSlot' /\ FramesApart' /\ OnStack' = OnStack
    BY DEF Cells, CapturedLive, OneSlot, FramesApart, OnStack, vm, ghost
  <2>2. Referred \subseteq Upval /\ Range(open) \subseteq Referred
    BY ReferredTyped DEF Sure, Typed
  <2>3. \A w \in Referred : w # u /\ loc'[w] = loc[w] /\ owner'[w] = owner[w]
    BY <1>6, <2>2 DEF Sure, Typed, TypeOK
  <2>4. loc'[u] = s /\ owner'[u] = holds[s] /\ s # Closed
    BY <1>1, <1>6 DEF Sure, Typed, TypeOK, Slot
  <2>5. OpenInUse'
    BY <1>1, <1>6, <2>2, <2>3, <2>4 DEF Cells, OpenInUse, vm, ghost
  <2>6. ASSUME NEW w \in Referred PROVE owner[w] # holds[s]
    <3>1. CASE loc[w] = Closed
      BY <1>1, <3>1 DEF Cells, ClosedAlone
    <3>2. CASE loc[w] # Closed
      <4>1. /\ w \in Range(open) /\ loc[w] \in Slot /\ loc[w] < stackTop
            /\ holds[loc[w]] = owner[w]
        BY <3>2, OwnerPlaced DEF Cells
      <4>2. QED
        BY <1>1, <1>6, <4>1 DEF Cells, OneSlot
    <3>3. QED
      BY <3>1, <3>2
  <2>7. OneUpvalue'
    BY <1>4, <2>3, <2>4, <2>6 DEF Cells, OneUpvalue
  <2>8. ClosedAlone'
    BY <1>4, <2>1, <2>3, <2>4 DEF Cells, ClosedAlone
  <2>9. QED
    BY <2>1, <2>5, <2>7, <2>8 DEF Cells
<1>7. QED
  BY <1>2, <1>5, <1>6

(* An operand becomes a local where it lies.                               *)
LEMMA DeclareCells ==
  ASSUME Sure, Cells, Declare
  PROVE  Cells'
<1> DEFINE n == stackTop - 1
<1>1. /\ stackTop \in 0 .. StackMax /\ StackMax \in Nat /\ Slot = 0 .. StackMax - 1
      /\ \A s \in Slot : holds[s] \in VarId \cup {Temp, Callee} /\ s \in Nat
      /\ holds \in [Slot -> VarId \cup {Temp, Callee}]
      /\ captured \subseteq Slot
  BY StackTyped DEF Sure, Typed, TypeOK
<1>2. n \in Slot /\ n < stackTop /\ holds[n] = Temp
  BY <1>1 DEF Declare, IsTemp
<1>3. PICK v \in VarId : v \notin Named /\ holds' = [holds EXCEPT ![n] = v]
  BY DEF Declare
<1>4. captured' = captured \/ captured' = captured \cup {n}
  BY DEF Declare, NewLocal
<1>5. UNCHANGED <<stack, stackTop, frames, open, loc, cloned, closures, owner>>
  BY DEF Declare, vm, heap
<1> HIDE DEF n
<1>6. holds'[n] = v /\ \A s \in Slot : s # n => holds'[s] = holds[s]
  BY <1>1, <1>2, <1>3
<1>7. \A s \in Slot : holds[s] # Temp => holds'[s] = holds[s]
  BY <1>2, <1>6
<1>8. CapturedLive'
  <2>1. \A s \in captured : s \in Slot /\ holds[s] \in VarId /\ s < stackTop
    BY <1>1 DEF Cells, CapturedLive
  <2>2. QED
    BY <1>2, <1>3, <1>4, <1>5, <1>6, <1>7, <2>1, SentinelAssumption DEF CapturedLive
<1>9. \A s \in Slot : s < stackTop /\ holds[s] \in VarId => holds[s] \in Named
  BY StackTyped DEF Named, OnStack, Sure, Typed
<1>10. OneSlot'
  BY <1>3, <1>5, <1>6, <1>9 DEF Cells, OneSlot
<1>11. FramesApart'
  <2>1. ASSUME NEW i \in DOMAIN frames PROVE holds'[frames[i].slots] = Callee
    <3>1. frames[i].slots \in Slot /\ holds[frames[i].slots] = Callee
      BY FrameSlots DEF Sure, Typed, Cells, FramesApart
    <3>2. QED
      BY <1>7, <3>1, SentinelAssumption
  <2>2. QED
    BY <1>5, <2>1 DEF Cells, FramesApart
<1>12. OpenInUse'
  <2>1. ASSUME NEW u \in Range(open)
        PROVE  /\ loc[u] \in captured /\ loc[u] \in Slot /\ holds[loc[u]] \in VarId
    BY <1>1 DEF Cells, OpenInUse, CapturedLive
  <2>2. QED
    BY <1>4, <1>5, <1>7, <2>1, SentinelAssumption DEF Cells, OpenInUse
<1>13. Referred' = Referred /\ OneUpvalue'
  BY <1>5 DEF Cells, OneUpvalue, Referred
<1>14. ClosedAlone'
  <2>1. ASSUME NEW w \in OnStack' PROVE w \in OnStack \/ w \notin Named
    <3>1. PICK s \in 0 .. stackTop - 1 : holds'[s] = w /\ w \in VarId
      BY <1>5, <2>1 DEF OnStack
    <3>2. s \in Slot
      BY <1>1, <3>1
    <3>3. QED
      BY <1>3, <1>6, <3>1, <3>2 DEF OnStack
  <2>2. \A u \in Referred : owner[u] \in Named
    BY DEF Named
  <2>3. QED
    BY <1>5, <1>13, <2>1, <2>2 DEF Cells, ClosedAlone
<1>15. QED
  BY <1>8, <1>10, <1>11, <1>12, <1>13, <1>14 DEF Cells

(* Slots given up without close_upvalues: none of them was captured.       *)
LEMMA PopDrops ==
  ASSUME Sure, Cells, NEW n \in Nat, n <= stackTop, PopTo(n), FramesBelow(n),
         UNCHANGED heap, \A s \in n .. stackTop - 1 : s \notin captured
  PROVE  Dropped(n)
<1>1. ASSUME NEW u \in Range(open)
      PROVE  loc[u] < n /\ ~(loc[u] >= n)
  <2>1. loc[u] \in captured /\ loc[u] < stackTop /\ captured \subseteq Slot
    BY DEF Cells, OpenInUse, Sure, Typed, TypeOK
  <2>2. loc[u] \in Nat /\ loc[u] \notin n .. stackTop - 1 /\ stackTop \in Nat
    BY <2>1, StackTyped DEF Sure, Typed
  <2>3. QED
    BY <2>1, <2>2
<1>2. Closing(n)
  BY <1>1, NothingToClose
<1>3. Kill(n) /\ stackTop' = n /\ n <= stackTop'
  BY DEF PopTo
<1>4. QED
  BY <1>2, <1>3 DEF PopTo, Dropped

(* What stands on top of the frames' slots belongs to the running frame.   *)
LEMMA TopAboveFrames ==
  ASSUME Sure, Cells, UNCHANGED frames, stackTop > 0, holds[stackTop - 1] # Callee
  PROVE  stackTop - 1 \in Slot /\ FramesBelow(stackTop - 1)
<1>1. stackTop \in 0 .. StackMax /\ StackMax \in Nat /\ Slot = 0 .. StackMax - 1
  BY StackTyped DEF Sure, Typed
<1>2. ASSUME NEW i \in DOMAIN frames PROVE frames[i].slots < stackTop - 1
  <2>1. /\ frames[i].slots \in Slot /\ frames[i].slots < stackTop
        /\ holds[frames[i].slots] = Callee
    BY FrameSlots DEF Sure, Typed, Cells, FramesApart
  <2>2. QED
    BY <1>1, <2>1
<1>3. QED
  BY <1>1, <1>2 DEF FramesBelow

LEMMA NotCaptured ==
  ASSUME Sure, Cells, NEW s, holds[s] = Temp \/ holds[s] = Callee
  PROVE  s \notin captured
BY SentinelAssumption DEF Cells, CapturedLive

-------------------------------------------------------------------------------
(* Every step.                                                             *)

LEMMA PopDropped ==
  ASSUME Sure, Cells, Pop
  PROVE  \E n \in Nat : Dropped(n)
<1>1. stackTop > 0 /\ holds[stackTop - 1] = Temp /\ stackTop \in Nat
  BY StackTyped DEF Pop, IsTemp, Sure, Typed
<1>2. stackTop - 1 \in Nat /\ FramesBelow(stackTop - 1)
  BY <1>1, TopAboveFrames, SentinelAssumption DEF Pop
<1>3. \A s \in stackTop - 1 .. stackTop - 1 : s \notin captured
  BY <1>1, NotCaptured
<1>4. QED
  BY <1>1, <1>2, <1>3, PopDrops DEF Pop

LEMMA EndLocalDropped ==
  ASSUME Sure, Cells, EndLocal
  PROVE  \E n \in Nat : Dropped(n)
<1>1. stackTop > 0 /\ holds[stackTop - 1] \in VarId /\ stackTop \in Nat
  BY StackTyped DEF EndLocal, Sure, Typed
<1>2. stackTop - 1 \in Slot /\ stackTop - 1 \in Nat /\ FramesBelow(stackTop - 1)
  BY <1>1, TopAboveFrames, SentinelAssumption DEF EndLocal
<1>3. PopTo(stackTop - 1)
  BY DEF EndLocal
<1>4. CASE stackTop - 1 \in captured
  <2>1. Closing(stackTop - 1)
    BY <1>2, <1>4, ClosesAll DEF EndLocal
  <2>2. QED
    BY <1>1, <1>2, <1>3, <2>1 DEF PopTo, Dropped
<1>5. CASE stackTop - 1 \notin captured
  <2>1. UNCHANGED heap /\ \A s \in stackTop - 1 .. stackTop - 1 : s \notin captured
    BY <1>1, <1>5 DEF EndLocal
  <2>2. QED
    BY <1>1, <1>2, <1>3, <2>1, PopDrops
<1>6. QED
  BY <1>4, <1>5

LEMMA ReturnDropped ==
  ASSUME Sure, Cells, Return
  PROVE  \E n \in Nat : Dropped(n)
<1> DEFINE n == Frame.slots
<1>1. /\ Len(frames) \in Nat /\ Len(frames) > 1 /\ DOMAIN frames = 1 .. Len(frames)
      /\ frames \in Seq([closure : Fn \cup {Script}, slots : Slot])
  BY FrameSlots DEF Return, Leave, Sure, Typed, TypeOK
<1>2. n \in Slot /\ n \in Nat /\ n < stackTop
  BY <1>1, FrameSlots, StackTyped, SMTT(20) DEF Frame, Sure, Typed, Cells, FramesApart
<1>3. FramesBelow(n)
  <2>1. /\ DOMAIN frames' = 1 .. Len(frames) - 1
        /\ \A i \in 1 .. Len(frames) - 1 : frames'[i] = frames[i]
    BY <1>1, SubSeqProperties DEF Return, Leave
  <2>2. QED
    BY <1>1, <2>1 DEF FramesBelow, Cells, FramesApart, Frame
<1>4. Closing(n) /\ Kill(n) /\ stackTop' = n + 1
  BY <1>2, ClosesAll DEF Return, Leave
<1> HIDE DEF n
<1>5. n <= stackTop /\ n <= stackTop'
  BY <1>2, <1>4, StackTyped DEF Sure, Typed
<1>6. \A s \in 0 .. n - 1 : stack'[s] = stack[s]
  <2>1. /\ \A s \in 0 .. n - 1 : s \in Slot /\ s # n
        /\ stack \in [Slot -> Value]
    BY <1>2, StackTyped DEF Sure, Typed, TypeOK
  <2>2. QED
    BY <2>1 DEF Return, Leave, n
<1>7. QED
  BY <1>2, <1>3, <1>4, <1>5, <1>6 DEF Dropped

LEMMA ReturnScriptDropped ==
  ASSUME Sure, Cells, ReturnScript
  PROVE  \E n \in Nat : Dropped(n)
<1> DEFINE n == stackTop - 2
<1>1. Len(frames) \in DOMAIN frames /\ n = Frame.slots
  <2>1. stackTop \in Nat /\ Len(frames) \in Nat /\ DOMAIN frames = 1 .. Len(frames)
    BY FrameSlots, StackTyped DEF Sure, Typed
  <2>2. frames # <<>>
    BY DEF ReturnScript, InCode
  <2>3. Frame.slots \in Slot
    BY <2>2, FrameTyped DEF Sure, Typed
  <2>4. QED
    BY <2>1, <2>3, StackTyped DEF ReturnScript, Sure, Typed
<1>2. n \in Nat /\ n <= stackTop /\ holds[n] = Callee /\ holds[stackTop - 1] = Temp
      /\ n .. stackTop - 1 = {n, stackTop - 1}
  <2>1. n \in Slot /\ holds[n] = Callee
    BY <1>1, FrameSlots DEF Sure, Typed, Cells, FramesApart, Frame
  <2>2. n \in Nat /\ stackTop \in Nat
    BY <2>1, StackTyped DEF Sure, Typed
  <2>3. n .. stackTop - 1 = {n, stackTop - 1}
    BY <2>2
  <2>4. QED
    BY <2>1, <2>2, <2>3 DEF ReturnScript, IsTemp
<1>3. FramesBelow(n) /\ PopTo(n) /\ UNCHANGED heap
  BY DEF FramesBelow, ReturnScript
<1> HIDE DEF n
<1>4. \A s \in n .. stackTop - 1 : s \notin captured
  BY <1>2, NotCaptured
<1>5. QED
  BY <1>2, <1>3, <1>4, PopDrops

LEMMA ClosureLive ==
  ASSUME Sure, Cells, Closure
  PROVE  Cells'
<1>1. PICK f \in Fn :
        \/ Push(f, Temp) /\ captured' = captured
        \/ /\ \E v \in VarId \ Named : Push(f, v)
           /\ NewLocal(stackTop)
  BY DEF Closure
<1>2. UNCHANGED <<heap, frames>>
  BY DEF Closure
<1>3. CASE Push(f, Temp) /\ captured' = captured
  BY <1>2, <1>3, PushCells, SentinelAssumption
<1>4. CASE /\ \E v \in VarId \ Named : Push(f, v)
           /\ NewLocal(stackTop)
  <2>1. PICK v \in VarId \ Named : Push(f, v)
    BY <1>4
  <2>2. captured' = captured \/ captured' = captured \cup {stackTop}
    BY <1>4 DEF NewLocal
  <2>3. QED
    BY <1>2, <2>1, <2>2, PushCells
<1>5. QED
  BY <1>1, <1>3, <1>4

(* The upvalue that the running closure has for a descriptor that is not   *)
(* local is in use.                                                        *)
LEMMA CaptureStep ==
  ASSUME Sure, CaptureNext
  PROVE  \E f \in Fn : \E i \in DOMAIN Upvals[f] :
           \/ \E s \in captured : holds[s] \in VarId /\ CaptureUpval(f, i, s)
           \/ \E u \in Referred : u \in Upval /\ ShareUpvalue(f, i, u)
<1>1. PICK f \in Fn, i \in Nat \ {0} : capturing = <<f, i>>
  BY DEF CaptureNext, CapturingOK, Sure, Typed
<1>2. /\ i \in DOMAIN Upvals[f]
      /\ Upvals[f][i].local => /\ Frame.slots + Upvals[f][i].index \in captured
                               /\ holds[Frame.slots + Upvals[f][i].index] \in VarId
      /\ IF Upvals[f][i].local
           THEN CaptureUpval(f, i, Frame.slots + Upvals[f][i].index)
           ELSE ShareUpvalue(f, i,
                  closures[Frame.closure][Upvals[f][i].index + 1])
  BY <1>1 DEF CaptureNext, CapturingOK, Range, Sure, Typed
<1>3. CASE Upvals[f][i].local
  BY <1>2, <1>3
<1>4. CASE ~Upvals[f][i].local
  <2> DEFINE u == closures[Frame.closure][Upvals[f][i].index + 1]
  <2>1. u \in Upval /\ Frame.closure \in Fn /\ u \in Range(closures[Frame.closure])
    BY <1>1, <1>4, EnclosingEntry DEF Range, Sure, Typed
  <2>2. ShareUpvalue(f, i, u)
    BY <1>2, <1>4
  <2> HIDE DEF u
  <2>3. u \in Referred
    BY <2>1, ReferredTyped DEF Sure, Typed
  <2>4. QED
    BY <1>2, <2>1, <2>2, <2>3
<1>5. QED
  BY <1>3, <1>4

LEMMA CaptureLive ==
  ASSUME Sure, Sure', Cells, CaptureNext
  PROVE  Cells'
<1>1. PICK f \in Fn : \E i \in DOMAIN Upvals[f] :
        \/ \E s \in captured : CaptureUpval(f, i, s)
        \/ \E u \in Referred : u \in Upval /\ ShareUpvalue(f, i, u)
  BY CaptureStep
<1>2. PICK i \in DOMAIN Upvals[f] :
        \/ \E s \in captured : CaptureUpval(f, i, s)
        \/ \E u \in Referred : u \in Upval /\ ShareUpvalue(f, i, u)
  BY <1>1
<1>3. UNCHANGED <<vm, ghost>>
  BY DEF CaptureNext
<1>4. ASSUME NEW s \in captured, CaptureUpval(f, i, s) PROVE Cells'
  BY <1>3, <1>4, CaptureCells
<1>5. ASSUME NEW u \in Referred, u \in Upval, ShareUpvalue(f, i, u) PROVE Cells'
  <2>1. closures' = [closures EXCEPT ![f][i] = u] /\ UNCHANGED <<open, loc, owner>>
    BY <1>5 DEF ShareUpvalue
  <2>2. Referred' \subseteq Referred
    BY <1>5, <2>1, EntryGrows
  <2>3. QED
    BY <1>3, <2>1, <2>2, SameCells DEF vm
<1>6. QED
  BY <1>2, <1>4, <1>5

LEMMA NextLive == Sure /\ Sure' /\ Live /\ [Next]_vars => Live'
<1> SUFFICES ASSUME Sure, Sure', Live, [Next]_vars PROVE Live'
  OBVIOUS
<1> USE DEF Live
<1>1. CASE failed /\ UNCHANGED failed
  BY <1>1
<1>2. CASE failed'
  BY <1>2
<1>3. ASSUME Cells, ~failed' PROVE Cells'
  <2>1. ASSUME NEW x, PushOperand(x) PROVE Cells'
    BY <1>3, <2>1, PushCells, SentinelAssumption DEF PushOperand
  <2>2. ASSUME Storing PROVE Cells'
    BY <1>3, <2>2, SameCells DEF Storing, Referred
  <2>3. CASE Interpret
    BY <1>3, <2>3, PushCells, SentinelAssumption DEF Interpret
  <2>4. CASE Const \/ GetLocal \/ GetUpval \/ GetGlobal
    BY <2>1, <2>4 DEF Const, GetLocal, GetUpval, GetGlobal
  <2>5. CASE SetLocal \/ SetUpval \/ SetGlobal
    BY <2>2, <2>5 DEF SetLocal, SetUpval, SetGlobal
  <2>6. CASE Declare \/ Closure \/ CaptureNext
    BY <1>3, <2>6, DeclareCells, ClosureLive, CaptureLive
  <2>7. CASE Pop \/ EndLocal \/ Return \/ ReturnScript
    <3>1. \E n \in Nat : Dropped(n)
      BY <1>3, <2>7, PopDropped, EndLocalDropped, ReturnDropped, ReturnScriptDropped
    <3>2. QED
      BY <1>3, <3>1, CutCells
  <2>8. CASE \E argc \in 0 .. StackMax : Call(argc)
    <3>1. PICK argc \in 0 .. StackMax : Call(argc)
      BY <2>8
    <3>2. /\ PushFrame(Peek(argc), argc) /\ UNCHANGED <<stackTop, heap>>
          /\ \A d \in 0 .. argc : IsTemp(stackTop - 1 - d)
          /\ frames # <<>> /\ argc \in Nat
      BY <1>3, <3>1 DEF Call, RuntimeError, InCode
    <3>3. QED
      BY <1>3, <3>2, PushFrameCells
  <2>9. CASE OperandError
    BY <1>3, <2>9 DEF OperandError, RuntimeError
  <2>10. CASE Terminated \/ UNCHANGED vars
    BY <1>3, <2>10, SameCells DEF Terminated, vars, vm, heap, Referred
  <2>11. QED
    BY <2>3, <2>4, <2>5, <2>6, <2>7, <2>8, <2>9, <2>10 DEF Next
<1>4. failed \in BOOLEAN /\ failed' \in BOOLEAN /\ (failed' = failed \/ failed' = TRUE)
  <2>1. failed \in BOOLEAN
    BY DEF Sure, Typed, TypeOK
  <2>2. failed' \in BOOLEAN
    BY DEF Sure, Typed, TypeOK
  <2>3. failed' = failed \/ failed'
    BY DEF Next, Interpret, Const, GetLocal, GetUpval, GetGlobal, PushOperand, SetLocal,
       SetUpval, SetGlobal, Storing, Pop, Declare, EndLocal, Closure, CaptureNext, Call,
       OperandError, RuntimeError, Return, Leave, ReturnScript, Terminated, vars, session
  <2>4. QED
    BY <2>1, <2>2, <2>3
<1>5. QED
  BY <1>1, <1>2, <1>3, <1>4

LEMMA InitLive == Init => Live
<1> SUFFICES ASSUME Init PROVE Cells
  BY DEF Live
<1>1. Range(open) = {} /\ Sure
  BY InitTyped, InitLinked DEF Init, Range, Sure
<1>2. Referred = {}
  <2>1. \A f \in Fn : Range(closures[f]) \subseteq {NoUpval}
    BY DEF Init, Range
  <2>2. QED
    BY <1>1, <2>1 DEF Referred
<1>3. OnStack = {}
  BY DEF Init, OnStack
<1>4. QED
  BY <1>1, <1>2, <1>3, EmptySeq DEF Init, Cells, CapturedLive, OneSlot, FramesApart, OpenInUse,
     OneUpvalue, ClosedAlone, Slot

THEOREM SpecLive == Spec => []Live
<1>1. QED
  BY InitLive, NextLive, SpecSure, PTL DEF Spec

(* An upvalue in use was made for a variable.                              *)
Owned == \A u \in Referred : owner[u] \in VarId

LEMMA SameOwned ==
  ASSUME Owned, Referred' \subseteq Referred, UNCHANGED owner
  PROVE  Owned'
BY DEF Owned

LEMMA NextOwned == Sure /\ Sure' /\ Owned /\ [Next]_vars => Owned'
<1> SUFFICES ASSUME Sure, Sure', Owned, [Next]_vars PROVE Owned'
  OBVIOUS
<1>1. CASE CaptureNext
  <2>1. PICK f \in Fn : \E i \in DOMAIN Upvals[f] :
          \/ \E s \in captured : holds[s] \in VarId /\ CaptureUpval(f, i, s)
          \/ \E u \in Referred : u \in Upval /\ ShareUpvalue(f, i, u)
    BY <1>1, CaptureStep
  <2>2. PICK i \in DOMAIN Upvals[f] :
          \/ \E s \in captured : holds[s] \in VarId /\ CaptureUpval(f, i, s)
          \/ \E u \in Referred : u \in Upval /\ ShareUpvalue(f, i, u)
    BY <2>1
  <2>3. ASSUME NEW s \in captured, holds[s] \in VarId, CaptureUpval(f, i, s)
        PROVE  Owned'
    <3>1. s \in Slot
      BY DEF Sure, Typed, TypeOK
    <3>2. PICK u \in Upval :
            /\ closures' = [closures EXCEPT ![f][i] = u]
            /\ \/ u \in Range(open) /\ UNCHANGED <<open, loc, owner>>
               \/ /\ u \notin Referred
                  /\ Range(open') = Range(open) \cup {u}
                  /\ owner' = [owner EXCEPT ![u] = holds[s]]
      BY <2>3, <3>1, CaptureEffect DEF Sure, Typed, Linked
    <3>3. Referred' \subseteq Referred \cup {u}
      BY <3>2, EntryGrows
    <3>4. Range(open) \subseteq Referred /\ Referred \subseteq Upval
      BY ReferredTyped DEF Sure, Typed
    <3>5. QED
      BY <2>3, <3>2, <3>3, <3>4 DEF Owned, Sure, Typed, TypeOK
  <2>4. ASSUME NEW u \in Referred, u \in Upval, ShareUpvalue(f, i, u)
        PROVE  Owned'
    <3>1. closures' = [closures EXCEPT ![f][i] = u] /\ UNCHANGED <<open, loc, owner>>
      BY <2>4 DEF ShareUpvalue
    <3>2. Referred' \subseteq Referred
      BY <2>4, <3>1, EntryGrows
    <3>3. QED
      BY <3>1, <3>2, SameOwned
  <2>5. QED
    BY <2>2, <2>3, <2>4
<1>2. CASE EndLocal \/ Return
  <2>1. UNCHANGED <<closures, owner>> /\ Range(open') \subseteq Range(open)
    <3>1. CASE UNCHANGED heap
      BY <3>1 DEF heap
    <3>2. ASSUME NEW n \in Slot, CloseUpvalues(n)
          PROVE  UNCHANGED <<closures, owner>> /\ Range(open') \subseteq Range(open)
      BY <3>2, ClosesAll DEF Closing
    <3>3. EndLocal => stackTop - 1 \in captured \/ UNCHANGED heap
      BY DEF EndLocal
    <3>4. Return => Frame.slots \in Slot
      BY FrameTyped DEF Return, Leave, InCode, Sure, Typed
    <3>5. QED
      BY <1>2, <3>1, <3>2, <3>3, <3>4 DEF EndLocal, Return, Sure, Typed, TypeOK
  <2>2. QED
    BY <2>1, SameOwned DEF Referred
<1>3. CASE ~(CaptureNext \/ EndLocal \/ Return)
  <2>1. UNCHANGED <<open, closures, owner>>
    BY <1>3 DEF Next, Interpret, Const, GetLocal, GetUpval, GetGlobal, PushOperand, SetLocal,
       SetUpval, SetGlobal, Storing, Pop, Declare, Closure, Call, OperandError,
       RuntimeError, ReturnScript, Terminated, vars, heap
  <2>2. QED
    BY <2>1, SameOwned DEF Referred
<1>4. QED
  BY <1>1, <1>2, <1>3

LEMMA SpecOwned == Spec => []Owned
<1>1. Init => Owned
  <2>1. ASSUME Init PROVE Range(open) = {} /\ \A f \in Fn : Range(closures[f]) \subseteq {NoUpval}
    BY <2>1 DEF Init, Range
  <2>2. QED
    BY <2>1 DEF Owned, Referred
<1>2. QED
  BY <1>1, NextOwned, SpecSure, PTL DEF Spec

-------------------------------------------------------------------------------
(* What the invariant says.                                                *)

(* While no error has happened, no upvalue outlives the slot it points to: *)
(* an open upvalue refers to the live slot of the variable it was made     *)
(* for, whatever was called, returned from and declared since.             *)
THEOREM LiveSlots == Spec => []OpenLive
<1>1. Live => OpenLive
  BY DEF Live, Cells, OpenInUse, OpenLive
<1>2. QED
  BY <1>1, SpecLive, PTL

(* No write is missed: the closures that captured one variable share one   *)
(* upvalue, and a closed variable has left the stack.                      *)
THEOREM Sharing == Spec => []OneCell
<1>1. Live => OneCell
  BY DEF Live, Cells, OneUpvalue, ClosedAlone, OneCell
<1>2. QED
  BY <1>1, SpecLive, PTL

LEMMA ClosedStays ==
  ASSUME Sure, [Next]_vars
  PROVE  \A u \in Referred \cap Referred' : loc[u] = Closed => loc'[u] = Closed
<1>1. Referred \subseteq Upval
  BY ReferredTyped DEF Sure, Typed
<1>2. CASE CaptureNext
  <2>1. PICK f \in Fn : \E i \in DOMAIN Upvals[f] :
          \/ \E s \in captured : holds[s] \in VarId /\ CaptureUpval(f, i, s)
          \/ \E u \in Referred : u \in Upval /\ ShareUpvalue(f, i, u)
    BY <1>2, CaptureStep
  <2>2. PICK i \in DOMAIN Upvals[f] :
          \/ \E s \in captured : holds[s] \in VarId /\ CaptureUpval(f, i, s)
          \/ \E u \in Referred : u \in Upval /\ ShareUpvalue(f, i, u)
    BY <2>1
  <2>3. ASSUME NEW s \in captured, CaptureUpval(f, i, s)
        PROVE  UNCHANGED loc \/ \E u \in Upval \ Referred : loc' = [loc EXCEPT ![u] = s]
    <3>1. s \in Slot
      BY DEF Sure, Typed, TypeOK
    <3>2. QED
      BY <2>3, <3>1, CaptureEffect DEF Sure, Typed, Linked
  <2>4. QED
    BY <1>1, <2>2, <2>3 DEF ShareUpvalue, Sure, Typed, TypeOK
<1>3. ASSUME NEW n \in Slot, CloseUpvalues(n)
      PROVE  \A u \in Upval : loc[u] = Closed => loc'[u] = Closed
  BY <1>3, ClosesAll DEF Closing
<1>4. CASE EndLocal
  <2>1. stackTop - 1 \in captured => stackTop - 1 \in Slot
    BY DEF Sure, Typed, TypeOK
  <2>2. QED
    BY <1>1, <1>3, <1>4, <2>1 DEF EndLocal, heap
<1>5. CASE Return
  <2>1. Frame.slots \in Slot
    BY <1>5, FrameTyped DEF Return, Leave, InCode, Sure, Typed
  <2>2. QED
    BY <1>1, <1>3, <1>5, <2>1 DEF Return
<1>6. CASE ~(CaptureNext \/ EndLocal \/ Return)
  <2>1. UNCHANGED loc
    BY <1>6 DEF Next, Interpret, Const, GetLocal, GetUpval, GetGlobal, PushOperand,
       SetLocal, SetUpval, SetGlobal, Storing, Pop, Declare, Closure, Call, OperandError,
       RuntimeError, ReturnScript, Terminated, vars, heap
  <2>2. QED
    BY <2>1
<1>7. QED
  BY <1>2, <1>4, <1>5, <1>6

(* Closing is final: no later capture, error or call makes a closed        *)
(* upvalue point into the stack again while something refers to it.        *)
THEOREM Finality == Spec => ClosedForGood
<1>1. Sure /\ Sure' /\ [Next]_vars =>
        [\A u \in Referred \cap Referred' :
           loc[u] = Closed => loc'[u] = Closed /\ u \notin Range(open')]_vars
  BY ClosedStays DEF Sure, Linked, OpenIffListed
<1>2. QED
  BY <1>1, SpecSure, PTL DEF Spec, ClosedForGood

-------------------------------------------------------------------------------
(* The cell of a variable.                                                 *)

(* Where CellOf looks.                                                     *)
CellCases ==
  \A v \in VarId :
    \/ \E s \in 0 .. stackTop - 1 : holds[s] = v /\ CellOf(v) = stack[s]
    \/ v \notin OnStack /\ \E u \in Referred : owner[u] = v /\ CellOf(v) = Deref(u)
    \/ v \notin Named /\ CellOf(v) = Unbound

LEMMA CellLooks == CellCases
<1>1. ASSUME NEW v \in VarId
      PROVE  \/ \E s \in 0 .. stackTop - 1 : holds[s] = v /\ CellOf(v) = stack[s]
             \/ v \notin OnStack /\ \E u \in Referred : owner[u] = v /\ CellOf(v) = Deref(u)
             \/ v \notin Named /\ CellOf(v) = Unbound
  <2> DEFINE slots == {s \in 0 .. stackTop - 1 : holds[s] = v}
             upvs  == {u \in Referred : owner[u] = v}
  <2>1. CellOf(v) = CASE slots # {} -> stack[CHOOSE s \in slots : TRUE]
                      [] slots = {} /\ upvs # {} -> Deref(CHOOSE u \in upvs : TRUE)
                      [] OTHER -> Unbound
    BY DEF CellOf
  <2>2. /\ slots = {} => v \notin OnStack
        /\ slots = {} /\ upvs = {} => v \notin Named
    BY DEF OnStack, Named
  <2>3. \A s \in slots : s \in 0 .. stackTop - 1 /\ holds[s] = v
    OBVIOUS
  <2>4. \A u \in upvs : u \in Referred /\ owner[u] = v
    OBVIOUS
  <2> HIDE DEF slots, upvs
  <2>5. CASE slots # {}
    BY <2>1, <2>3, <2>5
  <2>6. CASE slots = {} /\ upvs # {}
    <3>1. PICK u \in upvs : u = CHOOSE w \in upvs : TRUE
      BY <2>6
    <3>2. CellOf(v) = Deref(u)
      BY <2>1, <2>6, <3>1
    <3>3. QED
      BY <2>2, <2>4, <2>6, <3>1, <3>2
  <2>7. CASE slots = {} /\ upvs = {}
    BY <2>1, <2>2, <2>7
  <2>8. QED
    BY <2>5, <2>6, <2>7
<1>2. QED
  BY <1>1 DEF CellCases

LEMMA CellLooksNext == CellCases'
BY CellLooks, PTL

(* With the invariant a variable has one cell, wherever it is looked for.  *)
CellPlaced ==
  \A v \in VarId :
    /\ \A s \in Slot : s < stackTop /\ holds[s] = v => CellOf(v) = stack[s]
    /\ \A u \in Referred : owner[u] = v => CellOf(v) = Deref(u)
    /\ v \notin Named => CellOf(v) = Unbound
    /\ v \in Named => CellOf(v) # Unbound
    /\ CellOf(v) \in Value \cup {Unbound}

LEMMA DerefTyped ==
  ASSUME TypeOK, NEW u \in Upval
  PROVE  Deref(u) \in Value
BY DEF TypeOK, Deref

LEMMA CellsPlaced ==
  ASSUME Sure, Cells
  PROVE  CellPlaced
<1>1. ASSUME NEW v \in VarId, NEW s \in Slot, s < stackTop, holds[s] = v
      PROVE  CellOf(v) = stack[s] /\ CellOf(v) \in Value
  <2>1. v \in OnStack /\ v \in Named
    BY <1>1, StackTyped DEF OnStack, Named, Sure, Typed
  <2>2. PICK t \in 0 .. stackTop - 1 : holds[t] = v /\ CellOf(v) = stack[t]
    BY <2>1, CellLooks DEF CellCases
  <2>3. t \in Slot /\ t < stackTop
    BY <2>2, StackTyped DEF Sure, Typed
  <2>4. t = s
    BY <1>1, <2>2, <2>3 DEF Cells, OneSlot
  <2>5. QED
    BY <2>2, <2>4 DEF Sure, Typed, TypeOK
<1>2. ASSUME NEW v \in VarId, NEW u \in Referred, owner[u] = v
      PROVE  CellOf(v) = Deref(u) /\ CellOf(v) \in Value
  <2>1. u \in Upval /\ v \in Named
    BY <1>2, ReferredTyped DEF Named, Sure, Typed
  <2>2. CASE loc[u] = Closed
    <3>1. v \notin OnStack
      BY <1>2, <2>2 DEF Cells, ClosedAlone
    <3>2. PICK w \in Referred : owner[w] = v /\ CellOf(v) = Deref(w)
      BY <2>1, <3>1, CellLooks, OnStackSlot DEF CellCases
    <3>3. w = u
      BY <1>2, <3>2 DEF Cells, OneUpvalue
    <3>4. QED
      BY <2>1, <3>2, <3>3, DerefTyped DEF Sure, Typed
  <2>3. CASE loc[u] # Closed
    <3>1. loc[u] \in Slot /\ loc[u] < stackTop /\ holds[loc[u]] = v
      BY <1>2, <2>3, OwnerPlaced DEF Cells
    <3>2. QED
      BY <1>1, <2>3, <3>1 DEF Deref
  <2>4. QED
    BY <2>2, <2>3
<1>3. ASSUME NEW v \in VarId, v \in Named
      PROVE  CellOf(v) \in Value
  <2>1. CASE v \in OnStack
    <3>1. PICK s \in 0 .. stackTop - 1 : holds[s] = v
      BY <2>1, OnStackSlot
    <3>2. s \in Slot /\ s < stackTop
      BY <3>1, StackTyped DEF Sure, Typed
    <3>3. QED
      BY <1>1, <3>1, <3>2
  <2>2. CASE v \notin OnStack
    BY <1>2, <1>3, <2>2 DEF Named
  <2>3. QED
    BY <2>1, <2>2
<1>4. ASSUME NEW v \in VarId, v \notin Named
      PROVE  CellOf(v) = Unbound
  <2>1. v \notin OnStack /\ \A u \in Referred : owner[u] # v
    BY <1>4 DEF Named
  <2>2. QED
    BY <2>1, CellLooks, OnStackSlot DEF CellCases
<1>5. QED
  BY <1>1, <1>2, <1>3, <1>4, SentinelAssumption DEF CellPlaced

LEMMA CellsPlacedNext == Sure' /\ Cells' => CellPlaced'
<1>1. Sure /\ Cells => CellPlaced
  BY CellsPlaced
<1>2. QED
  BY <1>1, PTL

CellTyped == \A v \in VarId : CellOf(v) \in Value \cup {Unbound}

OperandsTyped == Operands \subseteq Slot /\ \A s \in Operands : stack[s] \in Value

LEMMA ImageTyped == Sure => CellTyped /\ OperandsTyped
<1> SUFFICES ASSUME Sure PROVE CellTyped /\ OperandsTyped
  OBVIOUS
<1>1. /\ \A s \in 0 .. stackTop - 1 : s \in Slot
      /\ \A s \in Slot : stack[s] \in Value
      /\ Referred \subseteq Upval
  BY StackTyped, ReferredTyped DEF Sure, Typed, TypeOK
<1>2. CellTyped
  <2>1. ASSUME NEW v \in VarId PROVE CellOf(v) \in Value \cup {Unbound}
    <3>1. CASE \E s \in 0 .. stackTop - 1 : holds[s] = v /\ CellOf(v) = stack[s]
      BY <1>1, <3>1
    <3>2. CASE \E u \in Referred : owner[u] = v /\ CellOf(v) = Deref(u)
      BY <1>1, <3>2, DerefTyped DEF Sure, Typed
    <3>3. QED
      BY <3>1, <3>2, CellLooks DEF CellCases
  <2>2. QED
    BY <2>1 DEF CellTyped
<1>3. OperandsTyped
  BY <1>1 DEF OperandsTyped, Operands
<1>4. QED
  BY <1>2, <1>3

LEMMA ImageTypedNext == Sure' => CellTyped' /\ OperandsTyped'
BY ImageTyped, PTL

LEMMA ComputeStep ==
  ASSUME Sure'
  PROVE  Scoping!Compute /\ [v \in VarId |-> CellOf(v)]' \in Scoping!Cells
<1>1. CellTyped' /\ OperandsTyped'
  BY ImageTypedNext
<1>2. QED
  BY <1>1 DEF Scoping!Compute, Scoping!Cells, CellTyped, OperandsTyped

(* A variable with no slot is read through a closed upvalue.               *)
LEMMA OffStack ==
  ASSUME Sure, Cells, NEW v \in VarId, v \notin OnStack, NEW u \in Referred, owner[u] = v
  PROVE  loc[u] = Closed
<1>1. ASSUME loc[u] # Closed PROVE FALSE
  <2>1. loc[u] \in Slot /\ loc[u] < stackTop /\ holds[loc[u]] = v
    BY <1>1, OwnerPlaced DEF Cells
  <2>2. loc[u] \in 0 .. stackTop - 1
    BY <2>1, StackTyped DEF Sure, Typed
  <2>3. QED
    BY <2>1, <2>2, OnStackSlot
<1>2. QED
  BY <1>1

(* A variable that had a cell keeps it: the step only adds to the stack.   *)
LEMMA BindStep ==
  ASSUME Sure, Sure', Cells, Cells', UNCHANGED heap,
         \A s \in Slot : s < stackTop /\ holds[s] \in VarId =>
           s < stackTop' /\ holds'[s] = holds[s] /\ stack'[s] = stack[s]
  PROVE  Scoping!Bind
<1>1. CellPlaced /\ CellPlaced'
  BY CellsPlaced, CellsPlacedNext
<1>2. Referred' = Referred
  BY DEF Referred, heap
<1>3. ASSUME NEW v \in VarId, CellOf(v) # Unbound
      PROVE  CellOf(v)' = CellOf(v)
  <2>1. CASE \E s \in 0 .. stackTop - 1 : holds[s] = v /\ CellOf(v) = stack[s]
    <3>1. PICK s \in 0 .. stackTop - 1 : holds[s] = v /\ CellOf(v) = stack[s]
      BY <2>1
    <3>2. s \in Slot /\ s < stackTop
      BY <3>1, StackTyped DEF Sure, Typed
    <3>3. s < stackTop' /\ holds'[s] = v /\ stack'[s] = stack[s]
      BY <3>1, <3>2
    <3>4. QED
      BY <1>1, <3>1, <3>2, <3>3 DEF CellPlaced
  <2>2. CASE v \notin OnStack /\ \E u \in Referred : owner[u] = v /\ CellOf(v) = Deref(u)
    <3>1. PICK u \in Referred : owner[u] = v /\ CellOf(v) = Deref(u)
      BY <2>2
    <3>2. loc[u] = Closed
      BY <2>2, <3>1, OffStack
    <3>3. Deref(u)' = Deref(u)
      BY <3>2 DEF Deref, heap
    <3>4. u \in Referred' /\ owner'[u] = v
      BY <1>2, <3>1 DEF heap
    <3>5. QED
      BY <1>1, <3>1, <3>3, <3>4 DEF CellPlaced
  <2>3. QED
    BY <1>3, <2>1, <2>2, CellLooks DEF CellCases
<1>4. QED
  BY <1>3, ComputeStep DEF Scoping!Bind

(* A variable that has a cell after the step had it, with its value.       *)
Inherits ==
  /\ \A s \in Slot : s < stackTop' /\ holds'[s] \in VarId =>
       s < stackTop /\ holds'[s] = holds[s] /\ stack'[s] = stack[s]
  /\ \A u \in Referred' : owner'[u] \notin OnStack' =>
       u \in Referred /\ owner'[u] = owner[u] /\ Deref(u)' = Deref(u)

LEMMA ForgetStep ==
  ASSUME Sure, Sure', Cells, Inherits
  PROVE  Scoping!Forget
<1>1. CellPlaced /\ CellCases'
  BY CellsPlaced, CellLooksNext
<1>2. ASSUME NEW v \in VarId
      PROVE  CellOf(v)' \in {CellOf(v), Unbound}
  <2>1. CASE \E s \in 0 .. stackTop' - 1 : holds'[s] = v /\ CellOf(v)' = stack'[s]
    <3>1. PICK s \in 0 .. stackTop' - 1 : holds'[s] = v /\ CellOf(v)' = stack'[s]
      BY <2>1
    <3>2. s \in Slot /\ s < stackTop'
      BY <3>1, TopTypedNext, BoundsAssumption DEF TopTyped, Sure, Typed, Slot
    <3>3. s < stackTop /\ holds[s] = v /\ stack'[s] = stack[s]
      BY <3>1, <3>2 DEF Inherits
    <3>4. QED
      BY <1>1, <3>1, <3>2, <3>3 DEF CellPlaced
  <2>2. CASE v \notin OnStack' /\ \E u \in Referred' : owner'[u] = v /\ CellOf(v)' = Deref(u)'
    <3>1. PICK u \in Referred' : owner'[u] = v /\ CellOf(v)' = Deref(u)'
      BY <2>2
    <3>2. u \in Referred /\ owner[u] = v /\ Deref(u)' = Deref(u)
      BY <2>2, <3>1 DEF Inherits
    <3>3. QED
      BY <1>1, <3>1, <3>2 DEF CellPlaced
  <2>3. CASE CellOf(v)' = Unbound
    BY <2>3
  <2>4. QED
    BY <1>1, <2>1, <2>2, <2>3 DEF CellCases
<1>3. QED
  BY <1>2, ComputeStep DEF Scoping!Forget

(* An assignment changes the cell of one variable.                         *)
LEMMA AssignStep ==
  ASSUME Sure, Sure', Cells, Cells', Storing, NEW v \in VarId, v \in Named,
         CellOf(v)' = stack[stackTop - 1],
         \A s \in Slot : s < stackTop /\ holds[s] # v => stack'[s] = stack[s],
         \A u \in Referred : owner[u] # v => cloned'[u] = cloned[u]
  PROVE  Scoping!Assign(v)
<1>1. CellPlaced /\ CellPlaced'
  BY CellsPlaced, CellsPlacedNext
<1>2. /\ Referred' = Referred /\ OnStack' = OnStack /\ Named' = Named
      /\ UNCHANGED <<stackTop, open, loc, owner, holds, captured, failed>>
  BY DEF Storing, ghost, Referred, OnStack, Named
<1>3. ASSUME NEW w \in VarId, w # v
      PROVE  CellOf(w)' = CellOf(w)
  <2>1. CASE \E s \in 0 .. stackTop - 1 : holds[s] = w /\ CellOf(w) = stack[s]
    <3>1. PICK s \in 0 .. stackTop - 1 : holds[s] = w /\ CellOf(w) = stack[s]
      BY <2>1
    <3>2. s \in Slot /\ s < stackTop
      BY <3>1, StackTyped DEF Sure, Typed
    <3>3. s < stackTop' /\ holds'[s] = w /\ stack'[s] = stack[s]
      BY <1>2, <1>3, <3>1, <3>2
    <3>4. QED
      BY <1>1, <3>1, <3>2, <3>3 DEF CellPlaced
  <2>2. CASE w \notin OnStack /\ \E u \in Referred : owner[u] = w /\ CellOf(w) = Deref(u)
    <3>1. PICK u \in Referred : owner[u] = w /\ CellOf(w) = Deref(u)
      BY <2>2
    <3>2. loc[u] = Closed
      BY <2>2, <3>1, OffStack
    <3>3. Deref(u)' = Deref(u) /\ u \in Referred' /\ owner'[u] = w
      BY <1>2, <1>3, <3>1, <3>2 DEF Deref
    <3>4. QED
      BY <1>1, <3>1, <3>3 DEF CellPlaced
  <2>3. CASE w \notin Named /\ CellOf(w) = Unbound
    BY <1>1, <1>2, <2>3 DEF CellPlaced
  <2>4. QED
    BY <2>1, <2>2, <2>3, CellLooks DEF CellCases
<1>4. stackTop - 1 \in Operands /\ stackTop - 1 \in Slot
  BY StackTyped DEF Storing, IsTemp, Operands, Sure, Typed
<1>5. Operands' = Operands /\ \A s \in Operands : stack'[s] = stack[s]
  <2>1. \A s \in Operands : s \in Slot /\ s < stackTop /\ holds[s] # v
    BY StackTyped, SentinelAssumption DEF Operands, Sure, Typed
  <2>2. QED
    BY <1>2, <2>1 DEF Operands
<1>6. CellOf(v) # Unbound
  BY <1>1 DEF CellPlaced
<1> DEFINE now == [x \in VarId |-> CellOf(x)]
           ops == [s \in Operands |-> stack[s]]
<1>7. now' = [now EXCEPT ![v] = ops[stackTop - 1]]
  <2>1. now' = [x \in VarId |-> CellOf(x)']
    OBVIOUS
  <2>2. ops[stackTop - 1] = stack[stackTop - 1]
    BY <1>4
  <2>3. QED
    BY <1>3, <2>1, <2>2
<1>8. ops' = ops
  <2>1. ops' = [s \in Operands' |-> stack'[s]]
    OBVIOUS
  <2>2. QED
    BY <1>5, <2>1
<1>9. now[v] # Unbound /\ stackTop - 1 \in DOMAIN ops
  BY <1>4, <1>6
<1> HIDE DEF now, ops
<1>10. /\ now[v] # Unbound
       /\ \E p \in DOMAIN ops : now' = [now EXCEPT ![v] = ops[p]]
       /\ ops' = ops /\ failed' = failed
  BY <1>2, <1>7, <1>8, <1>9
<1>11. QED
  BY <1>10 DEF Scoping!Assign, now, ops

(* An assignment through the slot of a local, by its owner or through the  *)
(* open upvalue of a closure.                                              *)
LEMMA SlotAssigned ==
  ASSUME Sure, Sure', Cells, Cells', Storing, NEW s \in Slot, s < stackTop,
         NEW v \in VarId, holds[s] = v, stack' = [stack EXCEPT ![s] = Peek(0)],
         UNCHANGED cloned
  PROVE  Scoping!Assign(v)
<1>1. CellPlaced'
  BY CellsPlacedNext
<1>2. UNCHANGED <<stackTop, holds>>
  BY DEF Storing, ghost
<1>3. stack \in [Slot -> Value] /\ stackTop \in Nat /\ s \in 0 .. stackTop - 1
  BY StackTyped DEF Sure, Typed, TypeOK
<1>4. stack'[s] = stack[stackTop - 1]
  <2>1. Peek(0) = stack[stackTop - 1]
    BY <1>3 DEF Peek
  <2>2. QED
    BY <1>3, <2>1
<1>5. CellOf(v)' = stack[stackTop - 1]
  BY <1>1, <1>2, <1>4 DEF CellPlaced
<1>6. v \in Named
  BY <1>3 DEF Named, OnStack
<1>7. \A t \in Slot : t < stackTop /\ holds[t] # v => stack'[t] = stack[t]
  BY <1>3
<1>8. QED
  BY <1>5, <1>6, <1>7, AssignStep

LEMMA SetUpvalStep ==
  ASSUME Sure, Sure', Cells, Cells', Owned, SetUpval
  PROVE  \E v \in VarId : Scoping!Assign(v)
<1>1. PICK u \in RunningUpvals :
        IF loc[u] = Closed
         THEN cloned' = [cloned EXCEPT ![u] = Peek(0)] /\ UNCHANGED stack
         ELSE stack' = [stack EXCEPT ![loc[u]] = Peek(0)] /\ UNCHANGED cloned
  BY DEF SetUpval
<1>2. Frame.closure \in Fn /\ u \in Range(closures[Frame.closure])
  <2>1. Frame.closure # Script
    BY <1>1 DEF RunningUpvals
  <2>2. QED
    BY <1>1, <2>1, FrameTyped DEF RunningUpvals, SetUpval, Storing, InCode, Sure, Typed
<1>3. u \in Upval
  <2>1. Known(Frame.closure) /\ Idle
    BY FrameTyped DEF Known, Frame, SetUpval, Storing, InCode, Sure, Typed
  <2>2. Complete(Frame.closure)
    BY <1>2, <2>1 DEF Sure, Typed, KnownComplete
  <2>3. DOMAIN closures[Frame.closure] = DOMAIN Upvals[Frame.closure]
    BY <1>2, CodeAssumption, LenProperties DEF Sure, Typed, TypeOK
  <2>4. QED
    BY <1>2, <2>2, <2>3 DEF Complete, Range
<1>4. PICK v \in VarId : u \in Referred /\ owner[u] = v /\ v \in Named
  BY <1>2, <1>3, ReferredTyped DEF Owned, Named, Sure, Typed
<1>5. Storing
  BY DEF SetUpval
<1>6. CASE loc[u] = Closed
  <2>1. cloned' = [cloned EXCEPT ![u] = Peek(0)] /\ UNCHANGED stack
    BY <1>1, <1>6
  <2>2. /\ CellPlaced' /\ Referred' = Referred /\ owner' = owner /\ loc' = loc
        /\ Referred \subseteq Upval
    BY <1>5, CellsPlacedNext, ReferredTyped DEF Storing, Referred, Sure, Typed
  <2>3. Deref(u)' = Peek(0) /\ Peek(0) = stack[stackTop - 1]
    BY <1>3, <1>6, <2>1, <2>2, StackTyped DEF Deref, Peek, Sure, Typed, TypeOK
  <2>4. CellOf(v)' = stack[stackTop - 1]
    BY <1>4, <2>2, <2>3 DEF CellPlaced
  <2>5. \A w \in Referred : owner[w] # v => cloned'[w] = cloned[w]
    BY <1>4, <2>1, <2>2 DEF Sure, Typed, TypeOK
  <2>6. QED
    BY <1>4, <1>5, <2>1, <2>4, <2>5, AssignStep
<1>7. CASE loc[u] # Closed
  <2>1. loc[u] \in Slot /\ loc[u] < stackTop /\ holds[loc[u]] = v
    BY <1>4, <1>7, OwnerPlaced DEF Cells
  <2>2. QED
    BY <1>1, <1>4, <1>5, <1>7, <2>1, SlotAssigned
<1>8. QED
  BY <1>6, <1>7

LEMMA SetLocalStep ==
  ASSUME Sure, Sure', Cells, Cells', SetLocal
  PROVE  \E v \in VarId : Scoping!Assign(v)
<1>1. PICK s \in Locals : stack' = [stack EXCEPT ![s] = Peek(0)]
  BY DEF SetLocal
<1>2. Storing /\ UNCHANGED cloned
  BY DEF SetLocal
<1>3. s \in Slot /\ s < stackTop /\ holds[s] \in VarId
  <2>1. frames # <<>>
    BY <1>2 DEF Storing, InCode
  <2>2. Frame.slots \in Nat
    BY <2>1, FrameTyped, StackTyped DEF Sure, Typed
  <2>3. QED
    BY <2>2, StackTyped DEF Locals, Sure, Typed
<1>4. QED
  BY <1>1, <1>2, <1>3, SlotAssigned

(* What is given up can only take cells away.                              *)
LEMMA DropStep ==
  ASSUME Sure, Sure', Cells, NEW n \in Nat, Dropped(n)
  PROVE  Scoping!Forget
<1>1. /\ \A s \in Slot : holds'[s] = IF s < n THEN holds[s] ELSE Temp
      /\ n <= stackTop /\ stackTop \in Nat /\ Slot \subseteq Nat
      /\ \A s \in 0 .. n - 1 : stack'[s] = stack[s]
      /\ Closing(n)
  BY StackTyped DEF Dropped, Kill, Sure, Typed
<1>2. ASSUME NEW s \in Slot, holds'[s] \in VarId
      PROVE  s < stackTop /\ holds'[s] = holds[s] /\ stack'[s] = stack[s]
  <2>1. s < n /\ s \in 0 .. n - 1
    BY <1>1, <1>2, SentinelAssumption
  <2>2. QED
    BY <1>1, <2>1
<1>3. ASSUME NEW u \in Referred'
      PROVE  u \in Referred /\ owner'[u] = owner[u] /\ Deref(u)' = Deref(u)
  <2>1. u \in Upval /\ u \in Referred
    <3>1. Referred' \subseteq Referred
      BY <1>1 DEF Closing, Referred
    <3>2. QED
      BY <3>1, ReferredTyped DEF Sure, Typed
  <2>2. CASE loc[u] = Closed
    <3>1. u \notin Range(open)
      BY <2>1, <2>2 DEF Sure, Linked, OpenIffListed
    <3>2. loc'[u] = Closed /\ cloned'[u] = cloned[u]
      BY <1>1, <2>1, <2>2, <3>1 DEF Closing
    <3>3. QED
      BY <1>1, <2>1, <2>2, <3>2 DEF Deref, Closing
  <2>3. CASE loc[u] # Closed
    <3>1. u \in Range(open) /\ loc[u] \in Nat
      BY <1>1, <2>1, <2>3, OwnerPlaced DEF Cells
    <3>2. CASE loc[u] >= n
      <4>1. loc'[u] = Closed /\ cloned'[u] = stack[loc[u]]
        BY <1>1, <2>1, <3>1, <3>2 DEF Closing
      <4>2. QED
        BY <1>1, <2>1, <2>3, <4>1 DEF Deref, Closing
    <3>3. CASE loc[u] < n
      <4>1. loc'[u] = loc[u] /\ loc[u] \in 0 .. n - 1
        BY <1>1, <2>1, <3>1, <3>3 DEF Closing
      <4>2. QED
        BY <1>1, <2>1, <2>3, <4>1 DEF Deref, Closing
    <3>4. QED
      BY <3>1, <3>2, <3>3
  <2>4. QED
    BY <2>2, <2>3
<1>4. QED
  BY <1>2, <1>3, ForgetStep DEF Inherits

(* A runtime error clears the stack: the variables that no closure has     *)
(* captured are gone.                                                      *)
LEMMA ErrorStep ==
  ASSUME Sure, Sure', Cells, RuntimeError
  PROVE  Scoping!Forget
<1>1. stackTop' = 0 /\ UNCHANGED <<stack, open, loc, cloned, closures, owner>>
  BY DEF RuntimeError, PopTo, heap
<1>2. \A s \in Slot : ~(s < stackTop')
  BY <1>1, StackTyped DEF Sure, Typed
<1>3. Referred' = Referred /\ \A u : Deref(u)' = Deref(u)
  BY <1>1 DEF Referred, Deref
<1>4. QED
  BY <1>1, <1>2, <1>3, ForgetStep DEF Inherits

(* Capturing gives a variable that has a slot an upvalue, and no cell more.*)
LEMMA CaptureScopes ==
  ASSUME Sure, Sure', Cells, CaptureNext
  PROVE  Scoping!Forget
<1>1. PICK f \in Fn : \E i \in DOMAIN Upvals[f] :
        \/ \E s \in captured : holds[s] \in VarId /\ CaptureUpval(f, i, s)
        \/ \E u \in Referred : u \in Upval /\ ShareUpvalue(f, i, u)
  BY CaptureStep
<1>2. PICK i \in DOMAIN Upvals[f] :
        \/ \E s \in captured : holds[s] \in VarId /\ CaptureUpval(f, i, s)
        \/ \E u \in Referred : u \in Upval /\ ShareUpvalue(f, i, u)
  BY <1>1
<1>3. /\ UNCHANGED <<stack, stackTop, frames, holds, captured>> /\ OnStack' = OnStack
      /\ Referred \subseteq Upval /\ Range(open) \subseteq Referred
  BY ReferredTyped DEF CaptureNext, vm, ghost, OnStack, Sure, Typed
<1>4. ASSUME NEW u \in Referred, u \in Upval, ShareUpvalue(f, i, u)
      PROVE  Inherits
  <2>1. closures' = [closures EXCEPT ![f][i] = u] /\ UNCHANGED <<open, loc, owner, cloned>>
    BY <1>4 DEF ShareUpvalue
  <2>2. Referred' \subseteq Referred
    BY <1>4, <2>1, EntryGrows
  <2>3. \A w : Deref(w)' = Deref(w)
    BY <1>3, <2>1 DEF Deref
  <2>4. QED
    BY <1>3, <2>1, <2>2, <2>3 DEF Inherits
<1>5. ASSUME NEW s \in captured, holds[s] \in VarId, CaptureUpval(f, i, s)
      PROVE  Inherits
  <2>1. s \in Slot /\ holds[s] \in OnStack
    <3>1. s \in Slot /\ s < stackTop
      BY DEF Sure, Typed, TypeOK, Cells, CapturedLive
    <3>2. s \in 0 .. stackTop - 1
      BY <3>1, StackTyped DEF Sure, Typed
    <3>3. QED
      BY <1>5, <3>1, <3>2, OnStackSlot
  <2>2. PICK u \in Upval :
          /\ closures' = [closures EXCEPT ![f][i] = u]
          /\ \/ u \in Range(open) /\ UNCHANGED <<open, loc, owner>>
             \/ /\ u \notin Referred
                /\ Range(open') = Range(open) \cup {u}
                /\ loc'   = [loc EXCEPT ![u] = s]
                /\ owner' = [owner EXCEPT ![u] = holds[s]]
    BY <1>5, <2>1, CaptureEffect DEF Sure, Typed, Linked
  <2>3. cloned' = cloned
    BY <1>5, <2>1, CaptureTyped DEF Sure, Typed
  <2>4. Referred' \subseteq Referred \cup {u}
    BY <2>2, EntryGrows
  <2>5. CASE u \in Range(open) /\ UNCHANGED <<open, loc, owner>>
    <3>1. \A w : Deref(w)' = Deref(w)
      BY <1>3, <2>3, <2>5 DEF Deref
    <3>2. QED
      BY <1>3, <2>4, <2>5, <3>1 DEF Inherits
  <2>6. CASE /\ u \notin Referred
             /\ loc'   = [loc EXCEPT ![u] = s]
             /\ owner' = [owner EXCEPT ![u] = holds[s]]
    <3>1. \A w \in Referred : loc'[w] = loc[w] /\ owner'[w] = owner[w]
      BY <1>3, <2>6 DEF Sure, Typed, TypeOK
    <3>2. \A w \in Referred : Deref(w)' = Deref(w)
      BY <1>3, <2>3, <3>1 DEF Deref
    <3>3. owner'[u] \in OnStack'
      BY <1>3, <2>1, <2>6 DEF Sure, Typed, TypeOK
    <3>4. QED
      BY <1>3, <2>4, <3>1, <3>2, <3>3 DEF Inherits
  <2>7. QED
    BY <2>2, <2>5, <2>6
<1>6. QED
  BY <1>2, <1>4, <1>5, ForgetStep

LEMMA PushStep ==
  ASSUME Sure, Sure', Cells, Cells', UNCHANGED heap, NEW x, NEW mark, Push(x, mark)
  PROVE  Scoping!Bind
<1>1. /\ stackTop' = stackTop + 1 /\ stackTop \in Nat /\ Slot \subseteq Nat
      /\ stack' = [stack EXCEPT ![stackTop] = x] /\ stack \in [Slot -> Value]
      /\ holds' = [holds EXCEPT ![stackTop] = mark]
      /\ holds \in [Slot -> VarId \cup {Temp, Callee}]
  BY StackTyped DEF Push, Sure, Typed, TypeOK
<1>2. \A s \in Slot : s < stackTop =>
        s < stackTop' /\ holds'[s] = holds[s] /\ stack'[s] = stack[s]
  BY <1>1
<1>3. QED
  BY <1>2, BindStep

LEMMA DeclareStep ==
  ASSUME Sure, Sure', Cells, Cells', Declare
  PROVE  Scoping!Bind
<1>1. UNCHANGED <<stack, stackTop>> /\ UNCHANGED heap /\ holds[stackTop - 1] = Temp
  BY DEF Declare, vm, IsTemp
<1>2. \A s \in Slot : s # stackTop - 1 => holds'[s] = holds[s]
  BY DEF Declare, Sure, Typed, TypeOK
<1>3. QED
  BY <1>1, <1>2, BindStep, SentinelAssumption

LEMMA PushFrameStep ==
  ASSUME Sure, Sure', Cells, Cells', NEW callee, NEW argc \in Nat,
         \A d \in 0 .. argc : IsTemp(stackTop - 1 - d),
         PushFrame(callee, argc), UNCHANGED <<stack, stackTop>>, UNCHANGED heap
  PROVE  Scoping!Bind
<1>1. stackTop \in Nat /\ Slot \subseteq Nat
  BY StackTyped DEF Sure, Typed
<1>2. \A s \in stackTop - argc - 1 .. stackTop - 1 : holds[s] = Temp
  <2>1. ASSUME NEW s \in stackTop - argc - 1 .. stackTop - 1 PROVE holds[s] = Temp
    <3>1. stackTop - 1 - s \in 0 .. argc /\ stackTop - 1 - (stackTop - 1 - s) = s
      BY <1>1, <2>1
    <3>2. QED
      BY <3>1 DEF IsTemp
  <2>2. QED
    BY <2>1
<1>3. \A s \in Slot : s \notin stackTop - argc - 1 .. stackTop - 1 => holds'[s] = holds[s]
  BY <1>1 DEF PushFrame
<1>4. QED
  BY <1>2, <1>3, BindStep, SentinelAssumption

LEMMA NextScopes ==
  ASSUME Sure, Sure', Owned, Cells, Cells', Next
  PROVE  \/ Scoping!Next
         \/ UNCHANGED vars
<1>1. ASSUME NEW x, PushOperand(x) PROVE Scoping!Bind
  BY <1>1, PushStep DEF PushOperand
<1>2. CASE Interpret
  BY <1>2, PushStep DEF Interpret, Scoping!Next
<1>3. CASE Const \/ GetLocal \/ GetUpval \/ GetGlobal
  BY <1>1, <1>3 DEF Const, GetLocal, GetUpval, GetGlobal, Scoping!Next
<1>4. CASE SetLocal \/ SetUpval
  BY <1>4, SetLocalStep, SetUpvalStep DEF Scoping!Next
<1>5. CASE SetGlobal
  <2>1. UNCHANGED <<stack, stackTop, heap, ghost>>
    BY <1>5 DEF SetGlobal, Storing, heap
  <2>2. UNCHANGED heap /\ \A s \in Slot : s < stackTop /\ holds[s] \in VarId =>
           s < stackTop' /\ holds'[s] = holds[s] /\ stack'[s] = stack[s]
    BY <2>1 DEF ghost
  <2>3. QED
    BY <2>2, BindStep DEF Scoping!Next
<1>6. CASE Pop \/ EndLocal \/ Return \/ ReturnScript
  <2>1. \E n \in Nat : Dropped(n)
    BY <1>6, PopDropped, EndLocalDropped, ReturnDropped, ReturnScriptDropped
  <2>2. QED
    BY <2>1, DropStep DEF Scoping!Next
<1>7. CASE Declare
  BY <1>7, DeclareStep DEF Scoping!Next
<1>8. CASE Closure
  <2>1. \E x, mark : Push(x, mark)
    BY <1>8 DEF Closure
  <2>2. UNCHANGED heap
    BY <1>8 DEF Closure
  <2>3. QED
    BY <2>1, <2>2, PushStep DEF Scoping!Next
<1>9. CASE CaptureNext
  BY <1>9, CaptureScopes DEF Scoping!Next
<1>10. CASE \E argc \in 0 .. StackMax : Call(argc)
  <2>1. PICK argc \in 0 .. StackMax : Call(argc)
    BY <1>10
  <2>2. CASE RuntimeError
    BY <2>2, ErrorStep DEF Scoping!Next
  <2>3. CASE ~RuntimeError
    <3>1. /\ PushFrame(Peek(argc), argc) /\ UNCHANGED <<stack, stackTop>> /\ UNCHANGED heap
          /\ \A d \in 0 .. argc : IsTemp(stackTop - 1 - d)
          /\ argc \in Nat
      BY <2>1, <2>3 DEF Call
    <3>2. QED
      BY <3>1, PushFrameStep DEF Scoping!Next
  <2>4. QED
    BY <2>2, <2>3
<1>11. CASE OperandError
  BY <1>11, ErrorStep DEF OperandError, Scoping!Next
<1>12. CASE Terminated
  BY <1>12 DEF Terminated
<1>13. QED
  BY <1>2, <1>3, <1>4, <1>5, <1>6, <1>7, <1>8, <1>9, <1>10, <1>11, <1>12 DEF Next

(* Only a runtime error sets `failed', and nothing resets it.              *)
LEMMA Failing ==
  ASSUME Next
  PROVE  UNCHANGED failed \/ (failed' = TRUE /\ RuntimeError)
BY DEF Next, Interpret, Const, GetLocal, GetUpval, GetGlobal, PushOperand, SetLocal,
   SetUpval, SetGlobal, Storing, Pop, Declare, EndLocal, Closure, CaptureNext, Call,
   OperandError, RuntimeError, Return, Leave, ReturnScript, Terminated, vars, session

LEMMA StepScopes ==
  ASSUME Sure, Sure', Owned, Live, Live', [Next]_vars
  PROVE  \/ Scoping!Next
         \/ UNCHANGED vars
<1>1. CASE UNCHANGED vars
  BY <1>1
<1>2. CASE Next
  <2>1. failed \in BOOLEAN /\ failed' \in BOOLEAN
    BY DEF Sure, Typed, TypeOK
  <2>2. CASE failed
    <3>1. failed'
      BY <1>2, <2>1, <2>2, Failing
    <3>2. QED
      BY <2>2, <3>1 DEF Scoping!Next, Scoping!AfterError
  <2>3. CASE ~failed /\ failed'
    <3>1. RuntimeError /\ Cells
      BY <1>2, <2>1, <2>3, Failing DEF Live
    <3>2. QED
      BY <3>1, ErrorStep DEF Scoping!Next
  <2>4. CASE ~failed /\ ~failed'
    BY <1>2, <2>4, NextScopes DEF Live
  <2>5. QED
    BY <2>2, <2>3, <2>4
<1>3. QED
  BY <1>1, <1>2

LEMMA InitScopes == Init => Scoping!Init
<1> SUFFICES ASSUME Init PROVE Scoping!Init
  OBVIOUS
<1>1. OnStack = {} /\ Operands = {}
  BY DEF Init, OnStack, Operands
<1>2. Referred = {}
  <2>1. Range(open) = {} /\ \A f \in Fn : Range(closures[f]) \subseteq {NoUpval}
    BY DEF Init, Range
  <2>2. QED
    BY <2>1 DEF Referred
<1>3. \A v \in VarId : CellOf(v) = Unbound
  BY <1>1, <1>2, CellLooks, OnStackSlot DEF CellCases
<1>4. [s \in Operands |-> stack[s]] = <<>>
  BY <1>1
<1>5. QED
  BY <1>3, <1>4 DEF Init, Scoping!Init

(* The machine keeps the promise of lexical scoping: read through its slot *)
(* while it has one and through its upvalue after, each variable is one    *)
(* cell that only an assignment to that variable changes, for as long as   *)
(* some code can name it and no runtime error has happened.                *)
THEOREM Scopes == Spec => LexicalScoping
<1>1. Init => Scoping!Init
  BY InitScopes
<1>2. ASSUME Sure, Sure', Owned, Live, Live', [Next]_vars
      PROVE  [Scoping!Next]_<<[v \in VarId |-> CellOf(v)],
                              [s \in Operands |-> stack[s]], failed>>
  <2>1. CASE Scoping!Next
    BY <2>1
  <2>2. CASE UNCHANGED vars
    <3>1. /\ Referred' = Referred /\ Operands' = Operands
          /\ UNCHANGED <<stack, stackTop, holds, owner, loc, cloned, failed>>
      BY <2>2 DEF vars, vm, heap, ghost, session, Referred, Operands
    <3>2. \A v : CellOf(v)' = CellOf(v)
      BY <3>1 DEF CellOf, Deref
    <3>3. QED
      BY <3>1, <3>2
  <2>3. QED
    BY <1>2, <2>1, <2>2, StepScopes
<1>3. QED
  BY <1>1, <1>2, SpecSure, SpecOwned, SpecLive, PTL DEF Spec, LexicalScoping, Scoping!Spec
================================================================================
