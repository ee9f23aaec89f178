------------------------------ MODULE CallsProofs ------------------------------
(***************************************************************************)
(* What Calls keeps for every program without an assignment to `this' and  *)
(* without arguments for a class that has no init: the stack is as the     *)
(* compiler counts it, methods run on instances of their classes, names of *)
(* methods mean the nearest ones, and activations are private.             *)
(***************************************************************************)
EXTENDS Calls, SequenceTheorems, TLAPS

FrameRecord == [closure : Function \cup {Script}, slots : Nat \ {0},
                made : Instance \cup {Absent}]

-------------------------------------------------------------------------------
(* The layout of a stack st with frames fr, whose slots are sh: where the  *)
(* frames lie, and what is in their slots.  R are the pairs of a receiver  *)
(* and a method that go together, G the values there may be.               *)

Top(fr, sh, i) == fr[i].slots + Len(sh[i]) - 1

Placed(st, fr, sh) ==
  /\ fr \in Seq(FrameRecord) /\ sh \in Seq(Seq(Kind)) /\ Len(sh) = Len(fr)
  /\ \A i \in 1 .. Len(fr) : sh[i] # <<>> /\ sh[i][1] = "callee"
  /\ fr = <<>> => st = <<>>
  /\ fr # <<>> => fr[1].slots = 1 /\ Len(st) = Top(fr, sh, Len(fr))
  /\ \A i \in 1 .. Len(fr) - 1 : /\ fr[i + 1].slots = Top(fr, sh, i)
                                 /\ sh[i][Len(sh[i])] = "operand"
  /\ \A i, k \in 1 .. Len(fr) : i < k => Top(fr, sh, i) <= fr[k].slots

Filled(st, fr, sh, R) ==
  \A i \in 1 .. Len(fr) :
    /\ fr[i].closure \in Function => <<st[fr[i].slots], fr[i].closure>> \in R
    /\ \A j \in 1 .. Len(sh[i]) :
         sh[i][j] = "this" => st[fr[i].slots + j - 1] = st[fr[i].slots]
    /\ fr[i].made # Absent => st[fr[i].slots] = fr[i].made /\ IsInit(fr[i].closure)

Layout(st, fr, sh, G, R) == st \in Seq(G) /\ Placed(st, fr, sh) /\ Filled(st, fr, sh, R)

(* Frames begin below where the running one does.                          *)
LEMMA LayoutBelow ==
  ASSUME NEW st, NEW fr, NEW sh, Placed(st, fr, sh), fr # <<>>
  PROVE  /\ Len(fr) \in Nat \ {0}
         /\ \A i \in 1 .. Len(fr) : /\ fr[i].slots \in Nat \ {0} /\ fr[i] \in FrameRecord
                                    /\ sh[i] \in Seq(Kind) /\ Len(sh[i]) \in Nat \ {0}
                                    /\ Top(fr, sh, i) \in Nat
                                    /\ fr[i].slots <= Top(fr, sh, i)
         /\ \A i \in 1 .. Len(fr) - 1 : Len(sh[i]) >= 2 /\ fr[i].slots < fr[Len(fr)].slots
         /\ \A i \in 1 .. Len(fr) - 1 : Top(fr, sh, i) <= fr[Len(fr)].slots
<1>1. Len(fr) \in Nat \ {0}
  BY DEF Placed
<1>2. ASSUME NEW i \in 1 .. Len(fr)
      PROVE  /\ fr[i].slots \in Nat \ {0} /\ fr[i] \in FrameRecord
             /\ sh[i] \in Seq(Kind) /\ Len(sh[i]) \in Nat \ {0}
             /\ Top(fr, sh, i) \in Nat /\ fr[i].slots <= Top(fr, sh, i)
  <2>1. fr[i] \in FrameRecord /\ sh[i] \in Seq(Kind) /\ sh[i] # <<>>
    BY DEF Placed
  <2>2. fr[i].slots \in Nat \ {0} /\ Len(sh[i]) \in Nat \ {0}
    BY <2>1 DEF FrameRecord
  <2>3. QED
    BY <2>1, <2>2 DEF Top
<1>3. ASSUME NEW i \in 1 .. Len(fr) - 1
      PROVE  Len(sh[i]) >= 2 /\ fr[i].slots < fr[Len(fr)].slots
             /\ Top(fr, sh, i) <= fr[Len(fr)].slots
  <2>1. i \in 1 .. Len(fr) /\ Len(fr) \in 1 .. Len(fr) /\ i < Len(fr)
    BY <1>1
  <2>2. sh[i][1] = "callee" /\ sh[i][Len(sh[i])] = "operand"
    BY <2>1 DEF Placed
  <2>3. Len(sh[i]) # 1
    BY <2>2
  <2>4. Top(fr, sh, i) <= fr[Len(fr)].slots
    BY <2>1 DEF Placed
  <2>5. /\ Len(sh[i]) \in Nat \ {0} /\ fr[i].slots \in Nat \ {0}
        /\ fr[Len(fr)].slots \in Nat \ {0}
    BY <2>1, <1>2
  <2> DEFINE l == Len(sh[i])
             s == fr[i].slots
             last == fr[Len(fr)].slots
  <2>6. l \in Nat \ {0} /\ s \in Nat \ {0} /\ last \in Nat \ {0} /\ l # 1 /\ s + l - 1 <= last
    BY <2>3, <2>4, <2>5 DEF Top
  <2> HIDE DEF l, s, last
  <2>7. l >= 2 /\ s < last
    BY <2>6
  <2>8. QED
    BY <2>4, <2>7 DEF l, s, last
<1>4. QED
  BY <1>1, <1>2, <1>3

(* The running frame changes above its first slot.                         *)
LEMMA LayoutOfTop ==
  ASSUME NEW st, NEW fr, NEW sh, NEW G, NEW R, Layout(st, fr, sh, G, R), fr # <<>>,
         NEW st2 \in Seq(G), NEW shape \in Seq(Kind), shape # <<>>, shape[1] = "callee",
         Len(st2) = fr[Len(fr)].slots + Len(shape) - 1,
         \A p \in 1 .. fr[Len(fr)].slots : st2[p] = st[p],
         \A j \in 1 .. Len(shape) : shape[j] = "this" =>
           st2[fr[Len(fr)].slots + j - 1] = st[fr[Len(fr)].slots]
  PROVE  Layout(st2, fr, [sh EXCEPT ![Len(sh)] = shape], G, R)
<1> DEFINE n == Len(fr)
           sh2 == [sh EXCEPT ![Len(sh)] = shape]
<1>1. Placed(st, fr, sh) /\ Filled(st, fr, sh, R)
  BY DEF Layout
<1>2. n \in Nat \ {0} /\ n = Len(sh) /\ fr \in Seq(FrameRecord) /\ sh \in Seq(Seq(Kind))
  BY <1>1, LayoutBelow DEF Placed
<1>3. sh2 \in Seq(Seq(Kind)) /\ Len(sh2) = n /\ sh2[n] = shape
      /\ \A i \in 1 .. n - 1 : sh2[i] = sh[i]
  BY <1>2
<1>4. \A i \in 1 .. n : /\ fr[i].slots \in Nat \ {0} /\ sh[i] \in Seq(Kind)
                        /\ Len(sh[i]) \in Nat \ {0}
  BY <1>1, LayoutBelow
<1>5. \A i \in 1 .. n - 1 : /\ Top(fr, sh2, i) = Top(fr, sh, i)
                            /\ fr[i].slots < fr[n].slots /\ Top(fr, sh, i) <= fr[n].slots
  BY <1>1, <1>3, LayoutBelow DEF Top
<1>6. Top(fr, sh2, n) = Len(st2)
  BY <1>3 DEF Top
<1> HIDE DEF sh2
<1>7. Placed(st2, fr, sh2)
  <2>1. \A i \in 1 .. n : sh2[i] # <<>> /\ sh2[i][1] = "callee"
    <3> SUFFICES ASSUME NEW i \in 1 .. n PROVE sh2[i] # <<>> /\ sh2[i][1] = "callee"
      OBVIOUS
    <3>1. CASE i = n
      BY <3>1, <1>3
    <3>2. CASE i # n
      <4>1. sh2[i] = sh[i]
        BY <3>2, <1>2, <1>3
      <4>2. QED
        BY <4>1, <1>1 DEF Placed
    <3>3. QED
      BY <3>1, <3>2
  <2>2. fr # <<>> => fr[1].slots = 1 /\ Len(st2) = Top(fr, sh2, Len(fr))
    BY <1>1, <1>6 DEF Placed
  <2>3. \A i \in 1 .. n - 1 : fr[i + 1].slots = Top(fr, sh2, i) /\ sh2[i][Len(sh2[i])] = "operand"
    BY <1>1, <1>3, <1>5 DEF Placed
  <2>4. \A i, k \in 1 .. n : i < k => Top(fr, sh2, i) <= fr[k].slots
    <3> SUFFICES ASSUME NEW i \in 1 .. n, NEW k \in 1 .. n, i < k
                 PROVE  Top(fr, sh2, i) <= fr[k].slots
      OBVIOUS
    <3>1. i \in 1 .. n - 1
      BY <1>2
    <3>2. Top(fr, sh, i) <= fr[k].slots
      BY <1>1 DEF Placed
    <3>3. QED
      BY <3>1, <3>2, <1>5
  <2>5. QED
    BY <1>2, <1>3, <2>1, <2>2, <2>3, <2>4 DEF Placed
<1>8. Filled(st2, fr, sh2, R)
  <2> SUFFICES ASSUME NEW i \in 1 .. n
               PROVE  /\ fr[i].closure \in Function => <<st2[fr[i].slots], fr[i].closure>> \in R
                      /\ \A j \in 1 .. Len(sh2[i]) :
                           sh2[i][j] = "this" => st2[fr[i].slots + j - 1] = st2[fr[i].slots]
                      /\ fr[i].made # Absent => st2[fr[i].slots] = fr[i].made
                                                /\ IsInit(fr[i].closure)
    BY DEF Filled
  <2>1. fr[i].slots <= fr[n].slots
    <3>1. CASE i = n
      BY <3>1, <1>4
    <3>2. CASE i # n
      <4>1. i \in 1 .. n - 1
        BY <3>2, <1>2
      <4>2. n \in 1 .. n
        BY <1>2
      <4>3. fr[i].slots \in Nat \ {0} /\ fr[n].slots \in Nat \ {0}
        BY <4>2, <1>4
      <4>4. fr[i].slots < fr[n].slots
        BY <4>1, <1>5
      <4>5. QED
        BY <4>3, <4>4
    <3>3. QED
      BY <3>1, <3>2
  <2>2. st2[fr[i].slots] = st[fr[i].slots]
    BY <2>1, <1>2, <1>4
  <2>3. \A j \in 1 .. Len(sh2[i]) :
          sh2[i][j] = "this" => st2[fr[i].slots + j - 1] = st2[fr[i].slots]
    <3> SUFFICES ASSUME NEW j \in 1 .. Len(sh2[i]), sh2[i][j] = "this"
                 PROVE  st2[fr[i].slots + j - 1] = st2[fr[i].slots]
      OBVIOUS
    <3>1. CASE i = n
      BY <3>1, <2>2, <1>3
    <3>2. CASE i # n
      <4>1. i \in 1 .. n - 1
        BY <3>2, <1>2
      <4>2. sh2[i] = sh[i]
        BY <4>1, <1>3
      <4>3. fr[i].slots + j - 1 \in 1 .. fr[n].slots
        <5>1. Top(fr, sh, i) <= fr[n].slots
          BY <4>1, <1>5
        <5>2. /\ fr[i].slots \in Nat \ {0} /\ fr[n].slots \in Nat \ {0}
              /\ Len(sh[i]) \in Nat \ {0} /\ j \in 1 .. Len(sh[i])
          BY <4>1, <4>2, <1>2, <1>4
        <5> DEFINE s == fr[i].slots
                   l == Len(sh[i])
                   last == fr[n].slots
        <5>3. /\ s \in Nat \ {0} /\ l \in Nat \ {0} /\ last \in Nat \ {0}
              /\ j \in 1 .. l /\ s + l - 1 <= last
          BY <5>1, <5>2 DEF Top
        <5> HIDE DEF s, l, last
        <5>4. s + j - 1 \in 1 .. last
          BY <5>3
        <5>5. QED
          BY <5>4 DEF s, last
      <4>4. st[fr[i].slots + j - 1] = st[fr[i].slots]
        BY <4>2, <1>1 DEF Filled
      <4>5. QED
        BY <4>3, <4>4, <2>2
    <3>3. QED
      BY <3>1, <3>2
  <2>4. QED
    BY <2>2, <2>3, <1>1 DEF Filled
<1>9. QED
  BY <1>7, <1>8 DEF Layout, sh2

(* A frame is entered over the argc operands on top and the one under them.*)
LEMMA LayoutOfEnter ==
  ASSUME NEW st, NEW fr, NEW sh, NEW G, NEW R, Layout(st, fr, sh, G, R), fr # <<>>,
         NEW argc \in Nat, argc + 1 < Len(sh[Len(fr)]),
         NEW f \in Function, NEW slot0 \in G, NEW made \in Instance \cup {Absent},
         <<slot0, f>> \in R, made # Absent => slot0 = made /\ IsInit(f)
  PROVE  Layout([st EXCEPT ![Len(st) - argc] = slot0],
                Append(fr, [closure |-> f, slots |-> Len(st) - argc, made |-> made]),
                Append([sh EXCEPT ![Len(sh)] =
                          Append(SubSeq(@, 1, Len(@) - (argc + 1)), "operand")],
                       <<"callee">> \o [i \in 1 .. argc |-> "local"]),
                G, R)
<1> DEFINE n == Len(fr)
           base == fr[n].slots
           wide == Len(sh[n])
           slot == Len(st) - argc
           caller == Append(SubSeq(sh[n], 1, wide - (argc + 1)), "operand")
           callee == <<"callee">> \o [i \in 1 .. argc |-> "local"]
           st2 == [st EXCEPT ![slot] = slot0]
           fr2 == Append(fr, [closure |-> f, slots |-> slot, made |-> made])
           sh2 == Append([sh EXCEPT ![Len(sh)] =
                    Append(SubSeq(@, 1, Len(@) - (argc + 1)), "operand")], callee)
<1>1. Placed(st, fr, sh) /\ Filled(st, fr, sh, R) /\ st \in Seq(G)
  BY DEF Layout
<1>2. n \in Nat \ {0} /\ n = Len(sh) /\ fr \in Seq(FrameRecord) /\ sh \in Seq(Seq(Kind))
  BY <1>1, LayoutBelow DEF Placed
<1>b. /\ \A i \in 1 .. n - 1 : i \in 1 .. n /\ i # n /\ i + 1 \in 1 .. n
      /\ \A i \in 1 .. n : i # n => i \in 1 .. n - 1
      /\ \A i \in 1 .. n + 1 : i # n + 1 => i \in 1 .. n
  <2> HIDE DEF n
  <2>1. QED
    BY <1>2
<1>3. base \in Nat \ {0} /\ wide \in Nat \ {0} /\ sh[n] \in Seq(Kind) /\ Len(st) \in Nat
  BY <1>1, <1>2, LayoutBelow
<1>4. Len(st) = base + wide - 1 /\ argc + 1 < wide
  BY <1>1 DEF Placed, Top
<1>5. slot \in Nat \ {0} /\ base < slot /\ slot <= Len(st) /\ slot = base + (wide - argc) - 1
  <2> HIDE DEF base, wide
  <2>1. QED
    BY <1>3, <1>4
<1>6. /\ caller \in Seq(Kind) /\ Len(caller) = wide - argc /\ wide - argc >= 2
      /\ caller[wide - argc] = "operand"
      /\ \A j \in 1 .. wide - argc - 1 : caller[j] = sh[n][j]
  <2>1. wide - (argc + 1) \in 1 .. wide - 1
    BY <1>3, <1>4
  <2> DEFINE kept == SubSeq(sh[n], 1, wide - (argc + 1))
  <2>2. /\ kept \in Seq(Kind) /\ Len(kept) = wide - (argc + 1)
        /\ \A j \in 1 .. wide - (argc + 1) : kept[j] = sh[n][j]
    BY <2>1, <1>3, SubSeqProperties
  <2>3. "operand" \in Kind
    BY DEF Kind
  <2> HIDE DEF kept, wide
  <2>4. /\ Append(kept, "operand") \in Seq(Kind) /\ Len(Append(kept, "operand")) = Len(kept) + 1
        /\ Append(kept, "operand")[Len(kept) + 1] = "operand"
        /\ \A j \in 1 .. Len(kept) : Append(kept, "operand")[j] = kept[j]
    BY <2>2, <2>3, AppendProperties
  <2>5. QED
    BY <2>1, <2>2, <2>4, <1>3 DEF kept
<1>7. /\ callee \in Seq(Kind) /\ Len(callee) = argc + 1 /\ callee[1] = "callee"
      /\ \A j \in 1 .. argc + 1 : callee[j] # "this"
  <2> DEFINE params == [i \in 1 .. argc |-> "local"]
  <2>1. params \in Seq(Kind) /\ Len(params) = argc /\ <<"callee">> \in Seq(Kind)
    BY DEF Kind
  <2>2. /\ callee \in Seq(Kind) /\ Len(callee) = 1 + argc
        /\ \A j \in 1 .. 1 + argc : callee[j] = IF j <= 1 THEN <<"callee">>[j] ELSE params[j - 1]
    <3> HIDE DEF params
    <3>1. QED
      BY <2>1, ConcatProperties DEF params
  <2>3. \A j \in 1 .. argc + 1 : callee[j] # "this"
    <3> SUFFICES ASSUME NEW j \in 1 .. argc + 1 PROVE callee[j] # "this"
      OBVIOUS
    <3> HIDE DEF callee
    <3>1. CASE j = 1
      BY <3>1, <2>2
    <3>2. CASE j # 1
      BY <3>2, <2>2
    <3>3. QED
      BY <3>1, <3>2
  <2> HIDE DEF callee
  <2>4. QED
    BY <2>2, <2>3
<1>8. /\ sh2 \in Seq(Seq(Kind)) /\ Len(sh2) = n + 1
      /\ sh2[n + 1] = callee /\ sh2[n] = caller
      /\ \A i \in 1 .. n - 1 : sh2[i] = sh[i]
  <2>1. sh2 = Append([sh EXCEPT ![n] = caller], callee)
    BY <1>2
  <2> DEFINE left == [sh EXCEPT ![n] = caller]
  <2> HIDE DEF caller, callee, sh2
  <2>2. left \in Seq(Seq(Kind)) /\ Len(left) = n /\ left[n] = caller
        /\ \A i \in 1 .. n - 1 : left[i] = sh[i]
    BY <1>2, <1>6
  <2> HIDE DEF left
  <2>3. /\ Append(left, callee) \in Seq(Seq(Kind)) /\ Len(Append(left, callee)) = n + 1
        /\ Append(left, callee)[n + 1] = callee
        /\ \A i \in 1 .. n : Append(left, callee)[i] = left[i]
    BY <2>2, <1>7, AppendProperties
  <2>4. n \in 1 .. n /\ \A i \in 1 .. n - 1 : i \in 1 .. n
    BY <1>2, <1>b
  <2>5. sh2 = Append(left, callee)
    BY <2>1 DEF left
  <2>6. sh2[n] = caller /\ \A i \in 1 .. n - 1 : sh2[i] = sh[i]
    BY <2>2, <2>3, <2>4, <2>5
  <2>7. QED
    BY <2>3, <2>5, <2>6
<1>9. /\ st2 \in Seq(G) /\ Len(st2) = Len(st) /\ st2[slot] = slot0
      /\ \A p \in 1 .. Len(st) : p # slot => st2[p] = st[p]
  <2> HIDE DEF slot
  <2>1. QED
    BY <1>1, <1>3, <1>5
<1>10. /\ fr2 \in Seq(FrameRecord) /\ Len(fr2) = n + 1
       /\ \A i \in 1 .. n : fr2[i] = fr[i]
       /\ fr2[n + 1].slots = slot /\ fr2[n + 1].closure = f /\ fr2[n + 1].made = made
  <2> DEFINE new == [closure |-> f, slots |-> slot, made |-> made]
  <2>1. new \in FrameRecord
    BY <1>5 DEF FrameRecord
  <2>2. new.slots = slot /\ new.closure = f /\ new.made = made
    OBVIOUS
  <2> HIDE DEF new
  <2>3. QED
    BY <1>2, <2>1, <2>2, AppendProperties DEF new
<1>11. /\ \A i \in 1 .. n : /\ fr[i].slots \in Nat \ {0} /\ Len(sh[i]) \in Nat \ {0}
                            /\ fr[i].slots <= Top(fr, sh, i) /\ Top(fr, sh, i) \in Nat
       /\ \A i \in 1 .. n - 1 : fr[i].slots < base /\ Top(fr, sh, i) <= base
  BY <1>1, LayoutBelow
<1> HIDE DEF st2, fr2, sh2, caller, callee
<1>12. /\ \A i \in 1 .. n - 1 : Top(fr2, sh2, i) = Top(fr, sh, i)
       /\ Top(fr2, sh2, n) = slot /\ Top(fr2, sh2, n + 1) = Len(st)
  <2>1. \A i \in 1 .. n - 1 : Top(fr2, sh2, i) = Top(fr, sh, i)
    <3> SUFFICES ASSUME NEW i \in 1 .. n - 1 PROVE Top(fr2, sh2, i) = Top(fr, sh, i)
      OBVIOUS
    <3>1. sh2[i] = sh[i] /\ fr2[i] = fr[i]
      BY <1>b, <1>8, <1>10
    <3>2. QED
      BY <3>1 DEF Top
  <2>2. Top(fr2, sh2, n) = base + (wide - argc) - 1
    <3>1. n \in 1 .. n
      BY <1>2
    <3>2. fr2[n].slots = base /\ Len(sh2[n]) = wide - argc
      BY <3>1, <1>6, <1>8, <1>10
    <3>3. QED
      BY <3>2 DEF Top
  <2>3. Top(fr2, sh2, n + 1) = slot + (argc + 1) - 1
    BY <1>7, <1>8, <1>10 DEF Top
  <2>4. QED
    BY <2>1, <2>2, <2>3, <1>3, <1>5
<1>13. Placed(st2, fr2, sh2)
  <2>1. \A i \in 1 .. n + 1 : sh2[i] # <<>> /\ sh2[i][1] = "callee"
    <3> SUFFICES ASSUME NEW i \in 1 .. n + 1 PROVE sh2[i] # <<>> /\ sh2[i][1] = "callee"
      OBVIOUS
    <3>1. CASE i = n + 1
      BY <3>1, <1>7, <1>8
    <3>2. CASE i = n
      <4>1. 1 \in 1 .. wide - argc - 1 /\ sh[n][1] = "callee"
        <5>1. sh[n][1] = "callee"
          <6>1. \A j \in 1 .. n : sh[j][1] = "callee"
            BY <1>1 DEF Placed
          <6>2. n \in 1 .. n
            BY <1>2
          <6>3. QED
            BY <6>1, <6>2
        <5>2. 1 \in 1 .. wide - argc - 1
          <6> HIDE DEF wide
          <6>1. QED
            BY <1>3, <1>6
        <5>3. QED
          BY <5>1, <5>2
      <4>2. QED
        BY <3>2, <4>1, <1>6, <1>8
    <3>3. CASE i \in 1 .. n - 1
      <4>1. sh2[i] = sh[i] /\ i \in 1 .. n
        BY <3>3, <1>b, <1>8
      <4>2. QED
        BY <4>1, <1>1 DEF Placed
    <3>4. QED
      BY <3>1, <3>2, <3>3, <1>2
  <2>2. fr2[1].slots = 1 /\ Len(st2) = Top(fr2, sh2, Len(fr2)) /\ fr2 # <<>>
    <3>1. fr2[1].slots = 1
      BY <1>1, <1>2, <1>10 DEF Placed
    <3>2. QED
      BY <3>1, <1>2, <1>9, <1>10, <1>12
  <2>3. ASSUME NEW i \in 1 .. Len(fr2) - 1
        PROVE  fr2[i + 1].slots = Top(fr2, sh2, i) /\ sh2[i][Len(sh2[i])] = "operand"
    <3>1. CASE i = n
      BY <3>1, <1>6, <1>8, <1>10, <1>12
    <3>2. CASE i # n
      <4>1. i \in 1 .. n - 1 /\ i + 1 \in 1 .. n
        BY <3>2, <1>2, <1>10
      <4>2. fr[i + 1].slots = Top(fr, sh, i) /\ sh[i][Len(sh[i])] = "operand"
        BY <4>1, <1>1 DEF Placed
      <4>3. QED
        BY <4>1, <4>2, <1>8, <1>10, <1>12
    <3>3. QED
      BY <3>1, <3>2
  <2>4. ASSUME NEW i \in 1 .. Len(fr2), NEW k \in 1 .. Len(fr2), i < k
        PROVE  Top(fr2, sh2, i) <= fr2[k].slots
    <3>1. CASE i = n
      <4>1. k = n + 1
        <5> HIDE DEF n
        <5>1. k \in 1 .. n + 1 /\ n < k
          BY <3>1, <2>4, <1>10
        <5>2. QED
          BY <5>1, <1>2
      <4>2. QED
        BY <3>1, <4>1, <1>5, <1>10, <1>12
    <3>2. CASE i # n /\ k = n + 1
      <4>1. i \in 1 .. n - 1
        <5> HIDE DEF n
        <5>1. i \in 1 .. n + 1 /\ i < n + 1 /\ i # n
          BY <3>2, <2>4, <1>10
        <5>2. QED
          BY <5>1, <1>2
      <4>2. Top(fr, sh, i) <= base /\ Top(fr, sh, i) \in Nat
        <5>1. i \in 1 .. n
          BY <4>1, <1>b
        <5>2. QED
          BY <4>1, <5>1, <1>11
      <4>3. QED
        BY <3>2, <4>1, <4>2, <1>3, <1>5, <1>10, <1>12, SMTT(20)
    <3>3. CASE i # n /\ k # n + 1
      <4>1. i \in 1 .. n - 1 /\ k \in 1 .. n /\ i \in 1 .. n
        BY <3>3, <2>4, <1>2, <1>10
      <4>2. Top(fr, sh, i) <= fr[k].slots
        BY <4>1, <2>4, <1>1 DEF Placed
      <4>3. QED
        BY <4>1, <4>2, <1>10, <1>12
    <3>4. QED
      BY <3>1, <3>2, <3>3
  <2>5. QED
    BY <1>8, <1>10, <2>1, <2>2, <2>3, <2>4 DEF Placed
<1>14. Filled(st2, fr2, sh2, R)
  <2> SUFFICES ASSUME NEW i \in 1 .. n + 1
               PROVE  /\ fr2[i].closure \in Function => <<st2[fr2[i].slots], fr2[i].closure>> \in R
                      /\ \A j \in 1 .. Len(sh2[i]) :
                           sh2[i][j] = "this" => st2[fr2[i].slots + j - 1] = st2[fr2[i].slots]
                      /\ fr2[i].made # Absent => /\ st2[fr2[i].slots] = fr2[i].made
                                                 /\ IsInit(fr2[i].closure)
    BY <1>10 DEF Filled
  <2>1. CASE i = n + 1
    BY <2>1, <1>7, <1>8, <1>9, <1>10
  <2>2. CASE i # n + 1
    <3>1. i \in 1 .. n /\ fr2[i] = fr[i]
      BY <2>2, <1>b, <1>10
    <3> DEFINE s == fr[i].slots
    <3>2. s \in Nat \ {0} /\ s <= base
      <4>1. CASE i = n
        BY <4>1, <1>3
      <4>2. CASE i # n
        <5>1. s \in Nat \ {0} /\ s < base
          BY <4>2, <3>1, <1>b, <1>11
        <5> HIDE DEF s, base
        <5>2. QED
          BY <5>1, <1>3
      <4>3. QED
        BY <4>1, <4>2
    <3>3. st2[s] = st[s]
      <4> HIDE DEF s, slot, base
      <4>1. s \in 1 .. Len(st) /\ s # slot
        BY <3>2, <1>3, <1>5
      <4>2. QED
        BY <4>1, <1>9
    <3>4. ASSUME NEW j \in 1 .. Len(sh2[i]), sh2[i][j] = "this"
          PROVE  st2[s + j - 1] = st2[s]
      <4>1. j \in 1 .. Len(sh[i]) /\ sh[i][j] = "this" /\ s + j - 1 < slot
        <5>1. CASE i = n
          <6>1. j \in 1 .. wide - argc - 1
            <7>1. j # wide - argc /\ j \in 1 .. wide - argc
              BY <3>4, <5>1, <1>6, <1>8
            <7>2. QED
              BY <7>1, <1>3
          <6>2. j \in 1 .. wide /\ sh[n][j] = "this"
            <7>1. caller[j] = "this" /\ caller[j] = sh[n][j]
              BY <6>1, <3>4, <5>1, <1>6, <1>8
            <7>2. j \in 1 .. wide
              <8> HIDE DEF wide
              <8>1. QED
                BY <6>1, <1>3, <1>6
            <7>3. QED
              BY <7>1, <7>2
          <6>3. base + j - 1 < slot
            <7> HIDE DEF base, wide, slot
            <7>1. QED
              BY <6>1, <1>3, <1>5
          <6>4. QED
            BY <5>1, <6>2, <6>3
        <5>2. CASE i # n
          <6>1. i \in 1 .. n - 1 /\ sh2[i] = sh[i]
            BY <5>2, <3>1, <1>b, <1>8
          <6>2. Top(fr, sh, i) <= base /\ Len(sh[i]) \in Nat \ {0}
            BY <6>1, <3>1, <1>11
          <6> DEFINE l == Len(sh[i])
          <6>3. s + l - 1 <= base /\ l \in Nat \ {0} /\ j \in 1 .. l
            BY <6>1, <6>2 DEF Top
          <6>4. s + j - 1 < slot
            <7> HIDE DEF s, l, base, slot
            <7>1. QED
              BY <6>3, <3>2, <1>3, <1>5
          <6>5. QED
            BY <6>1, <6>3, <6>4, <3>4
        <5>3. QED
          BY <5>1, <5>2
      <4>2. st[s + j - 1] = st[s]
        BY <4>1, <3>1, <1>1 DEF Filled
      <4>3. s + j - 1 \in 1 .. Len(st) /\ s + j - 1 # slot
        <5>1. Len(sh[i]) \in Nat
          BY <3>1, <1>11
        <5> DEFINE l == Len(sh[i])
                   top == Len(st)
        <5>2. /\ s \in Nat \ {0} /\ l \in Nat /\ j \in 1 .. l /\ s + j - 1 < slot
              /\ slot \in Nat \ {0} /\ slot <= top /\ top \in Nat
          BY <4>1, <3>2, <1>3, <1>5, <5>1
        <5> HIDE DEF s, slot, l, top
        <5>3. s + j - 1 \in 1 .. top /\ s + j - 1 # slot
          BY <5>2
        <5>4. QED
          BY <5>3 DEF top
      <4>4. QED
        BY <4>2, <4>3, <3>3, <1>9
    <3>5. QED
      BY <3>1, <3>3, <3>4, <1>1 DEF Filled
  <2>3. QED
    BY <2>1, <2>2
<1>15. QED
  BY <1>9, <1>13, <1>14 DEF Layout, st2, fr2, sh2, callee

(* The result of the running frame takes the place of its first slot.      *)
LEMMA LayoutOfReturn ==
  ASSUME NEW st, NEW fr, NEW sh, NEW G, NEW R, Layout(st, fr, sh, G, R), Len(fr) > 1,
         NEW v \in G
  PROVE  Layout(Append(SubSeq(st, 1, fr[Len(fr)].slots - 1), v),
                SubSeq(fr, 1, Len(fr) - 1), SubSeq(sh, 1, Len(sh) - 1), G, R)
<1> DEFINE n == Len(fr)
           base == fr[n].slots
           fr2 == SubSeq(fr, 1, Len(fr) - 1)
           sh2 == SubSeq(sh, 1, Len(sh) - 1)
           st2 == Append(SubSeq(st, 1, base - 1), v)
<1>1. Placed(st, fr, sh) /\ Filled(st, fr, sh, R) /\ st \in Seq(G) /\ fr # <<>>
  BY DEF Layout, Placed
<1>2. n \in Nat \ {0} /\ n > 1 /\ n = Len(sh) /\ fr \in Seq(FrameRecord) /\ sh \in Seq(Seq(Kind))
  BY <1>1, LayoutBelow DEF Placed
<1>3. /\ n \in 1 .. n /\ n - 1 \in 1 .. n - 1 /\ 1 \in 1 .. n - 1
      /\ \A i \in 1 .. n - 1 : i \in 1 .. n /\ i # n /\ i + 1 \in 1 .. n
      /\ \A i \in 1 .. n - 1 : i # n - 1 => i \in 1 .. (n - 1) - 1 /\ i + 1 \in 1 .. n - 1
      /\ \A i \in 1 .. (n - 1) - 1 : i \in 1 .. n - 1 /\ i + 1 \in 1 .. n - 1
  <2> HIDE DEF n
  <2>1. QED
    BY <1>2
<1>4. base \in Nat \ {0} /\ Len(sh[n]) \in Nat \ {0} /\ Len(st) \in Nat /\ base <= Len(st)
  <2>1. base \in Nat \ {0} /\ Len(sh[n]) \in Nat \ {0} /\ Len(st) \in Nat
    BY <1>1, <1>3, LayoutBelow
  <2>2. Len(st) = base + Len(sh[n]) - 1
    BY <1>1 DEF Placed, Top
  <2>3. QED
    BY <2>1, <2>2
<1>5. /\ st2 \in Seq(G) /\ Len(st2) = base
      /\ \A p \in 1 .. base - 1 : st2[p] = st[p]
  <2> DEFINE kept == SubSeq(st, 1, base - 1)
  <2> HIDE DEF base
  <2>1. /\ kept \in Seq(G) /\ Len(kept) = base - 1
        /\ \A p \in 1 .. base - 1 : kept[p] = st[p]
    BY <1>1, <1>4, SubSeqProperties
  <2> HIDE DEF kept
  <2>2. /\ Append(kept, v) \in Seq(G) /\ Len(Append(kept, v)) = Len(kept) + 1
        /\ \A p \in 1 .. Len(kept) : Append(kept, v)[p] = kept[p]
    BY <2>1, AppendProperties
  <2>3. QED
    BY <2>1, <2>2, <1>4 DEF kept
<1>6. fr2 \in Seq(FrameRecord) /\ Len(fr2) = n - 1 /\ \A i \in 1 .. n - 1 : fr2[i] = fr[i]
  BY <1>2, SubSeqProperties
<1>7. sh2 \in Seq(Seq(Kind)) /\ Len(sh2) = n - 1 /\ \A i \in 1 .. n - 1 : sh2[i] = sh[i]
  BY <1>2, SubSeqProperties
<1>8. \A i \in 1 .. n - 1 : /\ fr[i].slots \in Nat \ {0} /\ fr[i].slots < base
                            /\ Len(sh[i]) \in Nat \ {0} /\ Len(sh[i]) >= 2
                            /\ Top(fr, sh, i) <= base /\ sh[i][Len(sh[i])] = "operand"
  BY <1>1, <1>3, LayoutBelow DEF Placed
<1> HIDE DEF fr2, sh2, st2
<1>9. \A i \in 1 .. n - 1 : Top(fr2, sh2, i) = Top(fr, sh, i)
  BY <1>6, <1>7 DEF Top
<1>10. Placed(st2, fr2, sh2)
  <2>1. \A i \in 1 .. n - 1 : sh2[i] # <<>> /\ sh2[i][1] = "callee"
    BY <1>1, <1>3, <1>7 DEF Placed
  <2>2. fr2 # <<>> /\ fr2[1].slots = 1
    BY <1>1, <1>2, <1>3, <1>6 DEF Placed
  <2>3. Len(st2) = Top(fr2, sh2, n - 1)
    <3>1. (n - 1) + 1 = n
      BY <1>2
    <3>2. fr[(n - 1) + 1].slots = Top(fr, sh, n - 1)
      BY <1>1, <1>3 DEF Placed
    <3>3. QED
      BY <3>1, <3>2, <1>3, <1>5, <1>9
  <2>4. ASSUME NEW i \in 1 .. (n - 1) - 1
        PROVE  fr2[i + 1].slots = Top(fr2, sh2, i) /\ sh2[i][Len(sh2[i])] = "operand"
    <3>1. i \in 1 .. n - 1 /\ i + 1 \in 1 .. n - 1
      BY <1>3
    <3>2. fr[i + 1].slots = Top(fr, sh, i) /\ sh[i][Len(sh[i])] = "operand"
      BY <3>1, <1>1 DEF Placed
    <3>3. QED
      BY <3>1, <3>2, <1>6, <1>7, <1>9
  <2>5. ASSUME NEW i \in 1 .. n - 1, NEW k \in 1 .. n - 1, i < k
        PROVE  Top(fr2, sh2, i) <= fr2[k].slots
    <3>1. Top(fr, sh, i) <= fr[k].slots
      BY <2>5, <1>1, <1>3 DEF Placed
    <3>2. QED
      BY <3>1, <1>6, <1>9
  <2>6. QED
    BY <1>6, <1>7, <2>1, <2>2, <2>3, <2>4, <2>5 DEF Placed
<1>11. Filled(st2, fr2, sh2, R)
  <2> SUFFICES ASSUME NEW i \in 1 .. n - 1
               PROVE  /\ fr2[i].closure \in Function => <<st2[fr2[i].slots], fr2[i].closure>> \in R
                      /\ \A j \in 1 .. Len(sh2[i]) :
                           sh2[i][j] = "this" => st2[fr2[i].slots + j - 1] = st2[fr2[i].slots]
                      /\ fr2[i].made # Absent => /\ st2[fr2[i].slots] = fr2[i].made
                                                 /\ IsInit(fr2[i].closure)
    BY <1>6 DEF Filled
  <2> DEFINE s == fr[i].slots
             l == Len(sh[i])
  <2>1. i \in 1 .. n /\ fr2[i] = fr[i] /\ sh2[i] = sh[i]
    BY <1>3, <1>6, <1>7
  <2>2. s \in Nat \ {0} /\ s < base /\ l \in Nat \ {0} /\ s + l - 1 <= base
    BY <1>8 DEF Top
  <2>3. st2[s] = st[s]
    <3> HIDE DEF s, l, base
    <3>1. s \in 1 .. base - 1
      BY <2>2, <1>4
    <3>2. QED
      BY <3>1, <1>5
  <2>4. ASSUME NEW j \in 1 .. l, sh[i][j] = "this"
        PROVE  st2[s + j - 1] = st2[s]
    <3>1. j # l
      BY <2>4, <1>8
    <3>2. s + j - 1 \in 1 .. base - 1
      <4> HIDE DEF s, l, base
      <4>1. QED
        BY <3>1, <2>2, <1>4
    <3>3. st[s + j - 1] = st[s]
      BY <2>1, <2>4, <1>1 DEF Filled
    <3>4. QED
      BY <3>2, <3>3, <2>3, <1>5
  <2>5. QED
    BY <2>1, <2>3, <2>4, <1>1 DEF Filled
<1>12. QED
  BY <1>5, <1>10, <1>11 DEF Layout, st2, fr2, sh2

(* No frames, or one for a script.                                         *)
LEMMA LayoutOfNothing == ASSUME NEW G, NEW R PROVE Layout(<<>>, <<>>, <<>>, G, R)
BY DEF Layout, Placed, Filled

LEMMA LayoutOfScript ==
  ASSUME NEW G, NEW R, Script \in G
  PROVE  Layout(<<Script>>, <<[closure |-> Script, slots |-> 1, made |-> Absent]>>,
                << <<"callee">> >>, G, R)
<1> DEFINE first == [closure |-> Script, slots |-> 1, made |-> Absent]
<1>1. first \in FrameRecord /\ first.slots = 1 /\ first.closure = Script /\ first.made = Absent
  BY DEF FrameRecord
<1>2. first.closure \notin Function
  BY <1>1, SentinelAssumption
<1> HIDE DEF first
<1>3. <<first>> \in Seq(FrameRecord) /\ << <<"callee">> >> \in Seq(Seq(Kind))
      /\ <<Script>> \in Seq(G)
  BY <1>1 DEF Kind
<1>4. Placed(<<Script>>, <<first>>, << <<"callee">> >>)
  <2>1. Top(<<first>>, << <<"callee">> >>, 1) = 1
    BY <1>1 DEF Top
  <2>2. QED
    BY <1>1, <1>3, <2>1 DEF Placed
<1>5. Filled(<<Script>>, <<first>>, << <<"callee">> >>, R)
  BY <1>1, <1>2 DEF Filled
<1>6. QED
  BY <1>3, <1>4, <1>5 DEF Layout, first

(* More values and more receivers leave the layout as it is.               *)
LEMMA LayoutGrows ==
  ASSUME NEW st, NEW fr, NEW sh, NEW G, NEW R, Layout(st, fr, sh, G, R),
         NEW more, NEW R2, G \subseteq more, R \subseteq R2
  PROVE  Layout(st, fr, sh, more, R2)
<1>1. st \in Seq(more)
  BY DEF Layout
<1>2. Filled(st, fr, sh, R2)
  BY DEF Layout, Filled
<1>3. QED
  BY <1>1, <1>2 DEF Layout

(* What the running frame and its slots are.                               *)
LEMMA LayoutOfRunning ==
  ASSUME NEW st, NEW fr, NEW sh, NEW G, NEW R, Layout(st, fr, sh, G, R), fr # <<>>
  PROVE  /\ st \in Seq(G) /\ fr \in Seq(FrameRecord) /\ sh \in Seq(Seq(Kind))
         /\ Len(fr) \in Nat \ {0} /\ Len(sh) = Len(fr)
         /\ fr[Len(fr)] \in FrameRecord /\ fr[Len(fr)].slots \in Nat \ {0}
         /\ sh[Len(fr)] \in Seq(Kind) /\ Len(sh[Len(fr)]) \in Nat \ {0}
         /\ sh[Len(fr)][1] = "callee" /\ Len(st) \in Nat
         /\ Len(st) = fr[Len(fr)].slots + Len(sh[Len(fr)]) - 1
         /\ fr[Len(fr)].slots \in 1 .. Len(st)
<1>1. Placed(st, fr, sh) /\ st \in Seq(G)
  BY DEF Layout
<1>2. Len(fr) \in Nat \ {0} /\ Len(fr) \in 1 .. Len(fr)
  BY <1>1, LayoutBelow
<1>3. /\ fr[Len(fr)] \in FrameRecord /\ fr[Len(fr)].slots \in Nat \ {0}
      /\ sh[Len(fr)] \in Seq(Kind) /\ Len(sh[Len(fr)]) \in Nat \ {0}
  BY <1>1, <1>2, LayoutBelow
<1>4. sh[Len(fr)][1] = "callee" /\ Len(st) = fr[Len(fr)].slots + Len(sh[Len(fr)]) - 1
  BY <1>1, <1>2 DEF Placed, Top
<1>5. Len(st) \in Nat
  BY <1>1
<1> DEFINE s == fr[Len(fr)].slots
           l == Len(sh[Len(fr)])
           h == Len(st)
<1>6. s \in Nat \ {0} /\ l \in Nat \ {0} /\ h \in Nat /\ h = s + l - 1
  BY <1>3, <1>4, <1>5
<1> HIDE DEF s, l, h
<1>7. s \in 1 .. h
  BY <1>6
<1>8. QED
  BY <1>1, <1>2, <1>3, <1>4, <1>5, <1>7 DEF Placed, s, h

(* k operands become one value.                                            *)
LEMMA LayoutOfReplace ==
  ASSUME NEW st, NEW fr, NEW sh, NEW G, NEW R, Layout(st, fr, sh, G, R), fr # <<>>,
         NEW k \in Nat, k < Len(sh[Len(fr)]), NEW v \in G, NEW kind \in Kind,
         kind = "this" => v = st[fr[Len(fr)].slots]
  PROVE  Layout(Append(SubSeq(st, 1, Len(st) - k), v), fr,
                [sh EXCEPT ![Len(sh)] = Append(SubSeq(@, 1, Len(@) - k), kind)], G, R)
<1> DEFINE n == Len(fr)
           base == fr[n].slots
           shape == sh[n]
           wide == Len(shape)
           high == Len(st)
           kept == SubSeq(st, 1, high - k)
           left == SubSeq(shape, 1, wide - k)
<1>1. /\ st \in Seq(G) /\ sh \in Seq(Seq(Kind)) /\ n = Len(sh) /\ n \in 1 .. Len(sh)
      /\ base \in Nat \ {0} /\ shape \in Seq(Kind) /\ wide \in Nat \ {0} /\ shape[1] = "callee"
      /\ high \in Nat /\ high = base + wide - 1 /\ k < wide
  BY LayoutOfRunning
<1>2. [sh EXCEPT ![Len(sh)] = Append(SubSeq(@, 1, Len(@) - k), kind)]
        = [sh EXCEPT ![Len(sh)] = Append(left, kind)]
  BY <1>1
<1>3. Filled(st, fr, sh, R)
  BY DEF Layout
<1>4. \A j \in 1 .. wide : shape[j] = "this" => st[base + j - 1] = st[base]
  BY <1>1, <1>3 DEF Filled
<1> HIDE DEF n, base, shape, wide, high
<1>5. /\ kept \in Seq(G) /\ Len(kept) = high - k
      /\ \A p \in 1 .. high - k : kept[p] = st[p]
  BY <1>1, SubSeqProperties DEF high
<1>6. /\ left \in Seq(Kind) /\ Len(left) = wide - k
      /\ \A p \in 1 .. wide - k : left[p] = shape[p]
  BY <1>1, SubSeqProperties DEF wide
<1> HIDE DEF kept, left
<1> DEFINE st2 == Append(kept, v)
           new == Append(left, kind)
<1>7. /\ st2 \in Seq(G) /\ Len(st2) = high - k + 1
      /\ \A p \in 1 .. high - k : st2[p] = st[p]
      /\ st2[high - k + 1] = v
  BY <1>5, AppendProperties
<1>8. /\ new \in Seq(Kind) /\ Len(new) = wide - k + 1
      /\ \A p \in 1 .. wide - k : new[p] = shape[p]
      /\ new[wide - k + 1] = kind
  BY <1>6, AppendProperties
<1> HIDE DEF st2, new
<1>9. new # <<>> /\ new[1] = "callee"
  BY <1>1, <1>8
<1>10. Len(st2) = base + Len(new) - 1
  BY <1>1, <1>7, <1>8
<1>11. \A p \in 1 .. base : st2[p] = st[p]
  <2>1. \A p \in 1 .. base : p \in 1 .. high - k
    BY <1>1
  <2>2. QED
    BY <2>1, <1>7
<1>12. \A j \in 1 .. Len(new) : new[j] = "this" => st2[base + j - 1] = st[base]
  <2> SUFFICES ASSUME NEW j \in 1 .. Len(new), new[j] = "this" PROVE st2[base + j - 1] = st[base]
    OBVIOUS
  <2>1. CASE j = wide - k + 1
    <3>1. base + j - 1 = high - k + 1
      BY <2>1, <1>1
    <3>2. kind = "this"
      BY <2>1, <1>8
    <3>3. v = st[base]
      BY <3>2 DEF base, n
    <3>4. st2[base + j - 1] = v
      BY <3>1, <1>7
    <3>5. QED
      BY <3>3, <3>4
  <2>2. CASE j # wide - k + 1
    <3>1. j \in 1 .. wide - k + 1 /\ j # wide - k + 1
      BY <2>2, <1>8
    <3>2. j \in 1 .. wide - k /\ j \in 1 .. wide /\ base + j - 1 \in 1 .. high - k
      BY <3>1, <1>1
    <3>3. new[j] = shape[j] /\ st2[base + j - 1] = st[base + j - 1]
      BY <3>2, <1>7, <1>8
    <3>4. QED
      BY <3>2, <3>3, <1>4
  <2>3. QED
    BY <2>1, <2>2
<1>13. Layout(st2, fr, [sh EXCEPT ![Len(sh)] = new], G, R)
  BY <1>7, <1>8, <1>9, <1>10, <1>11, <1>12, LayoutOfTop DEF base, n
<1>14. QED
  BY <1>2, <1>13 DEF st2, new, kept, high

(* k operands are dropped.                                                 *)
LEMMA LayoutOfDrop ==
  ASSUME NEW st, NEW fr, NEW sh, NEW G, NEW R, Layout(st, fr, sh, G, R), fr # <<>>,
         NEW k \in Nat, k < Len(sh[Len(fr)])
  PROVE  Layout(SubSeq(st, 1, Len(st) - k), fr,
                [sh EXCEPT ![Len(sh)] = SubSeq(@, 1, Len(@) - k)], G, R)
<1> DEFINE n == Len(fr)
           base == fr[n].slots
           shape == sh[n]
           wide == Len(shape)
           high == Len(st)
           kept == SubSeq(st, 1, high - k)
           left == SubSeq(shape, 1, wide - k)
<1>1. /\ st \in Seq(G) /\ sh \in Seq(Seq(Kind)) /\ n = Len(sh) /\ n \in 1 .. Len(sh)
      /\ base \in Nat \ {0} /\ shape \in Seq(Kind) /\ wide \in Nat \ {0} /\ shape[1] = "callee"
      /\ high \in Nat /\ high = base + wide - 1 /\ k < wide
  BY LayoutOfRunning
<1>2. [sh EXCEPT ![Len(sh)] = SubSeq(@, 1, Len(@) - k)] = [sh EXCEPT ![Len(sh)] = left]
  BY <1>1
<1>3. Filled(st, fr, sh, R)
  BY DEF Layout
<1>4. \A j \in 1 .. wide : shape[j] = "this" => st[base + j - 1] = st[base]
  BY <1>1, <1>3 DEF Filled
<1> HIDE DEF n, base, shape, wide, high
<1>5. /\ kept \in Seq(G) /\ Len(kept) = high - k
      /\ \A p \in 1 .. high - k : kept[p] = st[p]
  BY <1>1, SubSeqProperties DEF high
<1>6. /\ left \in Seq(Kind) /\ Len(left) = wide - k
      /\ \A p \in 1 .. wide - k : left[p] = shape[p]
  BY <1>1, SubSeqProperties DEF wide
<1> HIDE DEF kept, left
<1>7. left # <<>> /\ left[1] = "callee" /\ Len(kept) = base + Len(left) - 1
  <2>1. 1 \in 1 .. wide - k /\ high - k = base + (wide - k) - 1 /\ wide - k # 0
    BY <1>1
  <2>2. left[1] = "callee"
    BY <2>1, <1>1, <1>6
  <2>3. left # <<>>
    BY <2>1, <1>6
  <2>4. Len(kept) = base + Len(left) - 1
    BY <2>1, <1>5, <1>6
  <2>5. QED
    BY <2>2, <2>3, <2>4
<1>8. \A p \in 1 .. base : kept[p] = st[p]
  <2>1. \A p \in 1 .. base : p \in 1 .. high - k
    BY <1>1
  <2>2. QED
    BY <2>1, <1>5
<1>9. \A j \in 1 .. Len(left) : left[j] = "this" => kept[base + j - 1] = st[base]
  <2> SUFFICES ASSUME NEW j \in 1 .. Len(left), left[j] = "this"
               PROVE  kept[base + j - 1] = st[base]
    OBVIOUS
  <2>1. j \in 1 .. wide - k /\ j \in 1 .. wide /\ base + j - 1 \in 1 .. high - k
    BY <1>1, <1>6
  <2>2. QED
    BY <2>1, <1>4, <1>5, <1>6
<1>10. Layout(kept, fr, [sh EXCEPT ![Len(sh)] = left], G, R)
  BY <1>5, <1>6, <1>7, <1>8, <1>9, LayoutOfTop DEF base, n
<1>11. QED
  BY <1>2, <1>10 DEF kept, high

(* A variable of the running frame is assigned to.                         *)
LEMMA LayoutOfStore ==
  ASSUME NEW st, NEW fr, NEW sh, NEW G, NEW R, Layout(st, fr, sh, G, R), fr # <<>>,
         NEW i \in 1 .. Len(sh[Len(fr)]), sh[Len(fr)][i] \in {"local", "captured"},
         NEW v \in G
  PROVE  Layout([st EXCEPT ![fr[Len(fr)].slots + i - 1] = v], fr, sh, G, R)
<1> DEFINE n == Len(fr)
           base == fr[n].slots
           shape == sh[n]
           wide == Len(shape)
           high == Len(st)
           st2 == [st EXCEPT ![base + i - 1] = v]
<1>1. /\ st \in Seq(G) /\ sh \in Seq(Seq(Kind)) /\ n = Len(sh) /\ n \in 1 .. Len(sh)
      /\ base \in Nat \ {0} /\ shape \in Seq(Kind) /\ wide \in Nat \ {0} /\ shape[1] = "callee"
      /\ high \in Nat /\ high = base + wide - 1 /\ shape # <<>>
  BY LayoutOfRunning
<1>2. [sh EXCEPT ![Len(sh)] = shape] = sh
  BY <1>1
<1>3. Filled(st, fr, sh, R)
  BY DEF Layout
<1>4. \A j \in 1 .. wide : shape[j] = "this" => st[base + j - 1] = st[base]
  BY <1>1, <1>3 DEF Filled
<1>5. i # 1 /\ shape[i] \in {"local", "captured"} /\ i \in 1 .. wide
  BY <1>1
<1> HIDE DEF n, base, shape, wide, high
<1>6. base + i - 1 \in 1 .. high /\ base + i - 1 > base
  <2>1. /\ base \in Nat \ {0} /\ wide \in Nat \ {0} /\ high = base + wide - 1
        /\ i \in 1 .. wide /\ i # 1
    BY <1>1, <1>5
  <2>2. PICK k \in Nat : k = i
    BY <2>1
  <2>3. base + k - 1 \in 1 .. high /\ base + k - 1 > base
    BY <2>1, <2>2
  <2>4. QED
    BY <2>2, <2>3
<1>7. /\ st2 \in Seq(G) /\ Len(st2) = high
      /\ \A p \in 1 .. high : p # base + i - 1 => st2[p] = st[p]
  <2> DEFINE slot == base + i - 1
  <2>1. slot \in 1 .. Len(st) /\ high = Len(st) /\ st \in Seq(G)
    BY <1>1, <1>6 DEF high
  <2> HIDE DEF slot
  <2>2. QED
    BY <2>1 DEF slot
<1> HIDE DEF st2
<1>8. \A p \in 1 .. base : st2[p] = st[p]
  BY <1>1, <1>6, <1>7
<1>9. \A j \in 1 .. wide : shape[j] = "this" => st2[base + j - 1] = st[base]
  <2> SUFFICES ASSUME NEW j \in 1 .. wide, shape[j] = "this" PROVE st2[base + j - 1] = st[base]
    OBVIOUS
  <2>1. j # i
    BY <1>5
  <2>2. base + j - 1 \in 1 .. high /\ base + j - 1 # base + i - 1
    BY <2>1, <1>1, <1>5
  <2>3. QED
    BY <2>2, <1>4, <1>7
<1>10. Layout(st2, fr, [sh EXCEPT ![Len(sh)] = shape], G, R)
  BY <1>1, <1>7, <1>8, <1>9, LayoutOfTop DEF base, n, wide
<1>11. QED
  BY <1>2, <1>10 DEF st2, base, n

(* A captured variable of any frame is assigned to: it is no slot 0, and it*)
(* is not among the operands that a caller has handed over.                *)
LEMMA LayoutOfAssign ==
  ASSUME NEW st, NEW fr, NEW sh, NEW G, NEW R, Layout(st, fr, sh, G, R),
         NEW i \in 1 .. Len(fr), NEW j \in 1 .. Len(sh[i]), sh[i][j] = "captured", NEW v \in G
  PROVE  /\ fr[i].slots + j - 1 \in 1 .. Len(st)
         /\ i < Len(fr) => fr[i].slots + j - 1 < fr[i + 1].slots
         /\ Layout([st EXCEPT ![fr[i].slots + j - 1] = v], fr, sh, G, R)
<1>1. Placed(st, fr, sh) /\ Filled(st, fr, sh, R) /\ st \in Seq(G) /\ fr # <<>>
  BY DEF Layout
<1>2. PICK n : n = Len(fr)
  OBVIOUS
<1>3. PICK high : high = Len(st)
  OBVIOUS
<1>4. PICK base : base = fr[i].slots
  OBVIOUS
<1>5. PICK p : p = base + j - 1
  OBVIOUS
<1>6. /\ n \in Nat \ {0} /\ high \in Nat /\ base \in Nat \ {0} /\ j \in Nat \ {0} /\ p \in Nat \ {0}
      /\ i \in 1 .. n /\ Len(sh[i]) \in Nat \ {0}
  <2>1. Len(fr) \in Nat \ {0} /\ fr[i].slots \in Nat \ {0} /\ Len(sh[i]) \in Nat \ {0}
    BY <1>1, LayoutBelow
  <2>2. QED
    BY <1>1, <1>2, <1>3, <1>4, <1>5, <2>1
<1>7. j # 1 /\ (i < n => j < Len(sh[i]))
  <2>1. sh[i][1] = "callee" /\ (i < n => sh[i][Len(sh[i])] = "operand")
    BY <1>1, <1>2, <1>6 DEF Placed
  <2>2. QED
    BY <1>6, <2>1
<1>8. ASSUME NEW k \in 1 .. n, NEW l \in 1 .. Len(sh[k]), k = i => l # j
      PROVE  fr[k].slots + l - 1 # p
  <2>1. PICK low : low = fr[k].slots
    OBVIOUS
  <2>2. PICK wide : wide = Len(sh[k])
    OBVIOUS
  <2>3. low \in Nat \ {0} /\ wide \in Nat \ {0} /\ l \in 1 .. wide
    BY <1>1, <1>2, <2>1, <2>2, LayoutBelow
  <2>4. CASE k = i
    BY <1>4, <1>5, <1>6, <1>8, <2>1, <2>3, <2>4
  <2>5. CASE k < i
    <3>1. low + wide - 1 <= base
      BY <1>1, <1>2, <1>4, <1>6, <2>1, <2>2, <2>5 DEF Placed, Top
    <3>2. base < p
      BY <1>5, <1>6, <1>7
    <3>3. low + l - 1 <= base /\ low + l - 1 \in Int
      BY <1>6, <2>3, <3>1
    <3>4. low + l - 1 # p
      BY <1>6, <3>2, <3>3
    <3>5. QED
      BY <2>1, <3>4
  <2>6. CASE i < k
    <3>1. base + Len(sh[i]) - 1 <= low
      BY <1>1, <1>2, <1>4, <1>6, <2>1, <2>6 DEF Placed, Top
    <3>2. i < n
      BY <1>6, <2>6
    <3>3. PICK len : len = Len(sh[i])
      OBVIOUS
    <3>4. len \in Nat /\ j < len /\ base + len - 1 <= low
      BY <1>6, <1>7, <3>1, <3>2, <3>3
    <3>5. p < low
      BY <1>5, <1>6, <2>3, <3>4
    <3>6. low + l - 1 >= low /\ low + l - 1 \in Int
      BY <2>3
    <3>7. low + l - 1 # p
      BY <1>6, <2>3, <3>5, <3>6
    <3>8. QED
      BY <2>1, <3>7
  <2>7. QED
    BY <1>6, <2>4, <2>5, <2>6
<1>9. p \in 1 .. high /\ (i < n => p < fr[i + 1].slots)
  <2>1. high = Top(fr, sh, n)
    BY <1>1, <1>2, <1>3 DEF Placed
  <2>2. CASE i = n
    <3>1. PICK wide : wide = Len(sh[i])
      OBVIOUS
    <3>2. high = base + wide - 1
      BY <1>4, <2>1, <2>2, <3>1 DEF Top
    <3>3. wide \in Nat \ {0} /\ j \in 1 .. wide
      BY <1>6, <3>1
    <3>4. p \in 1 .. high
      BY <1>5, <1>6, <3>2, <3>3
    <3>5. QED
      BY <1>6, <2>2, <3>4
  <2>3. CASE i < n
    <3>1. base + Len(sh[i]) - 1 <= fr[n].slots /\ base + Len(sh[i]) - 1 = fr[i + 1].slots
      <4>1. n \in 1 .. n /\ i \in 1 .. n /\ i \in 1 .. n - 1
        BY <1>6, <2>3
      <4>2. Top(fr, sh, i) <= fr[n].slots
        BY <1>1, <1>2, <2>3, <4>1 DEF Placed
      <4>3. fr[i + 1].slots = Top(fr, sh, i)
        BY <1>1, <1>2, <4>1 DEF Placed
      <4>4. QED
        BY <1>4, <4>2, <4>3 DEF Top
    <3>2. fr[n].slots <= high /\ fr[n].slots \in Nat \ {0}
      BY <1>1, <1>2, <1>6, <2>1, LayoutBelow
    <3>3. PICK next : next = fr[n].slots
      OBVIOUS
    <3>4. PICK wide : wide = Len(sh[i])
      OBVIOUS
    <3>5. p < base + wide - 1 /\ base + wide - 1 <= next /\ next <= high /\ next \in Nat
          /\ wide \in Nat
      BY <1>5, <1>6, <1>7, <2>3, <3>1, <3>2, <3>3, <3>4
    <3>6. p \in 1 .. high
      BY <1>6, <3>5
    <3>7. QED
      BY <3>1, <3>4, <3>5, <3>6
  <2>4. QED
    BY <1>6, <2>2, <2>3
<1>10. PICK st2 : st2 = [st EXCEPT ![p] = v]
  OBVIOUS
<1>11. st2 \in Seq(G) /\ Len(st2) = high /\ \A q \in 1 .. high : q # p => st2[q] = st[q]
  BY <1>1, <1>3, <1>9, <1>10
<1>12. Placed(st2, fr, sh)
  <2>1. st2 = <<>> <=> st = <<>>
    BY <1>1, <1>3, <1>6, <1>11, EmptySeq
  <2>2. QED
    BY <1>1, <1>3, <1>11, <2>1 DEF Placed
<1>13. ASSUME NEW k \in 1 .. n, NEW l \in 1 .. Len(sh[k]), k = i => l # j
       PROVE  st2[fr[k].slots + l - 1] = st[fr[k].slots + l - 1]
  <2>1. PICK q : q = fr[k].slots + l - 1
    OBVIOUS
  <2>2. q # p
    BY <1>8, <1>13, <2>1
  <2>3. q \in 1 .. high
    <3>1. PICK low : low = fr[k].slots
      OBVIOUS
    <3>2. PICK wide : wide = Len(sh[k])
      OBVIOUS
    <3>3. PICK top : top = fr[n].slots
      OBVIOUS
    <3>4. low \in Nat \ {0} /\ wide \in Nat \ {0} /\ top \in Nat \ {0}
      BY <1>1, <1>2, <1>6, <3>1, <3>2, <3>3, LayoutBelow
    <3>5. low + wide - 1 <= high
      <4>0. n \in 1 .. n
        BY <1>6
      <4>1. high = Top(fr, sh, n) /\ top <= high
        <5>1. high = Top(fr, sh, n)
          BY <1>1, <1>2, <1>3 DEF Placed
        <5>2. fr[n].slots <= Top(fr, sh, n)
          BY <1>1, <1>2, <4>0, LayoutBelow
        <5>3. QED
          BY <3>3, <5>1, <5>2
      <4>2. CASE k = n
        <5>1. high = low + wide - 1
          BY <3>1, <3>2, <4>1, <4>2 DEF Top
        <5>2. QED
          BY <1>6, <5>1
      <4>3. CASE k < n
        <5>1. Top(fr, sh, k) <= fr[n].slots
          BY <1>1, <1>2, <4>0, <4>3 DEF Placed
        <5>2. low + wide - 1 <= top
          BY <3>1, <3>2, <3>3, <5>1 DEF Top
        <5>3. QED
          BY <1>6, <3>4, <4>1, <5>2
      <4>4. QED
        BY <1>6, <4>2, <4>3
    <3>6. l \in 1 .. wide
      BY <3>2
    <3>7. low + l - 1 \in 1 .. high
      BY <1>6, <3>4, <3>5, <3>6
    <3>8. QED
      BY <2>1, <3>1, <3>7
  <2>4. QED
    BY <1>11, <2>1, <2>2, <2>3
<1>14. ASSUME NEW k \in 1 .. n PROVE st2[fr[k].slots] = st[fr[k].slots]
  <2>1. fr[k].slots \in Nat \ {0} /\ 1 \in 1 .. Len(sh[k])
    BY <1>1, <1>2, LayoutBelow
  <2>2. st2[fr[k].slots + 1 - 1] = st[fr[k].slots + 1 - 1]
    BY <1>7, <1>13, <2>1
  <2>3. QED
    BY <2>1, <2>2
<1>15. Filled(st2, fr, sh, R)
  <2> SUFFICES ASSUME NEW k \in 1 .. n
               PROVE  /\ fr[k].closure \in Function => <<st2[fr[k].slots], fr[k].closure>> \in R
                      /\ \A l \in 1 .. Len(sh[k]) :
                           sh[k][l] = "this" => st2[fr[k].slots + l - 1] = st2[fr[k].slots]
                      /\ fr[k].made # Absent =>
                           st2[fr[k].slots] = fr[k].made /\ IsInit(fr[k].closure)
    BY <1>2 DEF Filled
  <2>1. ASSUME NEW l \in 1 .. Len(sh[k]), sh[k][l] = "this"
        PROVE  st2[fr[k].slots + l - 1] = st2[fr[k].slots]
    <3>1. k = i => l # j
      BY <2>1
    <3>2. st[fr[k].slots + l - 1] = st[fr[k].slots]
      BY <1>1, <1>2, <2>1 DEF Filled
    <3>3. QED
      BY <1>13, <1>14, <3>1, <3>2
  <2>2. QED
    BY <1>1, <1>2, <1>14, <2>1 DEF Filled
<1>16. QED
  BY <1>2, <1>3, <1>4, <1>5, <1>9, <1>10, <1>11, <1>12, <1>15 DEF Layout

-------------------------------------------------------------------------------
(* The invariant.                                                          *)

(* The class c has its superclass, if it is to have one.                   *)
Started(c) == Extends[c] => superOf[c] \in Class

Suits(v, f) == Owner[f] # Absent => Fits(v, f) /\ Started(Owner[f])
Receivers == {p \in Value \X Function : Suits(p[1], p[2])}

(* The values there may be: no closure of a method by itself, and a bound  *)
(* method with a receiver that suits it.                                   *)
Good == {v \in Value : /\ v \in Function => Owner[v] = Absent
                       /\ v \in Bound => /\ Owner[v.method] # Absent
                                         /\ <<v.receiver, v.method>> \in Receivers
                       /\ v \in Class => v \in declared
                       /\ v \in Instance => klass[v] # Absent}

Typed ==
  /\ Len(stack) <= StackMax /\ Len(frames) <= FrameMax
  /\ klass \in [Instance -> Class \cup {Absent}]
  /\ fields \in [Instance -> [Name -> Good \cup {Absent}]]
  /\ globals \in [Global -> Good \cup {Absent}]
  /\ closed \subseteq Good
  /\ line \in 0 .. Lines /\ crashed \in BOOLEAN

TypedClasses ==
  /\ methods \in [Class -> [Name -> Function \cup {Absent}]]
  /\ superOf \in [Class -> Class \cup {Absent}]
  /\ lineage \in [Class -> SUBSET Class]
  /\ declared \subseteq Class
  /\ declaring = NotDeclaring \/ declaring \in Class \X Nat

Lineages ==
  /\ \A c \in Class : c \in lineage[c]
  /\ \A c, k \in Class : c \in lineage[k] => lineage[c] \subseteq lineage[k]
  /\ \A c \in Class : superOf[c] # Absent =>
       superOf[c] \in declared /\ lineage[superOf[c]] \subseteq lineage[c]

(* Nothing has been said of c, and no class has inherited from it.         *)
Fresh(c) ==
  /\ lineage[c] = {c} /\ superOf[c] = Absent
  /\ \A n \in Name : methods[c][n] = Absent
  /\ \A k \in Class \ {c} : c \notin lineage[k] /\ superOf[k] # c

(* A method comes from a class of the lineage that declares it by its name.*)
Inherited ==
  \A c \in Class, n \in Name : methods[c][n] # Absent =>
    LET f == methods[c][n] IN
    /\ Owner[f] \in lineage[c] /\ Started(Owner[f])
    /\ \E i \in DOMAIN Declares[Owner[f]] :
         Declares[Owner[f]][i] = [name |-> n, method |-> f]

Pending == shapes = << <<"callee">> >>

(* The class being declared has no subclass yet; until OP_INHERIT it is as *)
(* fresh as one that is not declared.                                      *)
Declaring ==
  declaring # NotDeclaring =>
    /\ Len(frames) = 1
    /\ declaring[1] \in declared /\ declaring[2] <= Len(Declares[declaring[1]])
    /\ \A k \in Class \ {declaring[1]} : superOf[k] # declaring[1]
    /\ Pending => /\ Extends[declaring[1]] /\ declaring[2] = 0
                  /\ Fresh(declaring[1])
    /\ ~Pending => Started(declaring[1])

Classes ==
  /\ TypedClasses /\ Lineages /\ Inherited /\ Declaring
  /\ \A c \in Class \ declared : Fresh(c)

IInv == /\ Typed /\ Layout(stack, frames, shapes, Good, Receivers)
        /\ Classes /\ MethodsNearest

(* Programs without the strays that break the layout.                      *)
Steady == Strays \subseteq {"super"}

-------------------------------------------------------------------------------
(* Values and receivers.                                                   *)

LEMMA Distinct ==
  /\ Absent \notin Function /\ Absent \notin Class /\ Absent \notin Instance
  /\ Absent \notin Value
  /\ Function \subseteq Value /\ Class \subseteq Value /\ Instance \subseteq Value
  /\ Data \subseteq Value /\ Native \subseteq Value /\ Bound \subseteq Value /\ Script \in Value
  /\ \A v \in Instance : v \notin Function /\ v \notin Bound /\ v \notin Class
  /\ \A v \in Class : v \notin Function /\ v \notin Bound /\ v \notin Instance
  /\ \A v \in Function : v \notin Class /\ v \notin Bound /\ v \notin Instance
  /\ \A v \in Bound : v \notin Class /\ v \notin Function /\ v \notin Instance
  /\ \A v \in Data \cup Native \cup {Script} :
       v \notin Class /\ v \notin Function /\ v \notin Instance /\ v \notin Bound
BY SentinelAssumption DEF Value, Plain

LEMMA GoodValues ==
  /\ Good \subseteq Value /\ Absent \notin Good
  /\ \A v \in Data \cup Native \cup {Script} : v \in Good
  /\ \A v \in Function : v \in Good <=> Owner[v] = Absent
  /\ \A v \in Class : v \in Good <=> v \in declared
  /\ \A v \in Instance : v \in Good <=> klass[v] # Absent
  /\ \A v \in Bound : v \in Good <=> /\ Owner[v.method] # Absent
                                      /\ <<v.receiver, v.method>> \in Receivers
<1> DEFINE ok(v) == Owner[v.method] # Absent /\ <<v.receiver, v.method>> \in Receivers
<1>1. Good = {v \in Value : /\ v \in Function => Owner[v] = Absent
                            /\ v \in Bound => ok(v)
                            /\ v \in Class => v \in declared
                            /\ v \in Instance => klass[v] # Absent}
  BY DEF Good
<1> HIDE DEF ok
<1>2. /\ Good \subseteq Value /\ Absent \notin Good
      /\ \A v \in Data \cup Native \cup {Script} : v \in Good
      /\ \A v \in Function : v \in Good <=> Owner[v] = Absent
      /\ \A v \in Class : v \in Good <=> v \in declared
      /\ \A v \in Instance : v \in Good <=> klass[v] # Absent
      /\ \A v \in Bound : v \in Good <=> ok(v)
  BY <1>1, Distinct
<1>3. QED
  BY <1>2 DEF ok

LEMMA ReceiverPairs ==
  ASSUME NEW v, NEW f
  PROVE  <<v, f>> \in Receivers <=> v \in Value /\ f \in Function /\ Suits(v, f)
BY DEF Receivers

LEMMA LaterPair ==
  ASSUME NEW v \in Value, NEW f \in Function, Suits(v, f)'
  PROVE  <<v, f>> \in Receivers'
BY DEF Receivers

(* Instances, superclasses and declarations only come.                     *)
Grown ==
  /\ klass \in [Instance -> Class \cup {Absent}] /\ klass' \in [Instance -> Class \cup {Absent}]
  /\ lineage \in [Class -> SUBSET Class] /\ lineage' \in [Class -> SUBSET Class]
  /\ \A v \in Instance : klass[v] # Absent => klass'[v] = klass[v]
  /\ \A c \in Class : superOf[c] \in Class => superOf'[c] \in Class
  /\ \A c \in Class : lineage[c] \subseteq lineage'[c]
  /\ declared \subseteq declared'

LEMMA ReceiversGrow ==
  ASSUME Grown
  PROVE  Receivers \subseteq Receivers'
<1> SUFFICES ASSUME NEW v \in Value, NEW f \in Function, Suits(v, f) PROVE Suits(v, f)'
  BY DEF Receivers
<1>1. CASE Owner[f] = Absent
  BY <1>1 DEF Suits
<1>2. CASE Owner[f] # Absent
  <2>1. /\ v \in Instance /\ klass[v] # Absent /\ Owner[f] \in lineage[klass[v]]
        /\ Started(Owner[f]) /\ Owner[f] \in Class
    BY <1>2, CodeAssumption DEF Suits, Fits
  <2>2. klass'[v] = klass[v] /\ klass[v] \in Class
    BY <2>1 DEF Grown
  <2>3. Owner[f] \in lineage'[klass'[v]]
    BY <2>1, <2>2 DEF Grown
  <2>4. Started(Owner[f])'
    BY <2>1 DEF Started, Grown
  <2>5. QED
    BY <2>1, <2>2, <2>3, <2>4 DEF Suits, Fits
<1>3. QED
  BY <1>1, <1>2

LEMMA GoodGrows ==
  ASSUME Grown
  PROVE  Good \subseteq Good'
<1> SUFFICES ASSUME NEW v \in Good PROVE v \in Good'
  OBVIOUS
<1> USE DEF Good
<1>1. v \in Value /\ (v \in Function => Owner[v] = Absent)
  OBVIOUS
<1>2. v \in Bound => Owner[v.method] # Absent /\ <<v.receiver, v.method>> \in Receivers'
  BY ReceiversGrow
<1>3. v \in Class => v \in declared'
  BY DEF Grown
<1>4. v \in Instance => klass'[v] # Absent
  BY DEF Grown
<1>5. QED
  BY <1>1, <1>2, <1>3, <1>4

LEMMA UnchangedGrows ==
  ASSUME Typed, TypedClasses, UNCHANGED klass, UNCHANGED classes
  PROVE  Grown /\ Good' = Good /\ Receivers' = Receivers
BY DEF Typed, TypedClasses, Grown, Good, Receivers, Suits, Fits, Started, classes

-------------------------------------------------------------------------------
(* What instructions do to the stack.                                      *)

(* The machine after a step, with values and receivers as before.          *)
Moved ==
  /\ Layout(stack', frames', shapes', Good, Receivers)
  /\ Len(stack') <= StackMax /\ Len(frames') <= FrameMax

LEMMA RunningFrame ==
  ASSUME IInv, frames # <<>>
  PROVE  /\ stack \in Seq(Good) /\ Len(stack) \in Nat
         /\ frames \in Seq(FrameRecord) /\ Len(frames) \in Nat \ {0}
         /\ shapes \in Seq(Seq(Kind)) /\ Len(shapes) = Len(frames)
         /\ Frame = frames[Len(frames)] /\ Frame \in FrameRecord /\ Frame.slots \in Nat \ {0}
         /\ Shape = shapes[Len(frames)] /\ Shape \in Seq(Kind) /\ Len(Shape) \in Nat \ {0}
         /\ Shape[1] = "callee"
         /\ Len(stack) = Frame.slots + Len(Shape) - 1
         /\ Frame.slots \in 1 .. Len(stack) /\ stack[Frame.slots] \in Good
<1>1. Layout(stack, frames, shapes, Good, Receivers)
  BY DEF IInv
<1>2. /\ stack \in Seq(Good) /\ frames \in Seq(FrameRecord) /\ shapes \in Seq(Seq(Kind))
      /\ Len(frames) \in Nat \ {0} /\ Len(shapes) = Len(frames)
      /\ frames[Len(frames)] \in FrameRecord /\ frames[Len(frames)].slots \in Nat \ {0}
      /\ shapes[Len(frames)] \in Seq(Kind) /\ Len(shapes[Len(frames)]) \in Nat \ {0}
      /\ shapes[Len(frames)][1] = "callee" /\ Len(stack) \in Nat
      /\ Len(stack) = frames[Len(frames)].slots + Len(shapes[Len(frames)]) - 1
      /\ frames[Len(frames)].slots \in 1 .. Len(stack)
  BY <1>1, LayoutOfRunning
<1>3. Frame = frames[Len(frames)] /\ Shape = shapes[Len(frames)]
  BY <1>2 DEF Frame, Shape, Last
<1>4. stack[Frame.slots] \in Good
  BY <1>2, <1>3
<1>5. QED
  BY <1>2, <1>3, <1>4

(* The operands of an instruction are values.                              *)
LEMMA PeekGood ==
  ASSUME IInv, frames # <<>>, NEW k \in Nat, k < Len(Shape)
  PROVE  Peek(k) \in Good /\ Len(stack) - k \in 1 .. Len(stack)
<1> DEFINE wide == Len(Shape)
           base == Frame.slots
           high == Len(stack)
<1>1. /\ wide \in Nat \ {0} /\ base \in Nat \ {0} /\ high \in Nat /\ high = base + wide - 1
      /\ stack \in Seq(Good) /\ k < wide
  BY RunningFrame
<1> HIDE DEF wide, base, high
<1>2. high - k \in 1 .. high
  BY <1>1
<1>3. stack[high - k] \in Good
  BY <1>1, <1>2 DEF high
<1>4. QED
  BY <1>2, <1>3 DEF Peek, high

LEMMA ComputeMoves ==
  ASSUME IInv, frames # <<>>, NEW k \in Nat, k < Len(Shape), NEW v \in Good, Compute(k, v)
  PROVE  Moved
<1>1. /\ stack' = Append(SubSeq(stack, 1, Len(stack) - k), v) /\ Len(stack) - k < StackMax
      /\ shapes' = [shapes EXCEPT ![Len(shapes)] =
                      Append(SubSeq(@, 1, Len(@) - k), "operand")]
      /\ frames' = frames
  BY DEF Compute, Replace, Result
<1>2. Layout(stack', frames', shapes', Good, Receivers)
  <2>1. k < Len(shapes[Len(frames)]) /\ "operand" \in Kind
    BY RunningFrame DEF Kind
  <2>2. Layout(stack, frames, shapes, Good, Receivers)
    BY DEF IInv
  <2>3. Layout(Append(SubSeq(stack, 1, Len(stack) - k), v), frames,
               [shapes EXCEPT ![Len(shapes)] = Append(SubSeq(@, 1, Len(@) - k), "operand")],
               Good, Receivers)
    BY <2>1, <2>2, LayoutOfReplace
  <2>4. QED
    BY <2>3, <1>1
<1>3. Len(stack') <= StackMax
  <2>1. Len(stack) - k \in 0 .. Len(stack) /\ stack \in Seq(Good) /\ Len(stack) \in Nat
    BY PeekGood, RunningFrame
  <2>2. /\ SubSeq(stack, 1, Len(stack) - k) \in Seq(Good)
        /\ Len(SubSeq(stack, 1, Len(stack) - k)) = Len(stack) - k
    BY <2>1, SubSeqProperties
  <2>3. Len(stack') = Len(stack) - k + 1
    BY <2>2, <1>1, AppendProperties
  <2>4. QED
    BY <2>1, <2>3, <1>1, BoundsAssumption
<1>4. QED
  BY <1>1, <1>2, <1>3 DEF Moved, IInv, Typed

LEMMA ErrorMoves ==
  ASSUME RuntimeError PROVE Moved
BY LayoutOfNothing, BoundsAssumption DEF RuntimeError, Moved

LEMMA StayMoves ==
  ASSUME IInv, UNCHANGED machine PROVE Moved
BY DEF IInv, Typed, Moved, machine

(* A loaded `this' is slot 0.                                              *)
LEMMA ThisMoves ==
  ASSUME IInv, GetThis PROVE Moved
<1>1. /\ stack' = Append(SubSeq(stack, 1, Len(stack) - 0), stack[Frame.slots])
      /\ Len(stack) - 0 < StackMax /\ frames # <<>> /\ frames' = frames
      /\ shapes' = [shapes EXCEPT ![Len(shapes)] = Append(SubSeq(@, 1, Len(@) - 0), "this")]
  BY DEF GetThis, InCode, Replace, Result
<1>2. /\ 0 < Len(shapes[Len(frames)]) /\ "this" \in Kind /\ stack[Frame.slots] \in Good
      /\ stack[Frame.slots] = stack[frames[Len(frames)].slots]
  BY <1>1, RunningFrame DEF Kind
<1>3. Layout(stack, frames, shapes, Good, Receivers)
  BY DEF IInv
<1>4. Layout(stack', frames', shapes', Good, Receivers)
  BY <1>1, <1>2, <1>3, LayoutOfReplace
<1>5. Len(stack') <= StackMax
  <2>1. stack \in Seq(Good) /\ Len(stack) \in Nat
    BY <1>1, RunningFrame
  <2>2. /\ SubSeq(stack, 1, Len(stack) - 0) \in Seq(Good)
        /\ Len(SubSeq(stack, 1, Len(stack) - 0)) = Len(stack)
    BY <2>1, SubSeqProperties
  <2>3. Len(stack') = Len(stack) + 1
    BY <2>2, <1>1, <1>2, AppendProperties
  <2>4. QED
    BY <2>1, <2>3, <1>1, BoundsAssumption
<1>6. QED
  BY <1>1, <1>4, <1>5 DEF Moved, IInv, Typed

(* One slot is dropped.                                                    *)
LEMMA DropMoves ==
  ASSUME IInv, frames # <<>>, 1 < Len(Shape), stack' = Front(stack), frames' = frames,
         shapes' = [shapes EXCEPT ![Len(shapes)] = Front(@)]
  PROVE  Moved
<1>1. /\ stack' = SubSeq(stack, 1, Len(stack) - 1)
      /\ shapes' = [shapes EXCEPT ![Len(shapes)] = SubSeq(@, 1, Len(@) - 1)]
  BY DEF Front
<1>2. 1 < Len(shapes[Len(frames)])
  BY RunningFrame
<1>3. Layout(stack, frames, shapes, Good, Receivers)
  BY DEF IInv
<1>4. Layout(stack', frames', shapes', Good, Receivers)
  <2>1. 1 \in Nat
    OBVIOUS
  <2>2. Layout(SubSeq(stack, 1, Len(stack) - 1), frames,
               [shapes EXCEPT ![Len(shapes)] = SubSeq(@, 1, Len(@) - 1)], Good, Receivers)
    BY <2>1, <1>2, <1>3, LayoutOfDrop
  <2>3. QED
    BY <2>2, <1>1
<1>5. Len(stack') <= StackMax
  <2>1. stack \in Seq(Good) /\ Len(stack) \in Nat /\ Len(stack) <= StackMax
        /\ Frame.slots \in 1 .. Len(stack)
    BY RunningFrame DEF IInv, Typed
  <2>2. Len(stack') = Len(stack) - 1
    <3>1. Len(stack) - 1 \in 0 .. Len(stack)
      BY <2>1
    <3> DEFINE top == Len(stack) - 1
    <3>2. top \in 0 .. Len(stack)
      BY <3>1
    <3> HIDE DEF top
    <3>3. Len(SubSeq(stack, 1, top)) = top
      BY <2>1, <3>2, SubSeqProperties
    <3>4. QED
      BY <3>3, <1>1 DEF top
  <2>3. QED
    BY <2>1, <2>2, BoundsAssumption
<1>6. QED
  BY <1>4, <1>5 DEF Moved, IInv, Typed

LEMMA StoreMoves ==
  ASSUME IInv, Steady, SetLocal PROVE Moved
<1>1. frames # <<>> /\ Operands(1) /\ frames' = frames /\ shapes' = shapes
  BY DEF SetLocal, InCode
<1>2. PICK i \in DOMAIN Shape : /\ Shape[i] \in {"local", "captured"}
                               /\ stack' = [stack EXCEPT ![Frame.slots + i - 1] = Peek(0)]
  BY DEF SetLocal, Steady, Variables
<1>3. /\ i \in 1 .. Len(shapes[Len(frames)]) /\ shapes[Len(frames)][i] \in {"local", "captured"}
      /\ stack' = [stack EXCEPT ![frames[Len(frames)].slots + i - 1] = Peek(0)]
  <2>1. Frame = frames[Len(frames)] /\ Shape = shapes[Len(frames)] /\ Shape \in Seq(Kind)
    BY <1>1, RunningFrame
  <2>2. DOMAIN Shape = 1 .. Len(Shape)
    BY <2>1
  <2>3. QED
    BY <1>2, <2>1, <2>2
<1>4. Peek(0) \in Good
  BY <1>1, PeekGood, RunningFrame
<1>5. Layout(stack, frames, shapes, Good, Receivers)
  BY DEF IInv
<1>6. Layout(stack', frames', shapes', Good, Receivers)
  BY <1>1, <1>3, <1>4, <1>5, LayoutOfStore
<1>7. Len(stack') = Len(stack)
  BY <1>1, <1>2, RunningFrame
<1>8. QED
  BY <1>1, <1>6, <1>7 DEF Moved, IInv, Typed

(* The running frame's slots get other names, and a value may be pushed.   *)
LEMMA ShapeMoves ==
  ASSUME IInv, frames # <<>>, NEW shape \in Seq(Kind), shape # <<>>, shape[1] = "callee",
         stack' \in Seq(Good), Len(stack') = Frame.slots + Len(shape) - 1,
         Len(stack') <= StackMax,
         \A p \in 1 .. Frame.slots : stack'[p] = stack[p],
         \A j \in 1 .. Len(shape) : shape[j] = "this" =>
           stack'[Frame.slots + j - 1] = stack[Frame.slots],
         frames' = frames, shapes' = [shapes EXCEPT ![Len(shapes)] = shape]
  PROVE  Moved
<1>1. Layout(stack, frames, shapes, Good, Receivers)
  BY DEF IInv
<1>2. Frame = frames[Len(frames)]
  BY RunningFrame
<1>3. Layout(stack', frames, [shapes EXCEPT ![Len(shapes)] = shape], Good, Receivers)
  BY <1>1, <1>2, LayoutOfTop
<1>4. QED
  BY <1>3 DEF Moved, IInv, Typed

(* `this' on the stack is slot 0.                                          *)
LEMMA ThisSlots ==
  ASSUME IInv, frames # <<>>, NEW j \in 1 .. Len(Shape), Shape[j] = "this"
  PROVE  stack[Frame.slots + j - 1] = stack[Frame.slots]
<1>1. Filled(stack, frames, shapes, Receivers)
  BY DEF IInv, Layout
<1>2. Frame = frames[Len(frames)] /\ Shape = shapes[Len(frames)] /\ Len(frames) \in 1 .. Len(frames)
  BY RunningFrame
<1>3. QED
  BY <1>1, <1>2 DEF Filled

(* The operand is the value of a variable now.                             *)
LEMMA DeclareMoves ==
  ASSUME IInv, Declare PROVE Moved
<1>1. /\ frames # <<>> /\ Operands(1) /\ stack' = stack /\ frames' = frames
      /\ shapes' = [shapes EXCEPT ![Len(shapes)] = Append(Front(@), "local")]
  BY DEF Declare, InCode
<1>2. /\ Shape \in Seq(Kind) /\ Len(Shape) \in Nat \ {0} /\ Shape[1] = "callee"
      /\ Shape = shapes[Len(shapes)] /\ 1 < Len(Shape) /\ Len(shapes) \in DOMAIN shapes
      /\ stack \in Seq(Good) /\ Len(stack) = Frame.slots + Len(Shape) - 1
  BY <1>1, RunningFrame DEF Operands
<1>3. PICK shape : shape = Append(Front(Shape), "local")
  OBVIOUS
<1>4. /\ shape \in Seq(Kind) /\ Len(shape) = Len(Shape) /\ shape[Len(Shape)] = "local"
      /\ \A j \in 1 .. Len(Shape) - 1 : shape[j] = Shape[j]
  <2>1. PICK top \in Nat : top = Len(Shape) - 1
    BY <1>2
  <2>2. top \in 0 .. Len(Shape) /\ Front(Shape) = SubSeq(Shape, 1, top)
    BY <1>2, <2>1 DEF Front
  <2>3. PICK front : front = SubSeq(Shape, 1, top)
    OBVIOUS
  <2>4. front \in Seq(Kind) /\ Len(front) = top /\ \A j \in 1 .. top : front[j] = Shape[j]
    BY <1>2, <2>2, <2>3, SubSeqProperties
  <2>5. "local" \in Kind
    BY DEF Kind
  <2>6. /\ Append(front, "local") \in Seq(Kind) /\ Len(Append(front, "local")) = Len(front) + 1
        /\ \A j \in 1 .. Len(front) : Append(front, "local")[j] = front[j]
        /\ Append(front, "local")[Len(front) + 1] = "local"
    BY <2>4, <2>5, AppendProperties
  <2>7. shape = Append(front, "local")
    BY <1>3, <2>2, <2>3
  <2>8. top + 1 = Len(Shape)
    BY <1>2, <2>1
  <2>9. QED
    BY <2>1, <2>4, <2>6, <2>7, <2>8
<1>5. shapes' = [shapes EXCEPT ![Len(shapes)] = shape]
  BY <1>1, <1>2, <1>3
<1>6. shape # <<>> /\ shape[1] = "callee"
  BY <1>2, <1>4
<1>7. ASSUME NEW j \in 1 .. Len(shape), shape[j] = "this"
      PROVE  stack'[Frame.slots + j - 1] = stack[Frame.slots]
  <2>1. j \in 1 .. Len(Shape) - 1
    BY <1>2, <1>4, <1>7
  <2>2. j \in 1 .. Len(Shape) /\ Shape[j] = "this"
    BY <1>2, <1>4, <1>7, <2>1
  <2>3. QED
    BY <1>1, <2>2, ThisSlots
<1>8. Len(stack') <= StackMax
  BY <1>1 DEF IInv, Typed
<1>9. QED
  BY <1>1, <1>2, <1>4, <1>5, <1>6, <1>7, <1>8, ShapeMoves

(* A closure is pushed, and the variables it captures are marked.          *)
LEMMA ClosureMoves ==
  ASSUME IInv, Closure PROVE Moved
<1>1. frames # <<>> /\ frames' = frames
  BY DEF Closure, InCode
<1>2. PICK f \in Function : Owner[f] = Absent /\ Replace(0, f)
  BY DEF Closure
<1>3. PICK captures \in SUBSET (Variables \cup {Len(Shape) + 1}) :
        shapes' = [shapes EXCEPT ![Len(shapes)] =
                     [i \in 1 .. Len(@) + 1 |->
                        IF i \in captures THEN "captured"
                        ELSE IF i \in DOMAIN @ THEN @[i] ELSE "local"]]
  BY DEF Closure
<1>4. /\ Shape \in Seq(Kind) /\ Len(Shape) \in Nat \ {0} /\ Shape[1] = "callee"
      /\ Shape = shapes[Len(shapes)] /\ Len(shapes) \in DOMAIN shapes
      /\ stack \in Seq(Good) /\ Len(stack) \in Nat /\ Len(stack) = Frame.slots + Len(Shape) - 1
      /\ Frame.slots \in 1 .. Len(stack) /\ DOMAIN Shape = 1 .. Len(Shape)
      /\ Frame.slots \in Nat \ {0}
  BY <1>1, RunningFrame
<1>5. PICK shape : shape = [i \in 1 .. Len(Shape) + 1 |->
                              IF i \in captures THEN "captured"
                              ELSE IF i \in DOMAIN Shape THEN Shape[i] ELSE "local"]
  OBVIOUS
<1>6. shapes' = [shapes EXCEPT ![Len(shapes)] = shape]
  BY <1>3, <1>4, <1>5
<1>7. /\ shape \in Seq(Kind) /\ Len(shape) = Len(Shape) + 1 /\ shape # <<>>
      /\ \A j \in 1 .. Len(shape) : shape[j] = "this" => j \in DOMAIN Shape /\ Shape[j] = "this"
  <2>1. \A i \in 1 .. Len(Shape) + 1 : shape[i] \in Kind
    BY <1>4, <1>5 DEF Kind
  <2>2. shape \in [1 .. Len(Shape) + 1 -> Kind]
    BY <1>5, <2>1
  <2>3. shape \in Seq(Kind) /\ Len(shape) = Len(Shape) + 1
    BY <1>4, <2>2
  <2>4. shape # <<>>
    BY <1>4, <2>3
  <2>5. QED
    BY <1>5, <2>3, <2>4
<1>8. shape[1] = "callee"
  <2>1. 1 \notin Variables
    BY <1>4 DEF Variables
  <2>2. 1 \notin captures /\ 1 \in DOMAIN Shape /\ 1 \in 1 .. Len(Shape) + 1
    BY <1>4, <2>1
  <2>3. QED
    BY <1>4, <1>5, <2>2
<1>9. f \in Good
  BY <1>2, GoodValues
<1>10. stack' = Append(SubSeq(stack, 1, Len(stack)), f) /\ Len(stack) < StackMax
  BY <1>2, <1>4 DEF Replace
<1>11. /\ stack' \in Seq(Good) /\ Len(stack') = Len(stack) + 1
       /\ \A p \in 1 .. Len(stack) : stack'[p] = stack[p]
  <2>1. PICK kept : kept = SubSeq(stack, 1, Len(stack))
    OBVIOUS
  <2>2. Len(stack) \in 0 .. Len(stack)
    BY <1>4
  <2>3. /\ kept \in Seq(Good) /\ Len(kept) = Len(stack)
        /\ \A p \in 1 .. Len(stack) : kept[p] = stack[p]
    BY <1>4, <2>1, <2>2, SubSeqProperties
  <2>4. QED
    BY <1>9, <1>10, <2>1, <2>3, AppendProperties
<1>12. Len(stack') <= StackMax /\ Len(stack') = Frame.slots + Len(shape) - 1
  BY <1>4, <1>7, <1>10, <1>11, BoundsAssumption
<1>13. \A p \in 1 .. Frame.slots : stack'[p] = stack[p]
  BY <1>4, <1>11
<1>14. ASSUME NEW j \in 1 .. Len(shape), shape[j] = "this"
       PROVE  stack'[Frame.slots + j - 1] = stack[Frame.slots]
  <2>1. j \in 1 .. Len(Shape) /\ Shape[j] = "this"
    BY <1>4, <1>7, <1>14
  <2>2. stack[Frame.slots + j - 1] = stack[Frame.slots]
    BY <1>1, <2>1, ThisSlots
  <2>3. Frame.slots + j - 1 \in 1 .. Len(stack)
    BY <1>4, <2>1
  <2>4. QED
    BY <1>11, <2>2, <2>3
<1>15. QED
  BY <1>1, <1>6, <1>7, <1>8, <1>11, <1>12, <1>13, <1>14, ShapeMoves

(* What an open upvalue refers to.                                         *)
LEMMA CapturedSlots ==
  ASSUME IInv, NEW c \in Captured
  PROVE  /\ c[1] \in 1 .. Len(frames) /\ c[2] \in 1 .. Len(shapes[c[1]])
         /\ shapes[c[1]][c[2]] = "captured"
         /\ frames[c[1]].slots + c[2] - 1 \in 1 .. Len(stack)
         /\ c[1] < Len(frames) =>
              frames[c[1]].slots + c[2] - 1 < frames[c[1] + 1].slots
         /\ \A v \in Good : Layout([stack EXCEPT ![frames[c[1]].slots + c[2] - 1] = v],
                                   frames, shapes, Good, Receivers)
<1>1. PICK i \in DOMAIN shapes, j \in 1 .. StackMax :
        c = <<i, j>> /\ j \in DOMAIN shapes[i] /\ shapes[i][j] = "captured"
  <2>1. c \in (DOMAIN shapes) \X (1 .. StackMax) /\ c = <<c[1], c[2]>>
    BY DEF Captured
  <2>2. QED
    BY <2>1 DEF Captured
<1>2. Layout(stack, frames, shapes, Good, Receivers)
  BY DEF IInv
<1>3. shapes \in Seq(Seq(Kind)) /\ Len(shapes) = Len(frames)
  BY <1>2 DEF Layout, Placed
<1>4. i \in 1 .. Len(frames) /\ j \in 1 .. Len(shapes[i])
  <2>1. i \in 1 .. Len(frames) /\ shapes[i] \in Seq(Kind)
    BY <1>1, <1>3
  <2>2. QED
    BY <1>1, <2>1
<1>5. ASSUME NEW v \in Good
      PROVE  /\ frames[i].slots + j - 1 \in 1 .. Len(stack)
             /\ i < Len(frames) => frames[i].slots + j - 1 < frames[i + 1].slots
             /\ Layout([stack EXCEPT ![frames[i].slots + j - 1] = v],
                       frames, shapes, Good, Receivers)
  BY <1>1, <1>2, <1>4, LayoutOfAssign
<1>6. PICK v \in Good : TRUE
  BY GoodValues
<1>7. c[1] = i /\ c[2] = j
  BY <1>1
<1>8. QED
  BY <1>1, <1>4, <1>5, <1>6, <1>7

LEMMA AssignMoves ==
  ASSUME IInv, frames # <<>>, NEW c \in Captured, NEW v \in Good,
         stack' = [stack EXCEPT ![frames[c[1]].slots + c[2] - 1] = v],
         frames' = frames, shapes' = shapes
  PROVE  Moved
<1>1. Layout(stack', frames', shapes', Good, Receivers)
  BY CapturedSlots
<1>2. Len(stack') = Len(stack)
  BY RunningFrame
<1>3. QED
  BY <1>1, <1>2 DEF Moved, IInv, Typed

LEMMA ReturnMoves ==
  ASSUME IInv, Return PROVE Moved
<1>1. /\ frames # <<>> /\ Len(frames) > 1
      /\ frames' = SubSeq(frames, 1, Len(frames) - 1) /\ shapes' = SubSeq(shapes, 1, Len(shapes) - 1)
      /\ stack' = Append(SubSeq(stack, 1, frames[Len(frames)].slots - 1),
                         IF IsInit(Frame.closure) THEN stack[Frame.slots] ELSE Peek(0))
  BY RunningFrame DEF Return, InCode, Front
<1> DEFINE v == IF IsInit(Frame.closure) THEN stack[Frame.slots] ELSE Peek(0)
<1>2. v \in Good
  BY <1>1, PeekGood, RunningFrame
<1> HIDE DEF v
<1>3. Layout(stack, frames, shapes, Good, Receivers)
  BY DEF IInv
<1>4. Layout(stack', frames', shapes', Good, Receivers)
  BY <1>1, <1>2, <1>3, LayoutOfReturn DEF v
<1>5. Len(stack') <= StackMax /\ Len(frames') <= FrameMax
  <2>1. /\ stack \in Seq(Good) /\ Len(stack) \in Nat /\ Len(stack) <= StackMax
        /\ frames[Len(frames)].slots \in 1 .. Len(stack)
        /\ frames \in Seq(FrameRecord) /\ Len(frames) <= FrameMax
    BY <1>1, RunningFrame DEF IInv, Typed
  <2>2. Len(stack') = frames[Len(frames)].slots
    <3> DEFINE base == frames[Len(frames)].slots
               kept == SubSeq(stack, 1, base - 1)
    <3>1. stack' = Append(kept, v) /\ base \in 1 .. Len(stack)
      BY <1>1, <2>1 DEF v
    <3> HIDE DEF base
    <3>2. kept \in Seq(Good) /\ Len(kept) = base - 1
      BY <2>1, <3>1, SubSeqProperties
    <3> HIDE DEF kept
    <3>3. Len(stack') = Len(kept) + 1
      BY <1>2, <3>1, <3>2, AppendProperties
    <3>4. QED
      BY <2>1, <3>1, <3>2, <3>3 DEF base
  <2>3. Len(frames') = Len(frames) - 1
    BY <1>1, <2>1, SubSeqProperties
  <2>4. QED
    BY <2>1, <2>2, <2>3, BoundsAssumption
<1>6. QED
  BY <1>4, <1>5 DEF Moved

LEMMA ReturnScriptMoves ==
  ASSUME IInv, ReturnScript PROVE Moved
<1>1. frames # <<>> /\ Len(frames) = 1 /\ frames' = <<>> /\ shapes' = <<>>
      /\ Shape = <<"callee">> /\ stack' = SubSeq(stack, 1, Len(stack) - 1)
  BY DEF ReturnScript, InCode, Front
<1>2. Frame.slots = 1 /\ Frame = frames[1]
  BY <1>1, RunningFrame DEF IInv, Layout, Placed
<1>3. Len(stack) = 1
  BY <1>1, <1>2, RunningFrame
<1>4. stack' = <<>>
  BY <1>1, <1>3, RunningFrame, SubSeqProperties, EmptySeq
<1>5. RuntimeError
  BY <1>1, <1>4 DEF RuntimeError
<1>6. QED
  BY <1>5, ErrorMoves

LEMMA InterpretMoves ==
  ASSUME IInv, Interpret PROVE Moved
<1>1. stack = <<>>
  BY DEF Interpret, IInv, Layout, Placed
<1>2. /\ stack' = <<Script>> /\ shapes' = << <<"callee">> >>
      /\ frames' = <<[closure |-> Script, slots |-> 1, made |-> Absent]>>
  BY <1>1 DEF Interpret
<1>3. Layout(stack', frames', shapes', Good, Receivers)
  BY <1>2, LayoutOfScript, GoodValues
<1>4. Len(stack') = 1 /\ Len(frames') = 1
  BY <1>2
<1>5. QED
  BY <1>3, <1>4, BoundsAssumption DEF Moved

-------------------------------------------------------------------------------
(* Calls.                                                                  *)

(* The machine after a step that may have made an instance.                *)
Called ==
  /\ Grown /\ Layout(stack', frames', shapes', Good', Receivers')
  /\ Len(stack') <= StackMax /\ Len(frames') <= FrameMax

LEMMA MovedCalled ==
  ASSUME IInv, Moved, UNCHANGED klass, UNCHANGED classes
  PROVE  Called
BY UnchangedGrows DEF IInv, Classes, Moved, Called

LEMMA EnterCalls ==
  ASSUME IInv, frames # <<>>, Len(frames) < FrameMax, Grown,
         NEW argc \in Nat, argc + 1 < Len(Shape),
         NEW f \in Function, NEW slot0 \in Good', NEW made \in Instance \cup {Absent},
         <<slot0, f>> \in Receivers', made # Absent => slot0 = made /\ IsInit(f),
         Enter(f, argc, slot0, made)
  PROVE  Called
<1>1. /\ stack' = [stack EXCEPT ![Len(stack) - argc] = slot0]
      /\ frames' = Append(frames, [closure |-> f, slots |-> Len(stack) - argc, made |-> made])
      /\ shapes' = Append([shapes EXCEPT ![Len(shapes)] =
                            Append(SubSeq(@, 1, Len(@) - (argc + 1)), "operand")],
                         <<"callee">> \o [i \in 1 .. argc |-> "local"])
  BY DEF Enter, Result
<1>2. Layout(stack, frames, shapes, Good', Receivers')
  BY GoodGrows, ReceiversGrow, LayoutGrows DEF IInv
<1>3. argc + 1 < Len(shapes[Len(frames)])
  BY RunningFrame
<1>4. Layout(stack', frames', shapes', Good', Receivers')
  BY <1>1, <1>2, <1>3, LayoutOfEnter
<1>5. Len(stack') = Len(stack) /\ Len(frames') = Len(frames) + 1
  BY <1>1, RunningFrame, AppendProperties
<1>6. Len(stack) <= StackMax /\ Len(frames) \in Nat
  BY RunningFrame DEF IInv, Typed
<1>7. QED
  BY <1>4, <1>5, <1>6, BoundsAssumption DEF Called

(* An instance is made for a class without an initializer.                 *)
LEMMA PlainInstance ==
  ASSUME IInv, frames # <<>>, 1 < Len(Shape), Grown, NEW new \in Good',
         stack' = [stack EXCEPT ![Len(stack)] = new], shapes' = Result(1, "operand"),
         frames' = frames
  PROVE  Called
<1>1. Layout(stack, frames, shapes, Good', Receivers')
  BY GoodGrows, ReceiversGrow, LayoutGrows DEF IInv
<1>2. stack \in Seq(Good') /\ Len(stack) \in Nat \ {0}
  <2>1. stack \in Seq(Good') /\ Len(stack) \in Nat /\ Frame.slots \in 1 .. Len(stack)
    BY <1>1, RunningFrame DEF Layout
  <2>2. QED
    BY <2>1
<1>3. stack' = Append(SubSeq(stack, 1, Len(stack) - 1), new)
  <2> DEFINE kept == SubSeq(stack, 1, Len(stack) - 1)
  <2>1. kept \in Seq(Good') /\ Len(kept) = Len(stack) - 1
        /\ \A p \in 1 .. Len(stack) - 1 : kept[p] = stack[p]
    <3> DEFINE top == Len(stack) - 1
    <3>1. top \in Nat /\ \A p \in 1 .. top : stack[p] \in Good'
      BY <1>2
    <3> HIDE DEF top
    <3>2. /\ SubSeq(stack, 1, top) \in Seq(Good') /\ Len(SubSeq(stack, 1, top)) = top
          /\ \A p \in 1 .. top : SubSeq(stack, 1, top)[p] = stack[p]
      BY <3>1, SubSeqProperties
    <3>3. QED
      BY <3>2 DEF top
  <2> HIDE DEF kept
  <2>2. /\ Append(kept, new) \in Seq(Good') /\ Len(Append(kept, new)) = Len(stack)
        /\ \A p \in 1 .. Len(stack) - 1 : Append(kept, new)[p] = stack[p]
        /\ Append(kept, new)[Len(stack)] = new
    BY <1>2, <2>1, AppendProperties
  <2>3. /\ stack' \in Seq(Good') /\ Len(stack') = Len(stack)
        /\ \A p \in 1 .. Len(stack) - 1 : stack'[p] = stack[p]
        /\ stack'[Len(stack)] = new
    BY <1>2
  <2>4. \A p \in 1 .. Len(stack) : stack'[p] = Append(kept, new)[p]
    <3> SUFFICES ASSUME NEW p \in 1 .. Len(stack) PROVE stack'[p] = Append(kept, new)[p]
      OBVIOUS
    <3>1. CASE p = Len(stack)
      BY <3>1, <2>2, <2>3
    <3>2. CASE p # Len(stack)
      <4>1. p \in 1 .. Len(stack) - 1
        BY <3>2, <1>2
      <4>2. QED
        BY <4>1, <2>2, <2>3
    <3>3. QED
      BY <3>1, <3>2
  <2>5. stack' = Append(kept, new)
    BY <2>2, <2>3, <2>4, SeqEqual
  <2>6. QED
    BY <2>5 DEF kept
<1>4. /\ 1 < Len(shapes[Len(frames)]) /\ "operand" \in Kind /\ 1 \in Nat
      /\ shapes' = [shapes EXCEPT ![Len(shapes)] = Append(SubSeq(@, 1, Len(@) - 1), "operand")]
  BY RunningFrame DEF Kind, Result
<1>5. Layout(Append(SubSeq(stack, 1, Len(stack) - 1), new), frames,
             [shapes EXCEPT ![Len(shapes)] = Append(SubSeq(@, 1, Len(@) - 1), "operand")],
             Good', Receivers')
  BY <1>1, <1>4, LayoutOfReplace
<1>6. Layout(stack', frames', shapes', Good', Receivers')
  BY <1>3, <1>4, <1>5
<1>7. Len(stack') = Len(stack)
  BY <1>2
<1>8. QED
  BY <1>6, <1>7 DEF Called, IInv, Typed

LEMMA InstantiateCalls ==
  ASSUME IInv, Steady, frames # <<>>, Len(frames) < FrameMax, UNCHANGED classes,
         NEW argc \in Nat, argc + 1 < Len(Shape), NEW c \in Class, Instantiate(c, argc)
  PROVE  Called
<1> DEFINE init == methods[c][Initializer]
<1>1. CASE RuntimeError /\ UNCHANGED klass
  BY <1>1, ErrorMoves, MovedCalled
<1>2. CASE ~(RuntimeError /\ UNCHANGED klass)
  <2>1. PICK new \in Instance :
          /\ klass[new] = Absent
          /\ klass' = [klass EXCEPT ![new] = c]
          /\ IF init # Absent THEN Enter(init, argc, new, new)
             ELSE /\ argc > 0 => "arguments" \in Strays
                  /\ stack'  = [stack EXCEPT ![Len(stack)] = new]
                  /\ shapes' = Result(argc + 1, "operand")
                  /\ UNCHANGED frames
    BY <1>2 DEF Instantiate
  <2>2. Typed /\ TypedClasses /\ Inherited
    BY DEF IInv, Classes
  <2>3. Grown
    BY <2>1, <2>2 DEF Grown, Typed, TypedClasses, classes
  <2>4. klass'[new] = c /\ klass' \in [Instance -> Class \cup {Absent}]
    BY <2>1, <2>2 DEF Typed
  <2>5. new \in Good'
    BY <2>4, Distinct DEF Good
  <2>6. CASE init # Absent
    <3>1. Initializer \in Name
      BY BoundsAssumption
    <3>2. PICK f \in Function : f = init
      BY <2>2, <2>6, <3>1 DEF TypedClasses
    <3>3. /\ Owner[f] \in lineage[c] /\ Started(Owner[f])
          /\ \E i \in DOMAIN Declares[Owner[f]] :
               Declares[Owner[f]][i] = [name |-> Initializer, method |-> f]
      BY <2>2, <2>6, <3>1, <3>2 DEF Inherited
    <3>4. Enter(f, argc, new, new)
      BY <2>1, <2>6, <3>2
    <3> HIDE DEF init
    <3>5. Owner[f] \in Class
      BY <2>2, <3>3 DEF TypedClasses
    <3>6. IsInit(f)
      BY <3>3, <3>5 DEF IsInit
    <3>7. Suits(new, f)'
      <4>1. Fits(new, f)'
        BY <3>3, <2>4, Distinct DEF Fits, classes
      <4>2. Started(Owner[f])'
        BY <3>3, <3>5 DEF Started, classes
      <4>3. QED
        BY <4>1, <4>2 DEF Suits
    <3>8. <<new, f>> \in Receivers'
      BY <3>7, Distinct, LaterPair
    <3>9. QED
      BY <2>3, <2>5, <3>4, <3>6, <3>8, EnterCalls
  <2>7. CASE init = Absent
    <3>1. argc = 0
      BY <2>1, <2>7 DEF Steady
    <3>2. /\ stack'  = [stack EXCEPT ![Len(stack)] = new] /\ frames' = frames
          /\ shapes' = Result(1, "operand") /\ 1 < Len(Shape)
      BY <2>1, <2>7, <3>1
    <3>3. QED
      BY <2>3, <2>5, <3>2, PlainInstance
  <2>8. QED
    BY <2>6, <2>7
<1>3. QED
  BY <1>1, <1>2

LEMMA CallValueCalls ==
  ASSUME IInv, Steady, frames # <<>>, UNCHANGED classes,
         NEW argc \in Nat, argc + 1 < Len(Shape), NEW callee,
         callee \in Good \/ <<Peek(argc), callee>> \in Receivers,
         CallValue(callee, argc)
  PROVE  Called
<1>1. CASE RuntimeError /\ UNCHANGED klass
  BY <1>1, ErrorMoves, MovedCalled
<1>2. CASE ~(RuntimeError /\ UNCHANGED klass)
  <2>1. Len(frames) < FrameMax
    BY <1>2, RunningFrame, BoundsAssumption DEF CallValue
  <2>2. /\ Len(frames) >= FrameMax => FALSE
        /\ \/ callee \in Function /\ PushFrame(callee, argc, Peek(argc))
           \/ callee \in Bound    /\ PushFrame(callee.method, argc, callee.receiver)
           \/ callee \in Class    /\ Instantiate(callee, argc)
           \/ callee \in Native   /\ CallNative(argc)
    BY <1>2 DEF CallValue
  <2>3. argc < Len(Shape)
    BY RunningFrame
  <2>4. Peek(argc) \in Good
    BY <2>3, PeekGood
  <2>5. ASSUME UNCHANGED klass
        PROVE  Grown /\ Good' = Good /\ Receivers' = Receivers
    BY <2>5, UnchangedGrows DEF IInv, Classes
  <2>6. CASE callee \in Function /\ PushFrame(callee, argc, Peek(argc))
    <3>1. Enter(callee, argc, Peek(argc), Absent) /\ UNCHANGED klass
      BY <1>2, <2>6 DEF PushFrame
    <3>2. <<Peek(argc), callee>> \in Receivers
      BY <2>4, <2>6, GoodValues, ReceiverPairs DEF Suits
    <3>3. QED
      BY <2>1, <2>4, <2>5, <2>6, <3>1, <3>2, EnterCalls
  <2>7. CASE callee \in Bound /\ PushFrame(callee.method, argc, callee.receiver)
    <3>1. Enter(callee.method, argc, callee.receiver, Absent) /\ UNCHANGED klass
      BY <1>2, <2>7 DEF PushFrame
    <3>2. callee \in Good
      BY <2>7, ReceiverPairs, Distinct
    <3>3. /\ Owner[callee.method] # Absent /\ <<callee.receiver, callee.method>> \in Receivers
          /\ callee.method \in Function
      BY <2>7, <3>2, GoodValues DEF Bound
    <3>4. callee.receiver \in Instance /\ klass[callee.receiver] # Absent
      BY <3>3, ReceiverPairs DEF Suits, Fits
    <3>5. callee.receiver \in Good
      BY <3>4, GoodValues
    <3> DEFINE f == callee.method
               v == callee.receiver
    <3>6. /\ Enter(f, argc, v, Absent) /\ f \in Function /\ v \in Good' /\ <<v, f>> \in Receivers'
          /\ Grown
      BY <2>5, <3>1, <3>3, <3>5
    <3> HIDE DEF f, v
    <3>7. QED
      BY <2>1, <3>6, EnterCalls
  <2>8. CASE callee \in Class /\ Instantiate(callee, argc)
    BY <2>1, <2>8, InstantiateCalls
  <2>9. CASE callee \in Native /\ CallNative(argc)
    <3>1. PICK res \in Data : Compute(argc + 1, res)
      BY <2>9 DEF CallNative
    <3>2. UNCHANGED klass
      BY <2>9 DEF CallNative
    <3>3. res \in Good /\ argc + 1 \in Nat
      BY GoodValues
    <3>4. Moved
      BY <3>1, <3>3, ComputeMoves
    <3>5. QED
      BY <3>2, <3>4, MovedCalled
  <2>10. QED
    BY <2>2, <2>6, <2>7, <2>8, <2>9
<1>3. QED
  BY <1>1, <1>2

-------------------------------------------------------------------------------
(* Methods and their receivers.                                            *)

(* A method found for an instance suits it.                                *)
LEMMA MethodSuits ==
  ASSUME IInv, NEW obj \in Instance, obj \in Good, NEW n \in Name,
         methods[klass[obj]][n] # Absent
  PROVE  LET f == methods[klass[obj]][n]
         IN f \in Function /\ Owner[f] # Absent /\ <<obj, f>> \in Receivers
<1>1. klass[obj] \in Class
  BY GoodValues DEF IInv, Typed
<1>2. PICK f \in Function : f = methods[klass[obj]][n]
  BY <1>1 DEF IInv, Classes, TypedClasses
<1>3. Owner[f] \in lineage[klass[obj]] /\ Started(Owner[f])
  BY <1>1, <1>2 DEF IInv, Classes, Inherited
<1>4. Owner[f] \in Class
  BY <1>1, <1>3 DEF IInv, Classes, TypedClasses
<1>5. Suits(obj, f)
  BY <1>1, <1>3, Distinct DEF Suits, Fits
<1>6. QED
  BY <1>2, <1>4, <1>5, ReceiverPairs, Distinct

LEMMA BoundGood ==
  ASSUME NEW v \in Plain, NEW f \in Function, Owner[f] # Absent, <<v, f>> \in Receivers
  PROVE  [receiver |-> v, method |-> f] \in Good
<1> DEFINE b == [receiver |-> v, method |-> f]
<1>1. b \in Bound /\ b.receiver = v /\ b.method = f
  BY DEF Bound
<1> HIDE DEF b
<1>2. b \in Good
  BY <1>1, GoodValues
<1>3. QED
  BY <1>2 DEF b

(* Slot 0 of the running method suits it.                                  *)
LEMMA RunningSuits ==
  ASSUME IInv, frames # <<>>, InMethod
  PROVE  /\ <<stack[Frame.slots], Frame.closure>> \in Receivers
         /\ stack[Frame.slots] \in Instance
         /\ klass[stack[Frame.slots]] \in Class
         /\ Owner[Frame.closure] \in Class
         /\ Owner[Frame.closure] \in lineage[klass[stack[Frame.slots]]]
         /\ Started(Owner[Frame.closure])
<1>1. Filled(stack, frames, shapes, Receivers) /\ Len(frames) \in 1 .. Len(frames)
  BY RunningFrame DEF IInv, Layout
<1>2. <<stack[Frame.slots], Frame.closure>> \in Receivers
  BY <1>1, RunningFrame DEF Filled, InMethod
<1>3. Suits(stack[Frame.slots], Frame.closure)
  BY <1>2, ReceiverPairs
<1>4. Owner[Frame.closure] \in Class
  BY CodeAssumption DEF InMethod
<1>5. QED
  BY <1>2, <1>3, <1>4 DEF Suits, Fits, InMethod, IInv, Typed

(* A method found for the superclass of the running method suits slot 0.   *)
LEMMA SuperSuits ==
  ASSUME IInv, frames # <<>>, InSubclass, NEW n \in Name, SuperMethod(n) # Absent
  PROVE  LET f == SuperMethod(n)
         IN /\ f \in Function /\ Owner[f] # Absent
            /\ <<stack[Frame.slots], f>> \in Receivers
<1> DEFINE v == stack[Frame.slots]
           k == Owner[Frame.closure]
<1>1. /\ v \in Instance /\ klass[v] \in Class /\ k \in Class /\ k \in lineage[klass[v]]
      /\ Started(k) /\ Extends[k]
  BY RunningSuits DEF InSubclass
<1>2. SuperMethod(n) = methods[superOf[k]][n]
  BY DEF SuperMethod
<1> HIDE DEF v, k
<1>3. superOf[k] \in Class
  BY <1>1 DEF Started
<1>4. PICK f \in Function : f = SuperMethod(n)
  BY <1>2, <1>3 DEF IInv, Classes, TypedClasses
<1>5. Owner[f] \in lineage[superOf[k]] /\ Started(Owner[f])
  BY <1>2, <1>3, <1>4 DEF IInv, Classes, Inherited
<1>6. lineage[superOf[k]] \subseteq lineage[k] /\ lineage[k] \subseteq lineage[klass[v]]
  BY <1>1, <1>3, Distinct DEF IInv, Classes, Lineages
<1>7. Owner[f] \in lineage[klass[v]] /\ Owner[f] \in Class
  BY <1>1, <1>5, <1>6 DEF IInv, Classes, TypedClasses
<1>8. Suits(v, f)
  BY <1>1, <1>5, <1>7, Distinct DEF Suits, Fits
<1>9. <<v, f>> \in Receivers
  BY <1>1, <1>8, ReceiverPairs, Distinct
<1>10. QED
  BY <1>4, <1>7, <1>9, Distinct DEF v

(* The operand that is a copy of `this' is slot 0.                         *)
LEMMA ThisOnTop ==
  ASSUME IInv, frames # <<>>, NEW k \in Nat, OnThis(k)
  PROVE  Peek(k) = stack[Frame.slots] /\ k + 1 < Len(Shape)
<1>1. Filled(stack, frames, shapes, Receivers) /\ Len(frames) \in 1 .. Len(frames)
  BY RunningFrame DEF IInv, Layout
<1> DEFINE wide == Len(Shape)
           base == Frame.slots
           high == Len(stack)
<1>2. /\ wide \in Nat \ {0} /\ base \in Nat \ {0} /\ high \in Nat /\ high = base + wide - 1
      /\ k < wide - 1 /\ Shape[wide - k] = "this"
  BY RunningFrame DEF OnThis
<1>3. \A j \in 1 .. wide : Shape[j] = "this" => stack[base + j - 1] = stack[base]
  BY <1>1, RunningFrame DEF Filled
<1> HIDE DEF wide, base, high
<1>4. wide - k \in 1 .. wide /\ base + (wide - k) - 1 = high - k
  BY <1>2
<1>5. stack[high - k] = stack[base]
  BY <1>2, <1>3, <1>4
<1>6. k + 1 < wide
  BY <1>2
<1>7. QED
  BY <1>5, <1>6 DEF Peek, high, base, wide

-------------------------------------------------------------------------------
(* The instructions of code.                                               *)

(* What is stored outside the stack.                                       *)
Held ==
  /\ fields' \in [Instance -> [Name -> Good \cup {Absent}]]
  /\ globals' \in [Global -> Good \cup {Absent}]
  /\ closed' \subseteq Good
  /\ line' \in 0 .. Lines /\ crashed' \in BOOLEAN

LEMMA SameHeld ==
  ASSUME IInv, UNCHANGED <<fields, closed, globals, session>> PROVE Held
BY DEF IInv, Typed, Held, session

LEMMA HeldTyped ==
  ASSUME Called, Held PROVE Typed'
<1>1. Good \subseteq Good'
  BY GoodGrows DEF Called
<1>2. klass' \in [Instance -> Class \cup {Absent}]
  BY DEF Called, Grown
<1>3. fields' \in [Instance -> [Name -> Good' \cup {Absent}]]
  <2>1. \A i \in Instance : fields'[i] \in [Name -> Good' \cup {Absent}]
    BY <1>1 DEF Held
  <2>2. QED
    BY <2>1 DEF Held
<1>4. globals' \in [Global -> Good' \cup {Absent}] /\ closed' \subseteq Good'
  BY <1>1 DEF Held
<1>5. QED
  BY <1>2, <1>3, <1>4 DEF Called, Held, Typed

(* What the first methods of c's body leave n mean, over what it inherits. *)
Meant(c, n, count, inherited) ==
  LET own == {i \in 1 .. count : Declares[c][i].name = n}
  IN IF own # {} THEN Declares[c][CHOOSE i \in own : \A j \in own : j <= i].method
     ELSE inherited

Nearest(c) ==
  ~Extends[c] \/ superOf[c] # Absent =>
    \A n \in Name :
      methods[c][n] = Meant(c, n, Declared(c),
                            IF superOf[c] \in Class \ {c} THEN methods[superOf[c]][n] ELSE Absent)

LEMMA NearestForm ==
  /\ MethodsNearest <=> \A c \in declared : Nearest(c)
  /\ MethodsNearest' <=> \A c \in declared' : Nearest(c)'
<1>1. MethodsNearest <=> \A c \in declared : Nearest(c)
  BY DEF MethodsNearest, Nearest, Meant
<1>2. MethodsNearest' <=> \A c \in declared' : Nearest(c)'
  BY DEF MethodsNearest, Nearest, Meant
<1>3. QED
  BY <1>1, <1>2

LEMMA NearestKept ==
  ASSUME MethodsNearest, UNCHANGED classes PROVE MethodsNearest'
<1>1. /\ methods' = methods /\ superOf' = superOf /\ declared' = declared
      /\ declaring' = declaring
  BY DEF classes
<1>2. ASSUME NEW c \in declared, Nearest(c) PROVE Nearest(c)'
  BY <1>1, <1>2 DEF Nearest, Declared
<1>3. QED
  BY <1>1, <1>2, NearestForm

LEMMA CodeKeeps ==
  ASSUME IInv, Called, Held, UNCHANGED classes, declaring = NotDeclaring
  PROVE  IInv'
<1>1. Typed' /\ Layout(stack, frames, shapes, Good, Receivers)' /\ MethodsNearest'
  BY HeldTyped, NearestKept DEF Called, IInv
<1>2. Classes'
  <2>1. TypedClasses' /\ Lineages'
    BY DEF IInv, Classes, TypedClasses, Lineages, classes
  <2>2. Inherited'
    BY DEF IInv, Classes, Inherited, Started, classes
  <2>3. Declaring'
    BY DEF Declaring, classes
  <2>4. \A c \in Class \ declared' : Fresh(c)'
    BY DEF IInv, Classes, Fresh, classes
  <2>5. QED
    BY <2>1, <2>2, <2>3, <2>4 DEF Classes
<1>3. QED
  BY <1>1, <1>2 DEF IInv

LEMMA MovesKeep ==
  ASSUME IInv, Moved, Held, UNCHANGED klass, UNCHANGED classes, declaring = NotDeclaring
  PROVE  IInv'
BY MovedCalled, CodeKeeps

LEMMA LoadKeeps ==
  ASSUME IInv, NEW v \in Good, Load(v) PROVE IInv'
<1>1. frames # <<>> /\ declaring = NotDeclaring /\ Compute(0, v)
      /\ UNCHANGED <<klass, fields, closed, classes, session, globals>>
  BY DEF Load, InCode, Quiet
<1>2. 0 < Len(Shape)
  BY <1>1, RunningFrame
<1>3. Moved
  BY <1>1, <1>2, ComputeMoves
<1>4. QED
  BY <1>1, <1>3, SameHeld, MovesKeep

LEMMA SlotGood ==
  ASSUME IInv, frames # <<>>, NEW i \in DOMAIN Shape
  PROVE  stack[Frame.slots + i - 1] \in Good
<1>1. PICK wide : wide = Len(Shape)
  OBVIOUS
<1>2. PICK base : base = Frame.slots
  OBVIOUS
<1>3. PICK high : high = Len(stack)
  OBVIOUS
<1>4. /\ wide \in Nat \ {0} /\ base \in Nat \ {0} /\ high \in Nat /\ high = base + wide - 1
      /\ stack \in Seq(Good) /\ i \in 1 .. wide
  <2>1. Shape \in Seq(Kind)
    BY RunningFrame
  <2>2. DOMAIN Shape = 1 .. Len(Shape)
    BY <2>1
  <2>3. QED
    BY <1>1, <1>2, <1>3, <2>2, RunningFrame
<1>5. base + i - 1 \in 1 .. high
  <2>1. PICK k \in Nat : k = i
    BY <1>4
  <2>2. base + k - 1 \in 1 .. high
    BY <1>4, <2>1
  <2>3. QED
    BY <2>1, <2>2
<1>6. stack[base + i - 1] \in Good
  <2>1. PICK slot : slot = base + i - 1
    OBVIOUS
  <2>2. slot \in 1 .. Len(stack)
    BY <1>3, <1>5, <2>1
  <2>3. stack[slot] \in Good
    BY <1>4, <2>2
  <2>4. QED
    BY <2>1, <2>3
<1>7. QED
  BY <1>2, <1>6

LEMMA GetLocalKeeps ==
  ASSUME IInv, GetLocal PROVE IInv'
<1>1. PICK i \in DOMAIN Shape : Load(stack[Frame.slots + i - 1])
  BY DEF GetLocal, Variables
<1>2. stack[Frame.slots + i - 1] \in Good
  BY SlotGood DEF GetLocal, InCode
<1>3. QED
  BY <1>1, <1>2, LoadKeeps

LEMMA ConstKeeps ==
  ASSUME IInv, Const \/ GetClass PROVE IInv'
<1>1. CASE Const
  <2>1. PICK v \in Data \cup {f \in Function : Owner[f] = Absent} : Load(v)
    BY <1>1 DEF Const
  <2>2. v \in Good
    BY GoodValues
  <2>3. QED
    BY <2>1, <2>2, LoadKeeps
<1>2. CASE GetClass
  <2>1. PICK v \in declared \cup Native : Load(v)
    BY <1>2 DEF GetClass
  <2>2. v \in Good
    BY GoodValues DEF IInv, Classes, TypedClasses
  <2>3. QED
    BY <2>1, <2>2, LoadKeeps
<1>3. QED
  BY <1>1, <1>2

LEMMA GetThisKeeps ==
  ASSUME IInv, GetThis PROVE IInv'
<1>1. declaring = NotDeclaring /\ UNCHANGED <<klass, fields, closed, classes, session, globals>>
  BY DEF GetThis, InCode, Quiet
<1>2. QED
  BY <1>1, ThisMoves, SameHeld, MovesKeep

LEMMA SetLocalKeeps ==
  ASSUME IInv, Steady, SetLocal PROVE IInv'
<1>1. declaring = NotDeclaring /\ UNCHANGED <<klass, fields, closed, classes, session, globals>>
  BY DEF SetLocal, InCode, Quiet
<1>2. QED
  BY <1>1, StoreMoves, SameHeld, MovesKeep

LEMMA PopKeeps ==
  ASSUME IInv, Pop PROVE IInv'
<1>1. /\ declaring = NotDeclaring /\ UNCHANGED <<klass, fields, closed, classes, session, globals>>
      /\ frames # <<>> /\ Operands(1) /\ stack' = Front(stack) /\ frames' = frames
      /\ shapes' = [shapes EXCEPT ![Len(shapes)] = Front(@)]
  BY DEF Pop, InCode, Quiet
<1>2. 1 < Len(Shape)
  BY <1>1, RunningFrame DEF Operands
<1>3. QED
  BY <1>1, <1>2, DropMoves, SameHeld, MovesKeep

(* The variables of functions and blocks.                                  *)
LEMMA DeclareKeeps ==
  ASSUME IInv, Declare \/ Closure PROVE IInv'
<1>1. declaring = NotDeclaring /\ UNCHANGED <<klass, fields, closed, classes, session, globals>>
  BY DEF Declare, Closure, InCode, Quiet
<1>2. QED
  BY <1>1, DeclareMoves, ClosureMoves, SameHeld, MovesKeep

LEMMA EndScopeKeeps ==
  ASSUME IInv, EndScope PROVE IInv'
<1>1. /\ declaring = NotDeclaring /\ UNCHANGED <<klass, fields, classes, session, globals>>
      /\ frames # <<>> /\ Len(Shape) \in Variables /\ stack' = Front(stack) /\ frames' = frames
      /\ shapes' = [shapes EXCEPT ![Len(shapes)] = Front(@)]
      /\ closed' = IF Last(Shape) = "captured" THEN closed \cup {Peek(0)} ELSE closed
  BY DEF EndScope, InCode
<1>2. 0 < Len(Shape) /\ 1 < Len(Shape)
  <2>1. Len(Shape) \in Nat \ {0} /\ Shape[1] = "callee"
    BY <1>1, RunningFrame
  <2>2. Shape[Len(Shape)] # "callee"
    BY <1>1 DEF Variables
  <2>3. QED
    BY <2>1, <2>2
<1>3. Held
  <2>1. Peek(0) \in Good
    BY <1>1, <1>2, PeekGood
  <2>2. closed' \subseteq Good
    BY <1>1, <2>1 DEF IInv, Typed
  <2>3. QED
    BY <1>1, <2>2 DEF IInv, Typed, Held, session
<1>4. QED
  BY <1>1, <1>2, <1>3, DropMoves, MovesKeep

LEMMA TopOperand ==
  ASSUME IInv, frames # <<>>, Operands(1)
  PROVE  0 < Len(Shape) /\ 1 < Len(Shape) /\ Peek(0) \in Good
<1>1. 0 < Len(Shape) /\ 1 < Len(Shape)
  BY RunningFrame DEF Operands
<1>2. QED
  BY <1>1, PeekGood

LEMMA GetUpvalueKeeps ==
  ASSUME IInv, GetUpvalue PROVE IInv'
<1>1. PICK v \in closed \cup {stack[frames[c[1]].slots + c[2] - 1] : c \in Captured} : Load(v)
  BY DEF GetUpvalue, SlotOf
<1>2. stack \in Seq(Good)
  BY DEF IInv, Layout
<1>3. ASSUME NEW c \in Captured PROVE stack[frames[c[1]].slots + c[2] - 1] \in Good
  BY <1>2, CapturedSlots
<1>4. closed \subseteq Good
  BY DEF IInv, Typed
<1>5. v \in Good
  BY <1>3, <1>4
<1>6. QED
  BY <1>1, <1>5, LoadKeeps

LEMMA SetUpvalueKeeps ==
  ASSUME IInv, SetUpvalue PROVE IInv'
<1>1. /\ declaring = NotDeclaring /\ UNCHANGED <<klass, fields, classes, session, globals>>
      /\ frames # <<>> /\ Operands(1) /\ frames' = frames /\ shapes' = shapes
  BY DEF SetUpvalue, InClosure, InCode
<1>2. Peek(0) \in Good
  BY <1>1, TopOperand
<1>3. CASE closed' = closed /\ \E c \in Captured :
              stack' = [stack EXCEPT ![frames[c[1]].slots + c[2] - 1] = Peek(0)]
  <2>1. Moved
    BY <1>1, <1>2, <1>3, AssignMoves
  <2>2. QED
    BY <1>1, <1>3, <2>1, SameHeld, MovesKeep
<1>4. CASE closed' = closed \cup {Peek(0)} /\ stack' = stack
  <2>1. Moved
    BY <1>1, <1>4, StayMoves DEF machine
  <2>2. Held
    BY <1>1, <1>2, <1>4 DEF IInv, Typed, Held, session
  <2>3. QED
    BY <1>1, <2>1, <2>2, MovesKeep
<1>5. QED
  BY <1>3, <1>4 DEF SetUpvalue, SlotOf

LEMMA GetGlobalKeeps ==
  ASSUME IInv, NEW x \in Global, GetGlobal(x) PROVE IInv'
<1>1. declaring = NotDeclaring /\ UNCHANGED <<klass, fields, closed, classes, session, globals>>
      /\ frames # <<>>
  BY DEF GetGlobal, InCode, Quiet
<1>2. CASE globals[x] = Absent
  <2>1. RuntimeError
    BY <1>2 DEF GetGlobal
  <2>2. QED
    BY <1>1, <2>1, ErrorMoves, SameHeld, MovesKeep
<1>3. CASE globals[x] # Absent
  <2>1. Compute(0, globals[x]) /\ globals[x] \in Good /\ 0 < Len(Shape)
    BY <1>1, <1>3, RunningFrame DEF GetGlobal, IInv, Typed
  <2>2. Moved
    BY <1>1, <2>1, ComputeMoves
  <2>3. QED
    BY <1>1, <2>2, SameHeld, MovesKeep
<1>4. QED
  BY <1>2, <1>3

LEMMA SetGlobalKeeps ==
  ASSUME IInv, NEW x \in Global, SetGlobal(x) \/ DefineGlobal(x) PROVE IInv'
<1>1. /\ declaring = NotDeclaring /\ UNCHANGED <<klass, fields, closed, classes, session>>
      /\ frames # <<>> /\ Operands(1) /\ globals' = [globals EXCEPT ![x] = Peek(0)]
  BY DEF SetGlobal, DefineGlobal, InCode, Quiet
<1>2. Held
  BY <1>1, TopOperand DEF Held, IInv, Typed, session
<1>3. Moved
  <2>1. CASE SetGlobal(x)
    BY <2>1, ErrorMoves, StayMoves DEF SetGlobal
  <2>2. CASE DefineGlobal(x)
    <3>1. /\ Len(frames) = 1 /\ stack' = Front(stack) /\ frames' = frames
          /\ shapes' = [shapes EXCEPT ![1] = Front(@)]
      BY <2>2 DEF DefineGlobal
    <3>2. Len(shapes) = 1
      BY <1>1, <3>1, RunningFrame
    <3>3. shapes' = [shapes EXCEPT ![Len(shapes)] = Front(@)]
      BY <3>1, <3>2
    <3>4. QED
      BY <1>1, <3>1, <3>3, TopOperand, DropMoves
  <2>3. QED
    BY <2>1, <2>2
<1>4. QED
  BY <1>1, <1>2, <1>3, MovesKeep

LEMMA GetPropertyKeeps ==
  ASSUME IInv, NEW n \in Name, GetProperty(n) PROVE IInv'
<1>1. /\ declaring = NotDeclaring /\ UNCHANGED <<klass, fields, closed, classes, session, globals>>
      /\ frames # <<>> /\ Operands(1)
  BY DEF GetProperty, InCode, Quiet
<1>2. PICK obj \in Good : obj = Peek(0)
  BY <1>1, TopOperand
<1>3. \/ RuntimeError
      \/ /\ obj \in Instance
         /\ \/ fields[obj][n] # Absent /\ Compute(1, fields[obj][n])
            \/ /\ methods[klass[obj]][n] # Absent
               /\ Compute(1, [receiver |-> obj, method |-> methods[klass[obj]][n]])
  BY <1>2 DEF GetProperty
<1>4. CASE RuntimeError
  BY <1>1, <1>4, ErrorMoves, SameHeld, MovesKeep
<1>5. CASE obj \in Instance /\ fields[obj][n] # Absent /\ Compute(1, fields[obj][n])
  <2>1. fields[obj][n] \in Good
    BY <1>5 DEF IInv, Typed
  <2>2. Moved
    BY <1>1, <1>5, <2>1, TopOperand, ComputeMoves
  <2>3. QED
    BY <1>1, <2>2, SameHeld, MovesKeep
<1>6. CASE /\ obj \in Instance /\ methods[klass[obj]][n] # Absent
           /\ Compute(1, [receiver |-> obj, method |-> methods[klass[obj]][n]])
  <2>1. PICK f : f = methods[klass[obj]][n]
    OBVIOUS
  <2>2. f \in Function /\ Owner[f] # Absent /\ <<obj, f>> \in Receivers /\ obj \in Plain
    BY <1>6, <2>1, MethodSuits DEF Plain
  <2>3. [receiver |-> obj, method |-> f] \in Good
    BY <2>2, BoundGood
  <2>4. Moved
    BY <1>1, <1>6, <2>1, <2>3, TopOperand, ComputeMoves
  <2>5. QED
    BY <1>1, <2>4, SameHeld, MovesKeep
<1>7. QED
  BY <1>3, <1>4, <1>5, <1>6

LEMMA SetPropertyKeeps ==
  ASSUME IInv, NEW n \in Name, SetProperty(n) PROVE IInv'
<1>1. /\ declaring = NotDeclaring /\ UNCHANGED <<klass, closed, classes, globals, session>>
      /\ frames # <<>> /\ Operands(2)
  BY DEF SetProperty, InCode
<1>2. 0 < Len(Shape) /\ 2 < Len(Shape)
  BY <1>1, RunningFrame DEF Operands
<1>3. Peek(0) \in Good
  BY <1>1, <1>2, PeekGood
<1>4. CASE RuntimeError /\ UNCHANGED fields
  BY <1>1, <1>4, ErrorMoves, SameHeld, MovesKeep
<1>5. CASE /\ Peek(1) \in Instance
           /\ fields' = [fields EXCEPT ![Peek(1)][n] = Peek(0)] /\ Compute(2, Peek(0))
  <2>1. Moved
    BY <1>1, <1>2, <1>3, <1>5, ComputeMoves
  <2>2. Held
    <3>1. fields \in [Instance -> [Name -> Good \cup {Absent}]]
      BY DEF IInv, Typed
    <3> DEFINE obj == Peek(1)
               val == Peek(0)
    <3>2. obj \in Instance /\ val \in Good /\ fields' = [fields EXCEPT ![obj][n] = val]
      BY <1>3, <1>5
    <3> HIDE DEF obj, val
    <3>3. fields' \in [Instance -> [Name -> Good \cup {Absent}]]
      BY <3>1, <3>2
    <3>4. QED
      BY <1>1, <3>3 DEF Held, IInv, Typed, session
  <2>3. QED
    BY <1>1, <2>1, <2>2, MovesKeep
<1>6. QED
  BY <1>4, <1>5 DEF SetProperty

LEMMA GetSuperKeeps ==
  ASSUME IInv, NEW n \in Name, GetSuper(n) PROVE IInv'
<1>1. /\ declaring = NotDeclaring /\ UNCHANGED <<fields, closed, classes, globals>>
      /\ frames # <<>> /\ InSubclass /\ OnThis(0)
  BY DEF GetSuper, InCode
<1>2. CASE SuperMethod(n) = Absent
  <2>1. UNCHANGED <<machine, klass, line>> /\ crashed' = TRUE
    BY <1>2 DEF GetSuper, Crash
  <2>2. Held
    BY <1>1, <2>1 DEF IInv, Typed, Held
  <2>3. QED
    BY <1>1, <2>1, <2>2, StayMoves, MovesKeep
<1>3. CASE SuperMethod(n) # Absent
  <2>1. PICK f : f = SuperMethod(n)
    OBVIOUS
  <2>2. PICK v : v = Peek(0)
    OBVIOUS
  <2>3. v = stack[Frame.slots] /\ 0 + 1 < Len(Shape)
    BY <1>1, <2>2, ThisOnTop
  <2>4. /\ f \in Function /\ Owner[f] # Absent /\ <<v, f>> \in Receivers /\ v \in Plain
    BY <1>1, <1>3, <2>1, <2>3, SuperSuits, RunningSuits DEF InSubclass, Plain
  <2>5. [receiver |-> v, method |-> f] \in Good
    BY <2>4, BoundGood
  <2>6. Compute(1, [receiver |-> v, method |-> f]) /\ UNCHANGED <<klass, session>>
    BY <1>3, <2>1, <2>2 DEF GetSuper
  <2>7. Moved
    BY <1>1, <2>3, <2>5, <2>6, ComputeMoves
  <2>8. QED
    BY <1>1, <2>6, <2>7, SameHeld, MovesKeep
<1>4. QED
  BY <1>2, <1>3

LEMMA CallKeeps ==
  ASSUME IInv, Steady, NEW argc \in Nat, Call(argc) PROVE IInv'
<1>1. /\ declaring = NotDeclaring /\ UNCHANGED <<fields, closed, classes, globals, session>>
      /\ frames # <<>> /\ Operands(argc + 1)
      /\ IF Callable(Peek(argc)) THEN CallValue(Peek(argc), argc) ELSE Fail
  BY DEF Call, InCode
<1>2. argc + 1 < Len(Shape) /\ argc < Len(Shape)
  BY <1>1, RunningFrame DEF Operands
<1>3. PICK callee : callee = Peek(argc)
  OBVIOUS
<1>4. callee \in Good
  BY <1>1, <1>2, <1>3, PeekGood
<1>5. Called
  <2>1. CASE CallValue(Peek(argc), argc)
    <3>1. CallValue(callee, argc)
      BY <2>1, <1>3
    <3>2. QED
      BY <1>1, <1>2, <1>4, <3>1, CallValueCalls
  <2>2. CASE Fail
    BY <1>1, <2>2, ErrorMoves, MovedCalled DEF Fail
  <2>3. QED
    BY <1>1, <2>1, <2>2
<1>6. QED
  BY <1>1, <1>5, SameHeld, CodeKeeps

LEMMA InvokeKeeps ==
  ASSUME IInv, Steady, NEW argc \in Nat, NEW n \in Name, Invoke(n, argc) PROVE IInv'
<1>1. /\ declaring = NotDeclaring /\ UNCHANGED <<fields, closed, classes, globals, session>>
      /\ frames # <<>> /\ Operands(argc + 1)
  BY DEF Invoke, InCode
<1>2. argc + 1 < Len(Shape) /\ argc < Len(Shape)
  BY <1>1, RunningFrame DEF Operands
<1>3. PICK obj \in Good : obj = Peek(argc)
  BY <1>1, <1>2, PeekGood
<1>4. \/ Fail
      \/ /\ obj \in Instance
         /\ \/ fields[obj][n] # Absent /\ CallValue(fields[obj][n], argc)
            \/ methods[klass[obj]][n] # Absent /\ CallValue(methods[klass[obj]][n], argc)
  BY <1>3 DEF Invoke
<1>5. CASE Fail
  BY <1>1, <1>5, ErrorMoves, MovedCalled, SameHeld, CodeKeeps DEF Fail
<1>6. CASE obj \in Instance /\ fields[obj][n] # Absent /\ CallValue(fields[obj][n], argc)
  <2>1. PICK callee \in Good : callee = fields[obj][n]
    BY <1>6 DEF IInv, Typed
  <2>2. CallValue(callee, argc)
    BY <1>6, <2>1
  <2>3. Called
    BY <1>1, <1>2, <2>2, CallValueCalls
  <2>4. QED
    BY <1>1, <2>3, SameHeld, CodeKeeps
<1>7. CASE /\ obj \in Instance /\ methods[klass[obj]][n] # Absent
           /\ CallValue(methods[klass[obj]][n], argc)
  <2>1. PICK f : f = methods[klass[obj]][n]
    OBVIOUS
  <2>2. <<Peek(argc), f>> \in Receivers
    BY <1>3, <1>7, <2>1, MethodSuits
  <2>3. CallValue(f, argc)
    BY <1>7, <2>1
  <2>4. Called
    BY <1>1, <1>2, <2>2, <2>3, CallValueCalls
  <2>5. QED
    BY <1>1, <2>4, SameHeld, CodeKeeps
<1>8. QED
  BY <1>4, <1>5, <1>6, <1>7

LEMMA SuperInvokeKeeps ==
  ASSUME IInv, Steady, NEW argc \in Nat, NEW n \in Name, SuperInvoke(n, argc) PROVE IInv'
<1>1. /\ declaring = NotDeclaring /\ UNCHANGED <<fields, closed, classes, globals>>
      /\ frames # <<>> /\ InSubclass /\ OnThis(argc)
  BY DEF SuperInvoke, InCode
<1>2. CASE SuperMethod(n) = Absent
  <2>1. UNCHANGED <<machine, klass, line>> /\ crashed' = TRUE
    BY <1>2 DEF SuperInvoke, Crash
  <2>2. Held
    BY <1>1, <2>1 DEF IInv, Typed, Held
  <2>3. QED
    BY <1>1, <2>1, <2>2, StayMoves, MovesKeep
<1>3. CASE SuperMethod(n) # Absent
  <2>1. PICK f : f = SuperMethod(n)
    OBVIOUS
  <2>2. Peek(argc) = stack[Frame.slots] /\ argc + 1 < Len(Shape)
    BY <1>1, ThisOnTop
  <2>3. <<Peek(argc), f>> \in Receivers
    BY <1>1, <1>3, <2>1, <2>2, SuperSuits
  <2>4. CallValue(f, argc) /\ UNCHANGED session
    BY <1>3, <2>1 DEF SuperInvoke
  <2>5. Called
    BY <1>1, <2>2, <2>3, <2>4, CallValueCalls
  <2>6. QED
    BY <1>1, <2>4, <2>5, SameHeld, CodeKeeps
<1>4. QED
  BY <1>2, <1>3

LEMMA ReturnKeeps ==
  ASSUME IInv, Return PROVE IInv'
<1>1. /\ declaring = NotDeclaring /\ UNCHANGED <<klass, fields, classes, globals, session>>
      /\ frames # <<>> /\ CloseAll
  BY DEF Return, InCode
<1>2. closed' \subseteq Good
  <2>1. \A i \in {j \in DOMAIN Shape : Shape[j] = "captured"} : stack[Frame.slots + i - 1] \in Good
    BY <1>1, SlotGood
  <2>2. QED
    BY <1>1, <2>1 DEF CloseAll, IInv, Typed
<1>3. Held
  BY <1>1, <1>2 DEF IInv, Typed, Held, session
<1>4. QED
  BY <1>1, <1>3, ReturnMoves, MovesKeep

LEMMA ReturnScriptKeeps ==
  ASSUME IInv, ReturnScript PROVE IInv'
<1>1. declaring = NotDeclaring /\ UNCHANGED <<klass, fields, closed, classes, globals, session>>
  BY DEF ReturnScript, InCode
<1>2. QED
  BY <1>1, ReturnScriptMoves, SameHeld, MovesKeep

LEMMA InterpretKeeps ==
  ASSUME IInv, Interpret PROVE IInv'
<1>1. /\ UNCHANGED <<klass, fields, closed, classes, globals, crashed>>
      /\ frames = <<>> /\ line < Lines /\ line' = line + 1
  BY DEF Interpret
<1>2. declaring = NotDeclaring
  BY <1>1 DEF IInv, Classes, Declaring
<1>3. Held
  BY <1>1, BoundsAssumption DEF IInv, Typed, Held
<1>4. QED
  BY <1>1, <1>2, <1>3, InterpretMoves, MovesKeep

-------------------------------------------------------------------------------
(* Class declarations.                                                     *)

LEMMA OnlyScript ==
  ASSUME IInv, Len(frames) = 1
  PROVE  /\ frames # <<>> /\ shapes = <<Shape>> /\ Shape = shapes[1] /\ Frame.slots = 1
         /\ Len(stack) = Len(Shape)
<1>1. frames # <<>>
  OBVIOUS
<1>2. Frame = frames[1] /\ Shape = shapes[1] /\ Len(shapes) = 1 /\ shapes \in Seq(Seq(Kind))
      /\ Len(stack) = Frame.slots + Len(Shape) - 1 /\ Len(Shape) \in Nat
  BY <1>1, RunningFrame
<1>3. Frame.slots = 1
  BY <1>1, <1>2 DEF IInv, Layout, Placed
<1>4. shapes = <<Shape>>
  BY <1>2
<1>5. QED
  BY <1>1, <1>2, <1>3, <1>4

LEMMA NotDeclaringPair ==
  ASSUME NEW c, NEW k PROVE <<c, k>> # NotDeclaring
BY DEF NotDeclaring

LEMMA BeginClassKeeps ==
  ASSUME IInv, NEW c \in Class, BeginClass(c) PROVE IInv'
<1>1. /\ declaring = NotDeclaring /\ Len(frames) = 1 /\ frames # <<>> /\ Shape = <<"callee">>
      /\ c \notin declared /\ declared' = declared \cup {c} /\ declaring' = <<c, 0>>
      /\ UNCHANGED <<klass, fields, closed, methods, superOf, lineage, globals, session>>
  BY DEF BeginClass, InCode
<1>2. Typed /\ TypedClasses /\ Lineages /\ Inherited /\ Fresh(c)
      /\ \A k \in Class \ declared : Fresh(k)
  BY <1>1 DEF IInv, Classes
<1>3. Grown
  BY <1>1, <1>2 DEF Grown, Typed, TypedClasses
<1>4. c \in Good'
  BY <1>1, Distinct DEF Good
<1>5. Called /\ Len(frames') = 1
      /\ IF Extends[c] THEN shapes' = << <<"callee">> >> ELSE shapes' = << <<"callee", "operand">> >>
  <2>1. CASE Extends[c]
    <3>1. UNCHANGED machine
      BY <2>1 DEF BeginClass
    <3>2. Layout(stack, frames, shapes, Good', Receivers')
      BY <1>3, GoodGrows, ReceiversGrow, LayoutGrows DEF IInv
    <3>3. Called
      BY <3>1, <3>2, <1>2, <1>3 DEF Called, Typed, machine
    <3>4. shapes = << <<"callee">> >>
      BY <1>1, OnlyScript
    <3>5. QED
      BY <2>1, <3>1, <3>3, <3>4, <1>1 DEF machine
  <2>2. CASE ~Extends[c]
    <3>1. /\ stack' = Append(SubSeq(stack, 1, Len(stack) - 0), c) /\ Len(stack) - 0 < StackMax
          /\ shapes' = [shapes EXCEPT ![Len(shapes)] =
                          Append(SubSeq(@, 1, Len(@) - 0), "operand")]
          /\ frames' = frames
      BY <2>2 DEF BeginClass, Compute, Replace, Result
    <3>2. Layout(stack, frames, shapes, Good', Receivers')
      BY <1>3, GoodGrows, ReceiversGrow, LayoutGrows DEF IInv
    <3>3. 0 < Len(shapes[Len(frames)]) /\ "operand" \in Kind
      BY <1>1, RunningFrame DEF Kind
    <3>4. Layout(stack', frames', shapes', Good', Receivers')
      <4>1. 0 \in Nat /\ "operand" # "this"
        OBVIOUS
      <4>2. Layout(Append(SubSeq(stack, 1, Len(stack) - 0), c), frames,
                   [shapes EXCEPT ![Len(shapes)] = Append(SubSeq(@, 1, Len(@) - 0), "operand")],
                   Good', Receivers')
        BY <1>1, <1>4, <3>2, <3>3, <4>1, LayoutOfReplace
      <4>3. QED
        BY <3>1, <4>2
    <3>5. shapes = << <<"callee">> >> /\ Len(stack) = 1
      BY <1>1, OnlyScript
    <3>6. shapes' = << <<"callee", "operand">> >>
      <4>1. PICK shape : shape = Append(SubSeq(<<"callee">>, 1, Len(<<"callee">>) - 0), "operand")
        OBVIOUS
      <4>2. shapes' = <<shape>>
        BY <3>1, <3>5, <4>1
      <4>3. /\ shape \in Seq(Kind) /\ Len(shape) = 2
            /\ shape[1] = "callee" /\ shape[2] = "operand"
        <5>1. PICK kept : kept = SubSeq(<<"callee">>, 1, 1)
          OBVIOUS
        <5>2. <<"callee">> \in Seq(Kind) /\ Len(<<"callee">>) = 1 /\ 1 \in 1 .. 2
          BY DEF Kind
        <5>3. kept \in Seq(Kind) /\ Len(kept) = 1 /\ kept[1] = "callee"
          BY <5>1, <5>2, SubSeqProperties
        <5>4. shape = Append(kept, "operand")
          BY <4>1, <5>1
        <5>5. /\ shape \in Seq(Kind) /\ Len(shape) = Len(kept) + 1
              /\ shape[Len(kept) + 1] = "operand"
              /\ \A j \in 1 .. Len(kept) : shape[j] = kept[j]
          <6>1. PICK kind \in Kind : kind = "operand"
            BY DEF Kind
          <6>2. kept \in Seq(Kind)
            BY <5>3
          <6>3. /\ Append(kept, kind) \in Seq(Kind) /\ Len(Append(kept, kind)) = Len(kept) + 1
                /\ Append(kept, kind)[Len(kept) + 1] = kind
                /\ \A j \in 1 .. Len(kept) : Append(kept, kind)[j] = kept[j]
            BY <6>2, AppendProperties
          <6>4. QED
            BY <5>4, <6>1, <6>3
        <5>6. 1 \in 1 .. Len(kept) /\ Len(kept) + 1 = 2
          BY <5>3
        <5>7. QED
          BY <5>3, <5>5, <5>6
      <4>4. shape = <<"callee", "operand">>
        BY <4>3, SeqEqual
      <4>5. QED
        BY <4>2, <4>4
    <3>7. Len(stack') <= StackMax
      <4>1. SubSeq(stack, 1, 1) = stack
        BY <1>1, <3>5, RunningFrame
      <4>2. Len(stack') = 2
        BY <3>1, <3>5, <4>1, <1>1, RunningFrame
      <4>3. QED
        BY <3>1, <3>5, <4>2, BoundsAssumption
    <3>8. QED
      BY <2>2, <3>1, <3>4, <3>6, <3>7, <1>1, <1>2, <1>3 DEF Called, Typed
  <2>3. QED
    BY <2>1, <2>2
<1>6. Typed'
  <2>1. Held
    BY <1>1, SameHeld
  <2>2. QED
    BY <1>5, <2>1, HeldTyped
<1>7. Classes'
  <2>1. TypedClasses' /\ Lineages'
    BY <1>1, <1>2 DEF TypedClasses, Lineages
  <2>2. Inherited'
    BY <1>1, <1>2 DEF Inherited, Started
  <2>3. \A k \in Class : Fresh(k)' <=> Fresh(k)
    BY <1>1 DEF Fresh
  <2>4. Declaring'
    <3>1. declaring'[1] = c /\ declaring'[2] = 0
      BY <1>1
    <3>2. Len(frames') = 1 /\ c \in declared' /\ 0 <= Len(Declares[c])
      BY <1>1, <1>5, CodeAssumption
    <3>3. \A k \in Class \ {c} : superOf'[k] # c
      BY <1>1, <1>2 DEF Fresh
    <3>4. Pending' => Extends[c] /\ Fresh(c)'
      <4>1. << <<"callee", "operand">> >> # << <<"callee">> >>
        OBVIOUS
      <4>2. QED
        BY <1>2, <1>5, <2>3, <4>1 DEF Pending
    <3>5. ~Pending' => Started(c)'
      BY <1>5 DEF Pending, Started
    <3>6. QED
      BY <3>1, <3>2, <3>3, <3>4, <3>5 DEF Declaring
  <2>5. \A k \in Class \ declared' : Fresh(k)'
    BY <1>1, <1>2, <2>3
  <2>6. QED
    BY <2>1, <2>2, <2>4, <2>5 DEF Classes
<1>8. MethodsNearest'
  <2> SUFFICES ASSUME NEW k \in declared' PROVE Nearest(k)'
    BY NearestForm
  <2>1. CASE k # c
    <3>1. Nearest(k)
      BY <1>1, <2>1, NearestForm DEF IInv
    <3>2. Declared(k)' = Declared(k)
      BY <1>1, <2>1 DEF Declared
    <3>3. QED
      BY <1>1, <3>1, <3>2 DEF Nearest
  <2>2. CASE k = c
    <3>1. Declared(c)' = 0 /\ superOf'[c] = Absent /\ \A n \in Name : methods'[c][n] = Absent
      BY <1>1, <1>2, NotDeclaringPair DEF Declared, Fresh
    <3>2. \A n \in Name : \A x : Meant(c, n, 0, x) = x
      BY DEF Meant
    <3>3. QED
      BY <2>2, <3>1, <3>2, Distinct DEF Nearest
  <2>3. QED
    BY <2>1, <2>2
<1>9. QED
  BY <1>5, <1>6, <1>7, <1>8 DEF IInv, Called

LEMMA MethodKeeps ==
  ASSUME IInv, Method PROVE IInv'
<1>1. /\ declaring # NotDeclaring /\ Len(shapes) = 1 /\ Len(Shape) > 1
      /\ UNCHANGED <<machine, klass, fields, closed, superOf, declared, lineage, globals, session>>
  BY DEF Method, InBody
<1>2. /\ stack' = stack /\ frames' = frames /\ shapes' = shapes /\ superOf' = superOf
      /\ declared' = declared /\ lineage' = lineage /\ klass' = klass /\ fields' = fields
      /\ closed' = closed
      /\ globals' = globals /\ line' = line /\ crashed' = crashed
  BY <1>1 DEF machine, session
<1>3. Typed /\ TypedClasses /\ Lineages /\ Inherited /\ Declaring
      /\ \A k \in Class \ declared : Fresh(k)
  BY DEF IInv, Classes
<1>4. PICK c \in Class, count \in Nat : declaring = <<c, count>>
  BY <1>1, <1>3 DEF TypedClasses
<1>5. PICK i : i = count + 1
  OBVIOUS
<1>6. PICK e : e = Declares[c][i]
  OBVIOUS
<1>7. /\ count < Len(Declares[c]) /\ declaring' = <<c, i>>
      /\ methods' = [methods EXCEPT ![c] = [methods[c] EXCEPT ![e.name] = e.method]]
  BY <1>4, <1>5, <1>6 DEF Method, AddMethod
<1>8. c \in declared /\ Len(frames) = 1 /\ \A k \in Class \ {c} : superOf[k] # c
  BY <1>1, <1>3, <1>4 DEF Declaring
<1>9. Declares[c] \in Seq([name : Name, method : Function]) /\ i \in 1 .. Len(Declares[c])
      /\ i \in Nat \ {0} /\ count = i - 1
  <2>1. Declares[c] \in Seq([name : Name, method : Function])
    BY CodeAssumption
  <2>2. PICK l \in Nat : l = Len(Declares[c])
    BY <2>1
  <2>3. i \in 1 .. l /\ i \in Nat \ {0} /\ count = i - 1
    BY <1>5, <1>7, <2>2
  <2>4. QED
    BY <2>1, <2>2, <2>3
<1>10. e \in [name : Name, method : Function] /\ i \in DOMAIN Declares[c]
  <2>1. PICK body : body = Declares[c]
    OBVIOUS
  <2>2. body \in Seq([name : Name, method : Function]) /\ i \in 1 .. Len(body) /\ e = body[i]
    BY <2>1, <1>6, <1>9
  <2>3. e \in [name : Name, method : Function] /\ i \in DOMAIN body
    <3>1. DOMAIN body = 1 .. Len(body)
      BY <2>2
    <3>2. QED
      BY <2>2, <3>1, ElementOfSeq
  <2>4. QED
    BY <2>1, <2>3
<1>11. e.name \in Name /\ e.method \in Function /\ e = [name |-> e.name, method |-> e.method]
       /\ Owner[e.method] = c
  BY <1>6, <1>10, CodeAssumption
<1>12. Started(c) /\ ~Pending
  <2>1. Shape = shapes[1]
    BY <1>8, OnlyScript
  <2>2. PICK shape : shape = <<"callee">>
    OBVIOUS
  <2>3. Len(shape) = 1
    BY <2>2
  <2>4. Pending => Shape = shape
    BY <2>1, <2>2 DEF Pending
  <2>5. Len(Shape) > 1
    BY <1>1
  <2>6. ~Pending
    BY <2>3, <2>4, <2>5
  <2>7. QED
    BY <1>1, <1>3, <1>4, <2>6 DEF Declaring
<1>13. /\ methods' \in [Class -> [Name -> Function \cup {Absent}]]
       /\ \A k \in Class \ {c} : methods'[k] = methods[k]
       /\ methods'[c][e.name] = e.method
       /\ \A n \in Name \ {e.name} : methods'[c][n] = methods[c][n]
  BY <1>3, <1>7, <1>11 DEF TypedClasses
<1>14. \A k : Started(k)' <=> Started(k)
  BY <1>2 DEF Started
<1>15. Good' = Good /\ Receivers' = Receivers
  BY <1>2 DEF Good, Receivers, Suits, Fits, Started
<1>16. Typed' /\ Layout(stack, frames, shapes, Good, Receivers)'
  BY <1>2, <1>15 DEF IInv, Typed
<1>17. Classes'
  <2>1. TypedClasses' /\ Lineages'
    BY <1>2, <1>3, <1>7, <1>9, <1>13 DEF TypedClasses, Lineages
  <2>2. Inherited'
    <3> SUFFICES ASSUME NEW k \in Class, NEW n \in Name, methods'[k][n] # Absent,
                        NEW f, f = methods'[k][n]
                 PROVE  /\ Owner[f] \in lineage[k] /\ Started(Owner[f])
                        /\ \E j \in DOMAIN Declares[Owner[f]] :
                             Declares[Owner[f]][j] = [name |-> n, method |-> f]
      BY <1>2, <1>14 DEF Inherited
    <3>1. CASE k = c /\ n = e.name
      <4>1. f = e.method
        BY <3>1, <1>13
      <4>2. Owner[f] = c /\ c \in lineage[c]
        BY <4>1, <1>3, <1>11 DEF Lineages
      <4>3. Declares[c][i] = [name |-> n, method |-> f]
        BY <4>1, <3>1, <1>6, <1>11
      <4>4. QED
        BY <3>1, <4>2, <4>3, <1>10, <1>12
    <3>2. CASE ~(k = c /\ n = e.name)
      <4>1. methods'[k][n] = methods[k][n]
        BY <3>2, <1>13
      <4>2. QED
        BY <4>1, <1>3 DEF Inherited
    <3>3. QED
      BY <3>1, <3>2
  <2>3. Declaring'
    <3>1. declaring'[1] = c /\ declaring'[2] = i /\ i <= Len(Declares[c])
      BY <1>7, <1>9
    <3>2. Started(c)' /\ ~Pending'
      BY <1>2, <1>12, <1>14 DEF Pending
    <3>3. QED
      BY <3>1, <3>2, <1>2, <1>8 DEF Declaring
  <2>4. \A k \in Class \ declared' : Fresh(k)'
    <3> SUFFICES ASSUME NEW k \in Class \ declared PROVE Fresh(k)'
      BY <1>2
    <3>1. k # c /\ Fresh(k)
      BY <1>3, <1>8
    <3>2. methods'[k] = methods[k]
      BY <3>1, <1>13
    <3>3. QED
      BY <3>1, <3>2, <1>2 DEF Fresh
  <2>5. QED
    BY <2>1, <2>2, <2>3, <2>4 DEF Classes
<1>18. MethodsNearest'
  <2> SUFFICES ASSUME NEW k \in declared PROVE Nearest(k)'
    BY <1>2, NearestForm
  <2>1. Nearest(k) /\ k \in Class
    BY <1>3, NearestForm DEF IInv, TypedClasses
  <2>2. ASSUME superOf[k] \in Class \ {k}, NEW n \in Name
        PROVE  methods'[superOf[k]][n] = methods[superOf[k]][n]
    BY <2>1, <2>2, <1>8, <1>13
  <2>3. CASE k # c
    <3>1. Declared(k)' = Declared(k)
      BY <1>4, <1>7, <2>3 DEF Declared
    <3>2. methods'[k] = methods[k]
      BY <2>1, <2>3, <1>13
    <3>3. QED
      BY <2>1, <2>2, <1>2, <3>1, <3>2 DEF Nearest
  <2>4. CASE k = c
    <3>1. Declared(c) = count /\ Declared(c)' = i
      BY <1>4, <1>7, NotDeclaringPair DEF Declared
    <3>2. ASSUME NEW n \in Name, NEW x
          PROVE  Meant(c, n, i, x) = IF n = e.name THEN e.method ELSE Meant(c, n, count, x)
      <4>1. PICK own : own = {j \in 1 .. i : Declares[c][j].name = n}
        OBVIOUS
      <4>2. Meant(c, n, i, x) =
              IF own # {} THEN Declares[c][CHOOSE j \in own : \A j2 \in own : j2 <= j].method
              ELSE x
        BY <4>1 DEF Meant
      <4>3. CASE n = e.name
        <5>1. i \in own /\ \A j \in own : j \in Nat /\ j <= i
          BY <4>1, <4>3, <1>6, <1>9
        <5>2. \A j \in own : (\A j2 \in own : j2 <= j) => j = i
          BY <5>1, <1>9
        <5>3. (CHOOSE j \in own : \A j2 \in own : j2 <= j) = i
          BY <5>1, <5>2
        <5>4. Meant(c, n, i, x) = e.method
          BY <4>2, <5>1, <5>3, <1>6
        <5>5. QED
          BY <4>3, <5>4
      <4>4. CASE n # e.name
        <5>1. own = {j \in 1 .. count : Declares[c][j].name = n}
          BY <4>1, <4>4, <1>6, <1>9
        <5>2. Meant(c, n, count, x) =
                IF own # {} THEN Declares[c][CHOOSE j \in own : \A j2 \in own : j2 <= j].method
                ELSE x
          BY <5>1 DEF Meant
        <5>3. QED
          BY <4>2, <4>4, <5>2
      <4>5. QED
        BY <4>3, <4>4
    <3>3. ASSUME ~Extends[c] \/ superOf[c] # Absent, NEW n \in Name
          PROVE  methods'[c][n] =
                   Meant(c, n, i, IF superOf[c] \in Class \ {c}
                                  THEN methods'[superOf[c]][n] ELSE Absent)
      <4>1. PICK x : x = IF superOf[c] \in Class \ {c} THEN methods[superOf[c]][n] ELSE Absent
        OBVIOUS
      <4>2. x = IF superOf[c] \in Class \ {c} THEN methods'[superOf[c]][n] ELSE Absent
        BY <2>2, <2>4, <4>1
      <4>3. methods[c][n] = Meant(c, n, count, x)
        BY <2>1, <2>4, <3>1, <3>3, <4>1 DEF Nearest
      <4>4. methods'[c][n] = Meant(c, n, i, x)
        BY <3>2, <4>3, <1>13
      <4>5. QED
        BY <4>2, <4>4
    <3>4. QED
      BY <2>4, <1>2, <3>1, <3>3 DEF Nearest
  <2>5. QED
    BY <2>3, <2>4
<1>19. QED
  BY <1>16, <1>17, <1>18 DEF IInv

(* The superclass may be any value of a variable; if it is a class it has  *)
(* been declared, and may be the class itself.                             *)
LEMMA InheritKeeps ==
  ASSUME IInv, Inherit PROVE IInv'
<1>1. /\ declaring # NotDeclaring /\ Pending
      /\ klass' = klass /\ fields' = fields /\ closed' = closed
      /\ declared' = declared /\ globals' = globals
      /\ line' = line /\ crashed' = crashed
  BY DEF Inherit, Pending, session
<1>2. Typed /\ TypedClasses /\ Lineages /\ Inherited /\ Declaring
      /\ \A k \in Class \ declared : Fresh(k)
  BY DEF IInv, Classes
<1>3. PICK c \in Class, count \in Nat : declaring = <<c, count>>
  BY <1>1, <1>2 DEF TypedClasses
<1>4. /\ count = 0 /\ Extends[c] /\ Fresh(c) /\ c \in declared /\ Len(frames) = 1
      /\ \A k \in Class \ {c} : superOf[k] # c
  BY <1>1, <1>2, <1>3 DEF Declaring
<1>5. PICK v \in declared \cup ({globals[x] : x \in Global} \ {Absent}) :
        IF v \in Class
        THEN /\ methods' = [methods EXCEPT ![c] = AddAll(methods[v], @)]
             /\ superOf' = [superOf EXCEPT ![c] = v]
             /\ lineage' = [lineage EXCEPT ![c] = {c} \cup lineage[v]]
             /\ Len(stack) + 2 <= StackMax
             /\ stack' = stack \o <<v, c>>
             /\ shapes' = << <<"callee", "operand", "operand">> >>
             /\ UNCHANGED <<frames, declaring>>
        ELSE RuntimeError /\ declaring' = NotDeclaring /\ UNCHANGED <<methods, superOf, lineage>>
  BY <1>3 DEF Inherit
<1>6. Held
  BY <1>1, <1>2 DEF Held, Typed
<1>7. CASE v \notin Class
  <2>1. RuntimeError /\ declaring' = NotDeclaring /\ UNCHANGED <<methods, superOf, lineage>>
    BY <1>5, <1>7
  <2>2. Good' = Good /\ Receivers' = Receivers
    BY <1>1, <2>1 DEF Good, Receivers, Suits, Fits, Started
  <2>3. Typed' /\ Layout(stack, frames, shapes, Good, Receivers)'
    <3>1. Moved
      BY <2>1, ErrorMoves
    <3>2. QED
      BY <1>1, <1>2, <2>2, <3>1 DEF Moved, Typed
  <2>4. Classes'
    <3>1. TypedClasses' /\ Lineages' /\ Inherited' /\ Declaring'
      BY <1>1, <1>2, <2>1 DEF TypedClasses, Lineages, Inherited, Started, Declaring
    <3>2. \A k \in Class \ declared' : Fresh(k)'
      BY <1>1, <1>2, <2>1 DEF Fresh
    <3>3. QED
      BY <3>1, <3>2 DEF Classes
  <2>5. MethodsNearest'
    <3> SUFFICES ASSUME NEW k \in declared PROVE Nearest(k)'
      BY <1>1, NearestForm
    <3>1. Nearest(k)
      BY NearestForm DEF IInv
    <3>2. CASE k # c
      <4>1. Declared(k)' = Declared(k)
        BY <1>3, <2>1, <3>2 DEF Declared
      <4>2. QED
        BY <2>1, <3>1, <4>1 DEF Nearest
    <3>3. CASE k = c
      BY <1>4, <2>1, <3>3 DEF Nearest, Fresh
    <3>4. QED
      BY <3>2, <3>3
  <2>6. QED
    BY <2>3, <2>4, <2>5 DEF IInv
<1>8. CASE v \in Class
  <2>1. /\ methods' = [methods EXCEPT ![c] = AddAll(methods[v], @)]
        /\ superOf' = [superOf EXCEPT ![c] = v]
        /\ lineage' = [lineage EXCEPT ![c] = {c} \cup lineage[v]]
        /\ Len(stack) + 2 <= StackMax
        /\ stack' = stack \o <<v, c>>
        /\ shapes' = << <<"callee", "operand", "operand">> >>
        /\ frames' = frames /\ declaring' = <<c, count>>
    BY <1>3, <1>5, <1>8
  <2>2. v \in declared
    <3>1. CASE v \in declared
      BY <3>1
    <3>2. CASE v \notin declared
      <4>1. v \in Good
        BY <3>2 DEF IInv, Typed
      <4>2. QED
        BY <1>8, <4>1, GoodValues
    <3>3. QED
      BY <3>1, <3>2
  <2>3. /\ methods' \in [Class -> [Name -> Function \cup {Absent}]]
        /\ \A k \in Class \ {c} : methods'[k] = methods[k]
        /\ \A n \in Name : methods'[c][n] = methods[v][n]
    <3>1. /\ methods \in [Class -> [Name -> Function \cup {Absent}]]
          /\ \A n \in Name : methods[c][n] = Absent
      BY <1>2, <1>4 DEF TypedClasses, Fresh
    <3>2. PICK table : table = AddAll(methods[v], methods[c])
      OBVIOUS
    <3>3. table \in [Name -> Function \cup {Absent}] /\ \A n \in Name : table[n] = methods[v][n]
      BY <1>8, <3>1, <3>2 DEF AddAll
    <3>4. methods' = [methods EXCEPT ![c] = table]
      BY <2>1, <3>2
    <3>5. QED
      BY <3>1, <3>3, <3>4
  <2>4. /\ superOf' \in [Class -> Class \cup {Absent}] /\ superOf'[c] = v
        /\ \A k \in Class \ {c} : superOf'[k] = superOf[k]
    BY <1>2, <1>8, <2>1 DEF TypedClasses
  <2>5. /\ lineage' \in [Class -> SUBSET Class] /\ lineage'[c] = {c} \cup lineage[v]
        /\ \A k \in Class \ {c} : lineage'[k] = lineage[k]
        /\ \A k \in Class : lineage[k] \subseteq lineage'[k]
    BY <1>2, <1>4, <1>8, <2>1 DEF TypedClasses, Fresh
  <2>6. Grown
    BY <1>1, <1>2, <1>8, <2>4, <2>5 DEF Grown, Typed, TypedClasses
  <2>7. Called
    <3>1. Layout(stack, frames, shapes, Good', Receivers')
      BY <2>6, GoodGrows, ReceiversGrow, LayoutGrows DEF IInv
    <3>2. frames # <<>> /\ shapes = <<Shape>> /\ Shape = shapes[1] /\ Frame.slots = 1
          /\ Len(stack) = Len(Shape) /\ Frame = frames[Len(frames)] /\ Len(shapes) = 1
      BY <1>4, OnlyScript, RunningFrame
    <3>3. Len(stack) = 1
      <4>1. Len(<<"callee">>) = 1
        OBVIOUS
      <4>2. Shape = <<"callee">>
        BY <1>1, <3>2 DEF Pending
      <4>3. QED
        BY <3>2, <4>1, <4>2
    <3>4. v \in Good' /\ c \in Good'
      BY <1>1, <1>4, <1>8, <2>2, Distinct DEF Good
    <3>5. PICK shape : shape = <<"callee", "operand", "operand">>
      OBVIOUS
    <3>6. /\ shape \in Seq(Kind) /\ shape # <<>> /\ shape[1] = "callee" /\ Len(shape) = 3
          /\ \A j \in 1 .. Len(shape) : shape[j] # "this"
      BY <3>5 DEF Kind
    <3>7. stack' \in Seq(Good') /\ Len(stack') = 3 /\ \A p \in 1 .. 1 : stack'[p] = stack[p]
      <4>1. stack \in Seq(Good') /\ <<v, c>> \in Seq(Good') /\ Len(<<v, c>>) = 2
        BY <3>1, <3>4 DEF Layout
      <4>2. /\ stack \o <<v, c>> \in Seq(Good')
            /\ Len(stack \o <<v, c>>) = Len(stack) + Len(<<v, c>>)
            /\ \A p \in 1 .. Len(stack) + Len(<<v, c>>) :
                 (stack \o <<v, c>>)[p] = IF p <= Len(stack) THEN stack[p]
                                          ELSE <<v, c>>[p - Len(stack)]
        BY <4>1, ConcatProperties
      <4>3. \A p \in 1 .. 1 : p \in 1 .. Len(stack) + Len(<<v, c>>) /\ p <= Len(stack)
        BY <3>3, <4>1
      <4>4. QED
        BY <2>1, <3>3, <4>1, <4>2, <4>3
    <3>8. Layout(stack', frames, [shapes EXCEPT ![Len(shapes)] = shape], Good', Receivers')
      <4>1. frames[Len(frames)].slots = 1 /\ Len(stack') = 1 + Len(shape) - 1
        BY <3>2, <3>6, <3>7
      <4>2. /\ Len(stack') = frames[Len(frames)].slots + Len(shape) - 1
            /\ \A p \in 1 .. frames[Len(frames)].slots : stack'[p] = stack[p]
            /\ \A j \in 1 .. Len(shape) : shape[j] = "this" =>
                 stack'[frames[Len(frames)].slots + j - 1] = stack[frames[Len(frames)].slots]
        BY <3>6, <3>7, <4>1
      <4>3. stack' \in Seq(Good') /\ frames # <<>>
        BY <3>2, <3>7
      <4>4. QED
        BY <3>1, <3>6, <4>2, <4>3, LayoutOfTop
    <3>9. [shapes EXCEPT ![Len(shapes)] = shape] = shapes'
      <4>1. [<<Shape>> EXCEPT ![1] = shape] = <<shape>>
        OBVIOUS
      <4>2. QED
        BY <2>1, <3>2, <3>5, <4>1
    <3>10. Len(stack') <= StackMax /\ Len(frames') <= FrameMax
      <4>1. Len(stack') = Len(stack) + 2
        BY <3>3, <3>7
      <4>2. QED
        BY <1>2, <2>1, <4>1 DEF Typed
    <3>11. QED
      BY <2>1, <2>6, <3>8, <3>9, <3>10 DEF Called
  <2>8. ~Pending'
    <3>1. << <<"callee", "operand", "operand">> >> # << <<"callee">> >>
      OBVIOUS
    <3>2. QED
      BY <2>1, <3>1 DEF Pending
  <2>9. Classes'
    <3>1. TypedClasses'
      BY <1>1, <1>2, <1>3, <2>1, <2>3, <2>4, <2>5 DEF TypedClasses
    <3>2. Lineages'
      <4>1. \A k \in Class : k \in lineage'[k]
        BY <1>2, <2>5 DEF Lineages
      <4>2. ASSUME NEW k \in Class, NEW l \in Class, k \in lineage'[l]
            PROVE  lineage'[k] \subseteq lineage'[l]
        <5>1. CASE l = c
          <6>1. CASE k = c
            BY <5>1, <6>1
          <6>2. CASE k # c
            <7>1. k \in lineage[v]
              BY <4>2, <5>1, <6>2, <2>5
            <7>2. lineage[k] \subseteq lineage[v]
              BY <1>2, <1>8, <7>1 DEF Lineages
            <7>3. QED
              BY <5>1, <6>2, <7>2, <2>5
          <6>3. QED
            BY <6>1, <6>2
        <5>2. CASE l # c
          <6>1. k \in lineage[l] /\ k # c
            BY <4>2, <5>2, <1>4, <2>5 DEF Fresh
          <6>2. QED
            BY <5>2, <6>1, <1>2, <2>5 DEF Lineages
        <5>3. QED
          BY <5>1, <5>2
      <4>3. ASSUME NEW k \in Class, superOf'[k] # Absent
            PROVE  superOf'[k] \in declared' /\ lineage'[superOf'[k]] \subseteq lineage'[k]
        <5>1. CASE k = c
          <6>1. lineage'[v] \subseteq lineage'[c]
            BY <1>8, <2>5
          <6>2. QED
            BY <5>1, <6>1, <1>1, <2>2, <2>4
        <5>2. CASE k # c
          <6>1. superOf[k] = superOf'[k] /\ superOf[k] # Absent /\ superOf[k] # c
            BY <4>3, <5>2, <1>4, <2>4
          <6>2. superOf[k] \in declared /\ lineage[superOf[k]] \subseteq lineage[k]
            BY <6>1, <1>2 DEF Lineages
          <6>3. superOf[k] \in Class
            BY <6>2, <1>2 DEF TypedClasses
          <6>4. QED
            BY <5>2, <6>1, <6>2, <6>3, <1>1, <2>5
        <5>3. QED
          BY <5>1, <5>2
      <4>4. QED
        BY <4>1, <4>2, <4>3 DEF Lineages
    <3>3. Inherited'
      <4>1. ASSUME NEW k, Started(k) PROVE Started(k)'
        BY <4>1, <1>8, <2>1, <1>2, <2>4 DEF Started, TypedClasses
      <4> SUFFICES ASSUME NEW k \in Class, NEW n \in Name, methods'[k][n] # Absent,
                          NEW f, f = methods'[k][n]
                   PROVE  /\ Owner[f] \in lineage'[k] /\ Started(Owner[f])'
                          /\ \E j \in DOMAIN Declares[Owner[f]] :
                               Declares[Owner[f]][j] = [name |-> n, method |-> f]
        BY DEF Inherited
      <4>2. PICK l \in Class : methods[l][n] = f /\ lineage[l] \subseteq lineage'[k]
        <5>1. CASE k = c
          BY <5>1, <1>8, <2>3, <2>5
        <5>2. CASE k # c
          BY <5>2, <2>3, <2>5
        <5>3. QED
          BY <5>1, <5>2
      <4>3. /\ Owner[f] \in lineage[l] /\ Started(Owner[f])
            /\ \E j \in DOMAIN Declares[Owner[f]] :
                 Declares[Owner[f]][j] = [name |-> n, method |-> f]
        BY <4>2, <1>2 DEF Inherited
      <4>4. QED
        BY <4>1, <4>2, <4>3
    <3>4. Declaring'
      <4>1. declaring'[1] = c /\ declaring'[2] = 0 /\ 0 <= Len(Declares[c])
        BY <1>4, <2>1, CodeAssumption
      <4>2. \A k \in Class \ {c} : superOf'[k] # c
        BY <1>4, <2>4
      <4>3. Started(c)'
        BY <1>8, <2>4 DEF Started
      <4>4. QED
        BY <4>1, <4>2, <4>3, <1>1, <1>4, <2>1, <2>8 DEF Declaring
    <3>5. \A k \in Class \ declared' : Fresh(k)'
      <4> SUFFICES ASSUME NEW k \in Class \ declared PROVE Fresh(k)'
        BY <1>1
      <4>1. k # c /\ k # v /\ Fresh(k)
        BY <1>2, <1>4, <2>2
      <4>2. k \notin lineage[v]
        BY <4>1, <1>8 DEF Fresh
      <4>3. \A l \in Class \ {k} : k \notin lineage'[l] /\ superOf'[l] # k
        <5> SUFFICES ASSUME NEW l \in Class \ {k} PROVE k \notin lineage'[l] /\ superOf'[l] # k
          OBVIOUS
        <5>1. CASE l = c
          BY <5>1, <4>1, <4>2, <2>4, <2>5
        <5>2. CASE l # c
          BY <5>2, <4>1, <2>4, <2>5 DEF Fresh
        <5>3. QED
          BY <5>1, <5>2
      <4>4. lineage'[k] = {k} /\ superOf'[k] = Absent /\ \A n \in Name : methods'[k][n] = Absent
        BY <4>1, <2>3, <2>4, <2>5 DEF Fresh
      <4>5. QED
        BY <4>3, <4>4 DEF Fresh
    <3>6. QED
      BY <3>1, <3>2, <3>3, <3>4, <3>5 DEF Classes
  <2>10. MethodsNearest'
    <3> SUFFICES ASSUME NEW k \in declared PROVE Nearest(k)'
      BY <1>1, NearestForm
    <3>1. Nearest(k) /\ k \in Class
      BY <1>2, NearestForm DEF IInv, TypedClasses
    <3>2. CASE k # c
      <4>1. Declared(k)' = Declared(k)
        BY <1>3, <2>1, <3>2 DEF Declared
      <4>2. methods'[k] = methods[k] /\ superOf'[k] = superOf[k] /\ superOf[k] # c
        BY <3>1, <3>2, <1>4, <2>3, <2>4
      <4>3. superOf[k] \in Class => methods'[superOf[k]] = methods[superOf[k]]
        BY <4>2, <2>3
      <4>4. QED
        BY <3>1, <4>1, <4>2, <4>3 DEF Nearest
    <3>3. CASE k = c
      <4>1. Declared(c)' = 0
        BY <1>4, <2>1, NotDeclaringPair DEF Declared
      <4>2. \A n \in Name : \A x : Meant(c, n, 0, x) = x
        BY DEF Meant
      <4>3. ASSUME NEW n \in Name
            PROVE  methods'[c][n] = IF superOf'[c] \in Class \ {c}
                                    THEN methods'[superOf'[c]][n] ELSE Absent
        <5>1. CASE v = c
          <6>1. methods[c][n] = Absent
            BY <1>4 DEF Fresh
          <6>2. QED
            BY <5>1, <6>1, <2>3, <2>4
        <5>2. CASE v # c
          BY <5>2, <1>8, <2>3, <2>4
        <5>3. QED
          BY <5>1, <5>2
      <4>4. QED
        BY <3>3, <4>1, <4>2, <4>3 DEF Nearest
    <3>4. QED
      BY <3>2, <3>3
  <2>11. QED
    BY <1>6, <2>7, <2>9, <2>10, HeldTyped DEF IInv, Called
<1>9. QED
  BY <1>7, <1>8

LEMMA EndClassKeeps ==
  ASSUME IInv, EndClass PROVE IInv'
<1>1. /\ declaring # NotDeclaring /\ Len(Shape) > 1 /\ declaring' = NotDeclaring
      /\ stack' = SubSeq(stack, 1, Len(stack) - (Len(Shape) - 1))
      /\ shapes' = << <<"callee">> >> /\ frames' = frames
      /\ klass' = klass /\ fields' = fields /\ closed' = closed
      /\ methods' = methods /\ superOf' = superOf
      /\ declared' = declared /\ lineage' = lineage /\ globals' = globals
      /\ line' = line /\ crashed' = crashed
      /\ declaring[2] = Len(Declares[declaring[1]])
  BY DEF EndClass, InBody, session
<1>2. Typed /\ TypedClasses /\ Lineages /\ Inherited /\ Declaring
      /\ \A k \in Class \ declared : Fresh(k)
  BY DEF IInv, Classes
<1>3. Len(frames) = 1
  BY <1>1, <1>2 DEF Declaring
<1>4. Good' = Good /\ Receivers' = Receivers
  BY <1>1 DEF Good, Receivers, Suits, Fits, Started
<1>5. Typed' /\ Layout(stack, frames, shapes, Good, Receivers)'
  <2>1. frames # <<>> /\ shapes = <<Shape>> /\ Shape = shapes[1] /\ Frame.slots = 1
        /\ Len(stack) = Len(Shape) /\ Frame = frames[Len(frames)] /\ Len(shapes) = 1
        /\ stack \in Seq(Good) /\ Len(stack) \in Nat
    BY <1>3, OnlyScript, RunningFrame
  <2>2. stack' = SubSeq(stack, 1, 1) /\ 1 \in 0 .. Len(stack)
    <3>1. Len(stack) - (Len(Shape) - 1) = 1 /\ Len(stack) > 1
      BY <1>1, <2>1
    <3>2. QED
      BY <1>1, <2>1, <3>1
  <2>3. stack' \in Seq(Good) /\ Len(stack') = 1 /\ stack'[1] = stack[1]
    BY <2>1, <2>2, SubSeqProperties
  <2>4. PICK shape : shape = <<"callee">>
    OBVIOUS
  <2>5. /\ shape \in Seq(Kind) /\ shape # <<>> /\ shape[1] = "callee" /\ Len(shape) = 1
        /\ \A j \in 1 .. Len(shape) : shape[j] # "this"
    BY <2>4 DEF Kind
  <2>6. Layout(stack', frames, [shapes EXCEPT ![Len(shapes)] = shape], Good, Receivers)
    <3>1. frames[Len(frames)].slots = 1
      BY <2>1
    <3>2. /\ Len(stack') = frames[Len(frames)].slots + Len(shape) - 1
          /\ \A p \in 1 .. frames[Len(frames)].slots : stack'[p] = stack[p]
          /\ \A j \in 1 .. Len(shape) : shape[j] = "this" =>
               stack'[frames[Len(frames)].slots + j - 1] = stack[frames[Len(frames)].slots]
      BY <2>3, <2>5, <3>1
    <3>3. Layout(stack, frames, shapes, Good, Receivers)
      BY DEF IInv
    <3>4. QED
      BY <2>1, <2>3, <2>5, <3>2, <3>3, LayoutOfTop
  <2>7. [shapes EXCEPT ![Len(shapes)] = shape] = shapes'
    <3>1. [<<Shape>> EXCEPT ![1] = shape] = <<shape>>
      OBVIOUS
    <3>2. QED
      BY <1>1, <2>1, <2>4, <3>1
  <2>8. Len(stack') <= StackMax
    BY <2>3, BoundsAssumption
  <2>9. QED
    BY <1>1, <1>2, <1>4, <2>6, <2>7, <2>8 DEF Typed
<1>6. Classes'
  <2>1. TypedClasses' /\ Lineages' /\ Inherited' /\ Declaring'
    BY <1>1, <1>2 DEF TypedClasses, Lineages, Inherited, Started, Declaring
  <2>2. \A k \in Class \ declared' : Fresh(k)'
    BY <1>1, <1>2 DEF Fresh
  <2>3. QED
    BY <2>1, <2>2 DEF Classes
<1>7. MethodsNearest'
  <2> SUFFICES ASSUME NEW k \in declared PROVE Nearest(k)'
    BY <1>1, NearestForm
  <2>1. Nearest(k)
    BY NearestForm DEF IInv
  <2>2. Declared(k)' = Declared(k)
    BY <1>1 DEF Declared
  <2>3. QED
    BY <1>1, <2>1, <2>2 DEF Nearest
<1>8. QED
  BY <1>5, <1>6, <1>7 DEF IInv

LEMMA StutterKeeps ==
  ASSUME IInv, UNCHANGED vars PROVE IInv'
<1>1. /\ stack' = stack /\ frames' = frames /\ shapes' = shapes /\ klass' = klass
      /\ fields' = fields /\ closed' = closed /\ methods' = methods /\ superOf' = superOf /\ declaring' = declaring
      /\ declared' = declared /\ lineage' = lineage /\ globals' = globals
      /\ line' = line /\ crashed' = crashed
  BY DEF vars, machine, classes, session
<1>2. Good' = Good /\ Receivers' = Receivers
  BY <1>1 DEF Good, Receivers, Suits, Fits, Started
<1>3. Typed' /\ Layout(stack, frames, shapes, Good, Receivers)'
  BY <1>1, <1>2 DEF IInv, Typed
<1>4. Classes'
  <2>1. TypedClasses' /\ Lineages' /\ Inherited' /\ Declaring'
    <3>1. TypedClasses' /\ Lineages'
      BY <1>1 DEF IInv, Classes, TypedClasses, Lineages
    <3>2. Inherited'
      BY <1>1 DEF IInv, Classes, Inherited, Started
    <3>3. \A c : (Started(c)' <=> Started(c)) /\ (Fresh(c)' <=> Fresh(c))
      BY <1>1 DEF Started, Fresh
    <3>4. Pending' <=> Pending
      BY <1>1 DEF Pending
    <3>5. Declaring'
      BY <1>1, <3>3, <3>4 DEF IInv, Classes, Declaring
    <3>6. QED
      BY <3>1, <3>2, <3>5
  <2>2. \A k \in Class \ declared' : Fresh(k)'
    BY <1>1 DEF IInv, Classes, Fresh
  <2>3. QED
    BY <2>1, <2>2 DEF Classes
<1>5. MethodsNearest'
  <2>1. UNCHANGED classes
    BY <1>1 DEF classes
  <2>2. QED
    BY <2>1, NearestKept DEF IInv
<1>6. QED
  BY <1>3, <1>4, <1>5 DEF IInv

-------------------------------------------------------------------------------
(* The specification keeps the invariant.                                  *)

LEMMA InitIInv ==
  ASSUME Init PROVE IInv
<1>1. Layout(stack, frames, shapes, Good, Receivers)
  BY LayoutOfNothing DEF Init
<1>2. Typed
  <2>1. Len(stack) = 0 /\ Len(frames) = 0 /\ line = 0 /\ crashed = FALSE
    BY DEF Init
  <2>2. /\ klass \in [Instance -> Class \cup {Absent}]
        /\ fields \in [Instance -> [Name -> Good \cup {Absent}]]
        /\ globals \in [Global -> Good \cup {Absent}] /\ closed \subseteq Good
    BY DEF Init
  <2>3. Len(stack) <= StackMax /\ Len(frames) <= FrameMax /\ line \in 0 .. Lines
    BY <2>1, BoundsAssumption
  <2>4. crashed \in BOOLEAN
    BY <2>1
  <2>5. QED
    BY <2>2, <2>3, <2>4 DEF Typed
<1>3. Classes
  <2>1. TypedClasses /\ Lineages
    BY DEF Init, TypedClasses, Lineages
  <2>2. Inherited /\ Declaring
    BY DEF Init, Inherited, Declaring
  <2>3. \A c \in Class : Fresh(c)
    BY Distinct DEF Init, Fresh
  <2>4. QED
    BY <2>1, <2>2, <2>3 DEF Classes
<1>4. MethodsNearest
  BY DEF Init, MethodsNearest
<1>5. QED
  BY <1>1, <1>2, <1>3, <1>4 DEF IInv

LEMMA NextKeeps ==
  ASSUME Steady, IInv, [Next]_vars PROVE IInv'
<1>1. CASE Interpret
  BY <1>1, InterpretKeeps
<1>2. CASE Const \/ GetClass
  BY <1>2, ConstKeeps
<1>3. CASE GetLocal
  BY <1>3, GetLocalKeeps
<1>4. CASE GetThis
  BY <1>4, GetThisKeeps
<1>5. CASE SetLocal
  BY <1>5, SetLocalKeeps
<1>6. CASE Pop
  BY <1>6, PopKeeps
<1>7. ASSUME NEW x \in Global, GetGlobal(x) \/ SetGlobal(x) \/ DefineGlobal(x) PROVE IInv'
  BY <1>7, GetGlobalKeeps, SetGlobalKeeps
<1>8. ASSUME NEW argc \in 0 .. StackMax, Call(argc) PROVE IInv'
  <2>1. argc \in Nat
    OBVIOUS
  <2>2. QED
    BY <1>8, <2>1, CallKeeps
<1>9. ASSUME NEW argc \in 0 .. StackMax, NEW n \in Name, Invoke(n, argc) \/ SuperInvoke(n, argc)
      PROVE  IInv'
  <2>1. argc \in Nat
    OBVIOUS
  <2>2. QED
    BY <1>9, <2>1, InvokeKeeps, SuperInvokeKeeps
<1>10. ASSUME NEW n \in Name, GetProperty(n) \/ SetProperty(n) \/ GetSuper(n) PROVE IInv'
  BY <1>10, GetPropertyKeeps, SetPropertyKeeps, GetSuperKeeps
<1>11. ASSUME NEW c \in Class, BeginClass(c) PROVE IInv'
  BY <1>11, BeginClassKeeps
<1>12. CASE Inherit
  BY <1>12, InheritKeeps
<1>13. CASE Method
  BY <1>13, MethodKeeps
<1>14. CASE EndClass
  BY <1>14, EndClassKeeps
<1>15. CASE Return \/ ReturnScript
  BY <1>15, ReturnKeeps, ReturnScriptKeeps
<1>16. CASE Halt \/ UNCHANGED vars
  BY <1>16, StutterKeeps DEF Halt
<1>17. CASE Declare \/ Closure \/ EndScope
  BY <1>17, DeclareKeeps, EndScopeKeeps
<1>18. CASE GetUpvalue \/ SetUpvalue
  BY <1>18, GetUpvalueKeeps, SetUpvalueKeeps
<1>19. QED
  BY <1>1, <1>2, <1>3, <1>4, <1>5, <1>6, <1>7, <1>8, <1>9, <1>10, <1>11, <1>12, <1>13,
     <1>14, <1>15, <1>16, <1>17, <1>18 DEF Next

LEMMA SpecIInv ==
  ASSUME Steady PROVE Spec => []IInv
<1>1. Init => IInv
  BY InitIInv
<1>2. IInv /\ [Next]_vars => IInv'
  BY NextKeeps
<1>3. QED
  BY <1>1, <1>2, PTL DEF Spec

-------------------------------------------------------------------------------
(* What a step does to the frames.                                         *)

(* The slots under the running frame are as before.                        *)
Untouched == \A p \in 1 .. Frame.slots - 1 : stack'[p] = stack[p]

(* Captured variables stay captured until they end.                        *)
Marked(old, new) ==
  \A j \in 1 .. Len(old) : old[j] = "captured" =>
    j > Len(new) \/ (j \in 1 .. Len(new) /\ new[j] = "captured")

Shaped ==
  \E shape : Marked(Shape, shape) /\ shapes' = [shapes EXCEPT ![Len(shapes)] = shape]

Inside == frames # <<>> /\ frames' = frames /\ Untouched /\ Shaped

Entered ==
  /\ frames # <<>>
  /\ \E argc \in Nat, f \in Function, slot0 \in Value, made \in Instance \cup {Absent} :
       Operands(argc + 1) /\ Enter(f, argc, slot0, made)

(* A captured variable of some activation is assigned.                     *)
Assigned ==
  /\ frames # <<>> /\ frames' = frames /\ shapes' = shapes
  /\ \E c \in Captured, v \in Good :
       stack' = [stack EXCEPT ![frames[c[1]].slots + c[2] - 1] = v]

Stepped == \/ Inside \/ Entered \/ Assigned \/ Return \/ (frames' = <<>> /\ shapes' = <<>>)
           \/ Interpret \/ UNCHANGED machine

(* Operands are not captured.                                              *)
LEMMA SameShaped ==
  ASSUME IInv, frames # <<>>, shapes' = shapes PROVE Shaped
<1>1. /\ shapes \in Seq(Seq(Kind)) /\ Len(shapes) = Len(frames) /\ Len(frames) \in Nat \ {0}
      /\ Shape = shapes[Len(shapes)]
  BY RunningFrame
<1>2. shapes' = [shapes EXCEPT ![Len(shapes)] = Shape]
  BY <1>1
<1>3. Marked(Shape, Shape)
  BY DEF Marked
<1>4. QED
  BY <1>2, <1>3 DEF Shaped

LEMMA ResultMarked ==
  ASSUME NEW shape \in Seq(Kind), NEW k \in Nat, k < Len(shape),
         \A i \in Len(shape) - k + 1 .. Len(shape) : shape[i] # "captured", NEW kind \in Kind
  PROVE  /\ Append(SubSeq(shape, 1, Len(shape) - k), kind) \in Seq(Kind)
         /\ Len(Append(SubSeq(shape, 1, Len(shape) - k), kind)) = Len(shape) - k + 1
         /\ \A j \in 1 .. Len(shape) : shape[j] = "captured" =>
              /\ j \in 1 .. Len(shape) - k
              /\ Append(SubSeq(shape, 1, Len(shape) - k), kind)[j] = "captured"
         /\ \A j \in 1 .. Len(shape) - k :
              Append(SubSeq(shape, 1, Len(shape) - k), kind)[j] = shape[j]
         /\ Append(SubSeq(shape, 1, Len(shape) - k), kind)[Len(shape) - k + 1] = kind
<1>1. PICK wide : wide = Len(shape)
  OBVIOUS
<1>2. PICK left : left = SubSeq(shape, 1, wide - k)
  OBVIOUS
<1>3. wide \in Nat /\ wide - k \in 0 .. wide
  BY <1>1
<1>4. left \in Seq(Kind) /\ Len(left) = wide - k /\ \A j \in 1 .. wide - k : left[j] = shape[j]
  BY <1>1, <1>2, <1>3, SubSeqProperties
<1>5. PICK new : new = Append(left, kind)
  OBVIOUS
<1>6. /\ new \in Seq(Kind) /\ Len(new) = wide - k + 1
      /\ \A j \in 1 .. wide - k : new[j] = shape[j]
      /\ new[wide - k + 1] = kind
  BY <1>4, <1>5, AppendProperties
<1>7. ASSUME NEW j \in 1 .. wide, shape[j] = "captured"
      PROVE  j \in 1 .. wide - k /\ new[j] = "captured"
  <2>1. j \notin wide - k + 1 .. wide
    BY <1>1, <1>7
  <2>2. j \in 1 .. wide - k
    BY <1>3, <2>1
  <2>3. QED
    BY <1>6, <1>7, <2>2
<1>8. QED
  BY <1>1, <1>2, <1>5, <1>6, <1>7

LEMMA ResultShaped ==
  ASSUME IInv, frames # <<>>, NEW k \in Nat, Operands(k), NEW kind \in Kind,
         shapes' = Result(k, kind)
  PROVE  Shaped
<1>1. /\ shapes \in Seq(Seq(Kind)) /\ Len(shapes) = Len(frames) /\ Len(frames) \in Nat \ {0}
      /\ Shape = shapes[Len(shapes)] /\ Shape \in Seq(Kind) /\ Len(Shape) \in Nat
  BY RunningFrame
<1>2. PICK shape : shape = Append(SubSeq(Shape, 1, Len(Shape) - k), kind)
  OBVIOUS
<1>3. shapes' = [shapes EXCEPT ![Len(shapes)] = shape]
  BY <1>1, <1>2 DEF Result
<1>4. k < Len(Shape) /\ \A i \in Len(Shape) - k + 1 .. Len(Shape) : Shape[i] # "captured"
  BY DEF Operands
<1>5. /\ Len(shape) = Len(Shape) - k + 1
      /\ \A j \in 1 .. Len(Shape) : Shape[j] = "captured" =>
           j \in 1 .. Len(Shape) - k /\ shape[j] = "captured"
  BY <1>1, <1>2, <1>4, ResultMarked
<1>6. \A j \in 1 .. Len(Shape) - k : j \in 1 .. Len(shape)
  BY <1>1, <1>4, <1>5
<1>7. Marked(Shape, shape)
  BY <1>5, <1>6 DEF Marked
<1>8. QED
  BY <1>3, <1>7 DEF Shaped

LEMMA FrontShaped ==
  ASSUME IInv, frames # <<>>, 1 < Len(Shape), shapes' = [shapes EXCEPT ![Len(shapes)] = Front(@)]
  PROVE  Shaped
<1>1. /\ shapes \in Seq(Seq(Kind)) /\ Len(shapes) = Len(frames) /\ Len(frames) \in Nat \ {0}
      /\ Shape = shapes[Len(shapes)] /\ Shape \in Seq(Kind) /\ Len(Shape) \in Nat
  BY RunningFrame
<1>2. PICK top \in Nat : top = Len(Shape) - 1
  <2>1. PICK wide : wide = Len(Shape)
    OBVIOUS
  <2>2. wide \in Nat /\ 1 < wide
    BY <1>1, <2>1
  <2>3. wide - 1 \in Nat
    BY <2>2
  <2>4. QED
    BY <2>1, <2>3
<1>3. PICK shape : shape = SubSeq(Shape, 1, top)
  OBVIOUS
<1>4. shapes' = [shapes EXCEPT ![Len(shapes)] = shape]
  BY <1>1, <1>2, <1>3 DEF Front
<1>5. top \in 0 .. Len(Shape)
  BY <1>1, <1>2
<1>6. Len(shape) = top /\ \A j \in 1 .. top : shape[j] = Shape[j]
  BY <1>1, <1>3, <1>5, SubSeqProperties
<1>7. \A j \in 1 .. Len(Shape) : j > top \/ j \in 1 .. top
  BY <1>1, <1>2
<1>8. Marked(Shape, shape)
  BY <1>6, <1>7 DEF Marked
<1>9. QED
  BY <1>4, <1>8 DEF Shaped

LEMMA ReplaceInside ==
  ASSUME IInv, frames # <<>>, NEW k \in Nat, Operands(k), NEW v, NEW kind \in Kind,
         stack' = Append(SubSeq(stack, 1, Len(stack) - k), v), frames' = frames,
         shapes' = Result(k, kind)
  PROVE  Inside
<1> DEFINE wide == Len(Shape)
           base == Frame.slots
           high == Len(stack)
           kept == SubSeq(stack, 1, high - k)
           G == Good \cup {v}
<1>1. /\ wide \in Nat \ {0} /\ base \in Nat \ {0} /\ high \in Nat /\ high = base + wide - 1
      /\ stack \in Seq(Good) /\ k < wide
  BY RunningFrame DEF Operands
<1>2. stack' = Append(kept, v)
  OBVIOUS
<1> HIDE DEF wide, base, high
<1>3. high - k \in 0 .. high /\ base <= high - k
  BY <1>1
<1>4. stack \in Seq(G) /\ high = Len(stack)
  BY <1>1 DEF high
<1> HIDE DEF G
<1>5. kept \in Seq(G) /\ Len(kept) = high - k /\ \A p \in 1 .. high - k : kept[p] = stack[p]
  BY <1>3, <1>4, SubSeqProperties
<1>6. v \in G
  BY DEF G
<1> HIDE DEF kept
<1>7. \A p \in 1 .. Len(kept) : stack'[p] = kept[p]
  BY <1>2, <1>5, <1>6, AppendProperties
<1>8. \A p \in 1 .. base - 1 : p \in 1 .. high - k
  BY <1>1, <1>3
<1>9. \A p \in 1 .. base - 1 : stack'[p] = stack[p]
  BY <1>5, <1>7, <1>8
<1>10. Shaped
  BY ResultShaped
<1>11. QED
  BY <1>9, <1>10 DEF Inside, Untouched, base

LEMMA ComputeInside ==
  ASSUME IInv, frames # <<>>, NEW k \in Nat, Operands(k), NEW v, Compute(k, v)
  PROVE  Inside
<1>1. "operand" \in Kind
  BY DEF Kind
<1>2. QED
  BY <1>1, ReplaceInside DEF Compute, Replace

(* A value in the running frame changes.                                   *)
LEMMA StoreInside ==
  ASSUME IInv, frames # <<>>, NEW slot \in Int, slot >= Frame.slots, NEW v,
         stack' = [stack EXCEPT ![slot] = v], frames' = frames, Shaped
  PROVE  Inside
<1>1. Frame.slots \in 1 .. Len(stack) /\ stack \in Seq(Good) /\ Len(stack) \in Nat
  BY RunningFrame
<1>2. PICK base : base = Frame.slots
  OBVIOUS
<1>3. PICK high : high = Len(stack)
  OBVIOUS
<1>4. base \in 1 .. high /\ high \in Nat /\ DOMAIN stack = 1 .. high /\ slot >= base
  BY <1>1, <1>2, <1>3
<1>5. \A p \in 1 .. base - 1 : p \in DOMAIN stack /\ p # slot
  BY <1>4
<1>6. \A p \in 1 .. base - 1 : stack'[p] = stack[p]
  BY <1>5
<1>7. QED
  BY <1>2, <1>6 DEF Inside, Untouched

LEMMA DropInside ==
  ASSUME IInv, frames # <<>>, 1 < Len(Shape), stack' = Front(stack), frames' = frames,
         shapes' = [shapes EXCEPT ![Len(shapes)] = Front(@)]
  PROVE  Inside
<1>1. /\ Frame.slots \in Nat \ {0} /\ Len(Shape) \in Nat \ {0} /\ Len(stack) \in Nat
      /\ Len(stack) = Frame.slots + Len(Shape) - 1 /\ stack \in Seq(Good) /\ 1 < Len(Shape)
  BY RunningFrame
<1>2. PICK base : base = Frame.slots
  OBVIOUS
<1>3. PICK top : top = Len(stack) - 1
  OBVIOUS
<1>4. base \in Nat \ {0} /\ top \in 0 .. Len(stack) /\ base <= top
  BY <1>1, <1>2, <1>3
<1>5. stack' = SubSeq(stack, 1, top)
  BY <1>3 DEF Front
<1>6. \A p \in 1 .. top : stack'[p] = stack[p]
  BY <1>1, <1>4, <1>5, SubSeqProperties
<1>7. \A p \in 1 .. base - 1 : p \in 1 .. top
  BY <1>4
<1>8. QED
  BY <1>2, <1>6, <1>7, FrontShaped DEF Inside, Untouched

LEMMA ScriptInside ==
  ASSUME IInv, Len(frames) = 1, frames' = frames, Shaped PROVE Inside
<1>1. Frame.slots = 1 /\ frames # <<>>
  BY OnlyScript
<1>2. QED
  BY <1>1 DEF Inside, Untouched

LEMMA PushFrameSteps ==
  ASSUME IInv, frames # <<>>, NEW argc \in Nat, Operands(argc + 1), NEW f \in Function,
         NEW slot0 \in Value, PushFrame(f, argc, slot0)
  PROVE  Stepped
BY DEF PushFrame, RuntimeError, Stepped, Entered

LEMMA CallValueSteps ==
  ASSUME IInv, frames # <<>>, NEW argc \in Nat, Operands(argc + 1), NEW callee,
         CallValue(callee, argc)
  PROVE  Stepped
<1>1. CASE RuntimeError
  BY <1>1 DEF RuntimeError, Stepped
<1>2. CASE callee \in Function /\ PushFrame(callee, argc, Peek(argc))
  <2>1. argc < Len(Shape)
    BY RunningFrame DEF Operands
  <2>2. Peek(argc) \in Value
    BY <2>1, PeekGood, GoodValues
  <2>3. QED
    BY <1>2, <2>2, PushFrameSteps
<1>3. CASE callee \in Bound /\ PushFrame(callee.method, argc, callee.receiver)
  <2>1. callee.receiver \in Value /\ callee.method \in Function
    BY <1>3 DEF Bound, Value
  <2>2. QED
    BY <1>3, <2>1, PushFrameSteps
<1>4. CASE callee \in Class /\ Instantiate(callee, argc) /\ ~RuntimeError
  <2>1. PICK init : init = methods[callee][Initializer]
    OBVIOUS
  <2>2. init \in Function \cup {Absent}
    BY <1>4, <2>1, BoundsAssumption DEF IInv, Classes, TypedClasses
  <2>3. PICK new \in Instance :
          IF init # Absent THEN Enter(init, argc, new, new)
          ELSE /\ stack' = [stack EXCEPT ![Len(stack)] = new] /\ frames' = frames
               /\ shapes' = Result(argc + 1, "operand")
    BY <1>4, <2>1 DEF Instantiate
  <2>4. CASE init # Absent
    <3>1. Enter(init, argc, new, new) /\ init \in Function /\ new \in Value
      BY <2>2, <2>3, <2>4, Distinct
    <3>2. QED
      BY <3>1 DEF Stepped, Entered
  <2>5. CASE init = Absent
    <3>1. Len(stack) \in Int /\ Len(stack) >= Frame.slots
      BY RunningFrame
    <3>2. argc + 1 \in Nat /\ "operand" \in Kind
      BY DEF Kind
    <3>3. Shaped
      BY <2>3, <2>5, <3>2, ResultShaped
    <3>4. QED
      BY <2>3, <2>5, <3>1, <3>3, StoreInside DEF Stepped
  <2>6. QED
    BY <2>4, <2>5
<1>5. CASE callee \in Native /\ CallNative(argc)
  <2>1. PICK res \in Data : Compute(argc + 1, res)
    BY <1>5 DEF CallNative
  <2>2. argc + 1 \in Nat
    OBVIOUS
  <2>3. QED
    BY <2>1, <2>2, ComputeInside DEF Stepped
<1>6. QED
  BY <1>1, <1>2, <1>3, <1>4, <1>5 DEF CallValue

LEMMA CallsStep ==
  ASSUME IInv, NEW argc \in Nat, NEW n \in Name,
         Call(argc) \/ Invoke(n, argc) \/ SuperInvoke(n, argc)
  PROVE  Stepped
<1>1. frames # <<>>
  BY DEF Call, Invoke, SuperInvoke, InCode
<1>2. CASE Fail \/ Crash
  BY <1>2 DEF Fail, Crash, RuntimeError, Stepped
<1>3. Operands(argc + 1)
  BY DEF Call, Invoke, SuperInvoke, OnThis
<1>4. ASSUME NEW callee, CallValue(callee, argc) PROVE Stepped
  BY <1>1, <1>3, <1>4, CallValueSteps
<1>5. QED
  BY <1>2, <1>4 DEF Call, Invoke, SuperInvoke

LEMMA CodeSteps ==
  ASSUME IInv, NEW x, NEW n,
         \/ Const \/ GetClass \/ GetLocal \/ GetThis \/ SetLocal \/ Pop \/ GetUpvalue
         \/ GetGlobal(x) \/ SetGlobal(x) \/ DefineGlobal(x)
         \/ GetProperty(n) \/ SetProperty(n) \/ GetSuper(n)
  PROVE  Stepped
<1>1. frames # <<>>
  BY DEF Const, GetClass, GetLocal, GetThis, SetLocal, Pop, GetGlobal, SetGlobal, DefineGlobal,
         GetProperty, SetProperty, GetSuper, GetUpvalue, InClosure, InCode, Load
<1>2. Len(Shape) \in Nat \ {0}
  BY <1>1, RunningFrame
<1>3. ASSUME NEW v, Compute(0, v) PROVE Stepped
  <2>1. Operands(0) /\ 0 \in Nat
    BY <1>2 DEF Operands
  <2>2. QED
    BY <1>1, <1>3, <2>1, ComputeInside DEF Stepped
<1>4. ASSUME NEW k \in Nat, NEW v, Compute(k, v), Operands(k) PROVE Stepped
  BY <1>1, <1>4, ComputeInside DEF Stepped
<1>5. CASE RuntimeError \/ UNCHANGED machine
  BY <1>5 DEF Stepped, RuntimeError
<1>6. CASE Const \/ GetClass \/ GetLocal \/ GetUpvalue \/ GetGlobal(x)
  BY <1>3, <1>5, <1>6 DEF Const, GetClass, GetLocal, GetUpvalue, GetGlobal, Load
<1>7. CASE GetThis
  <2>1. stack' = Append(SubSeq(stack, 1, Len(stack) - 0), stack[Frame.slots]) /\ frames' = frames
        /\ shapes' = Result(0, "this")
    BY <1>7 DEF GetThis, Replace
  <2>2. Operands(0) /\ 0 \in Nat /\ "this" \in Kind
    BY <1>2 DEF Operands, Kind
  <2>3. QED
    BY <1>1, <2>1, <2>2, ReplaceInside DEF Stepped
<1>8. CASE SetLocal
  <2>1. PICK i \in DOMAIN Shape \cup {1} : stack' = [stack EXCEPT ![Frame.slots + i - 1] = Peek(0)]
    BY <1>8 DEF SetLocal, Variables
  <2>2. frames' = frames /\ Shaped
    BY <1>1, <1>8, SameShaped DEF SetLocal
  <2>3. Frame.slots \in Nat \ {0} /\ Shape \in Seq(Kind)
    BY <1>1, RunningFrame
  <2>4. i \in Nat \ {0}
    BY <2>3
  <2>5. Frame.slots + i - 1 \in Int /\ Frame.slots + i - 1 >= Frame.slots
    BY <2>3, <2>4
  <2>6. QED
    BY <1>1, <2>1, <2>2, <2>5, StoreInside DEF Stepped
<1>9. CASE Pop \/ DefineGlobal(x)
  <2>1. 1 < Len(Shape) /\ stack' = Front(stack) /\ frames' = frames
        /\ shapes' = [shapes EXCEPT ![Len(shapes)] = Front(@)]
    <3>1. CASE Pop
      BY <1>1, <3>1, TopOperand DEF Pop
    <3>2. CASE DefineGlobal(x)
      <4>1. Len(shapes) = 1
        BY <1>1, <3>2, RunningFrame DEF DefineGlobal
      <4>2. QED
        BY <1>1, <3>2, <4>1, TopOperand DEF DefineGlobal
    <3>3. QED
      BY <1>9, <3>1, <3>2
  <2>2. QED
    BY <1>1, <2>1, DropInside DEF Stepped
<1>10. CASE SetGlobal(x)
  BY <1>5, <1>10 DEF SetGlobal
<1>11. CASE GetProperty(n) \/ SetProperty(n)
  BY <1>4, <1>5, <1>11 DEF GetProperty, SetProperty
<1>12. CASE GetSuper(n)
  <2>1. Operands(1)
    <3>1. 0 + 1 = 1
      OBVIOUS
    <3>2. QED
      BY <1>12, <3>1 DEF GetSuper, OnThis
  <2>3. CASE UNCHANGED machine
    BY <2>3, <1>5
  <2>4. CASE Compute(1, [receiver |-> Peek(0), method |-> SuperMethod(n)])
    BY <1>4, <2>1, <2>4
  <2>5. QED
    BY <1>12, <2>3, <2>4 DEF GetSuper, Crash
<1>13. QED
  BY <1>6, <1>7, <1>8, <1>9, <1>10, <1>11, <1>12

LEMMA VariableSteps ==
  ASSUME IInv, Declare \/ Closure \/ EndScope \/ SetUpvalue PROVE Stepped
<1>1. frames # <<>>
  BY DEF Declare, Closure, EndScope, SetUpvalue, InClosure, InCode
<1>2. /\ shapes \in Seq(Seq(Kind)) /\ Len(shapes) = Len(frames) /\ Len(frames) \in Nat \ {0}
      /\ Shape = shapes[Len(shapes)] /\ Shape \in Seq(Kind) /\ Len(Shape) \in Nat \ {0}
      /\ Shape[1] = "callee" /\ DOMAIN Shape = 1 .. Len(Shape)
      /\ stack \in Seq(Good) /\ Len(stack) \in Nat /\ Frame.slots \in 1 .. Len(stack)
  BY <1>1, RunningFrame
<1>3. CASE Declare
  <2>1. Operands(1) /\ stack' = stack /\ frames' = frames
        /\ shapes' = [shapes EXCEPT ![Len(shapes)] = Append(Front(@), "local")]
    BY <1>3 DEF Declare
  <2>2. shapes' = Result(1, "local") /\ "local" \in Kind /\ 1 \in Nat
    BY <2>1 DEF Result, Front, Kind
  <2>3. Shaped
    BY <1>1, <2>1, <2>2, ResultShaped
  <2>4. QED
    BY <1>1, <2>1, <2>3 DEF Stepped, Inside, Untouched
<1>4. CASE Closure
  <2>1. PICK f : Replace(0, f)
    BY <1>4 DEF Closure
  <2>2. PICK captures \in SUBSET (Variables \cup {Len(Shape) + 1}) :
          shapes' = [shapes EXCEPT ![Len(shapes)] =
                       [i \in 1 .. Len(@) + 1 |->
                          IF i \in captures THEN "captured"
                          ELSE IF i \in DOMAIN @ THEN @[i] ELSE "local"]]
    BY <1>4 DEF Closure
  <2>3. PICK shape : shape = [i \in 1 .. Len(Shape) + 1 |->
                                IF i \in captures THEN "captured"
                                ELSE IF i \in DOMAIN Shape THEN Shape[i] ELSE "local"]
    OBVIOUS
  <2>4. shapes' = [shapes EXCEPT ![Len(shapes)] = shape]
    BY <1>2, <2>2, <2>3
  <2>5. Len(shape) = Len(Shape) + 1
        /\ \A j \in 1 .. Len(Shape) : Shape[j] = "captured" => shape[j] = "captured"
    <3>1. shape \in [1 .. Len(Shape) + 1 -> Kind]
      <4>1. \A i \in 1 .. Len(Shape) + 1 : shape[i] \in Kind
        BY <1>2, <2>3 DEF Kind
      <4>2. QED
        BY <2>3, <4>1
    <3>2. Len(shape) = Len(Shape) + 1
      BY <1>2, <3>1
    <3>3. \A j \in 1 .. Len(Shape) : j \in 1 .. Len(Shape) + 1
      BY <1>2
    <3>4. QED
      BY <1>2, <2>3, <3>2, <3>3
  <2>6. \A j \in 1 .. Len(Shape) : j \in 1 .. Len(Shape) + 1
    BY <1>2
  <2>7. Marked(Shape, shape)
    BY <2>5, <2>6 DEF Marked
  <2>8. Shaped
    BY <2>4, <2>7 DEF Shaped
  <2>9. frames' = frames /\ stack' = Append(SubSeq(stack, 1, Len(stack)), f)
    BY <1>2, <1>4, <2>1 DEF Closure, Replace
  <2>10. \A p \in 1 .. Len(stack) : stack'[p] = stack[p]
    <3> DEFINE W == Good \cup {f}
    <3>1. stack \in Seq(W) /\ f \in W /\ Len(stack) \in 0 .. Len(stack)
      BY <1>2
    <3> HIDE DEF W
    <3>2. PICK kept : kept = SubSeq(stack, 1, Len(stack))
      OBVIOUS
    <3>3. kept \in Seq(W) /\ Len(kept) = Len(stack) /\ \A p \in 1 .. Len(stack) : kept[p] = stack[p]
      BY <1>2, <3>1, <3>2, SubSeqProperties
    <3>4. \A p \in 1 .. Len(kept) : stack'[p] = kept[p]
      BY <2>9, <3>1, <3>2, <3>3, AppendProperties
    <3>5. QED
      BY <3>3, <3>4
  <2>11. Untouched
    BY <1>2, <2>10 DEF Untouched
  <2>12. QED
    BY <1>1, <2>8, <2>9, <2>11 DEF Stepped, Inside
<1>5. CASE EndScope
  <2>1. Shape[Len(Shape)] # "callee"
    BY <1>5 DEF EndScope, Variables
  <2>2. 1 < Len(Shape)
    BY <1>2, <2>1
  <2>3. QED
    BY <1>1, <1>5, <2>2, DropInside DEF EndScope, Stepped
<1>6. CASE SetUpvalue
  <2>1. Operands(1) /\ frames' = frames /\ shapes' = shapes
    BY <1>6 DEF SetUpvalue
  <2>2. Peek(0) \in Good
    BY <1>1, <2>1, TopOperand
  <2>3. CASE stack' = stack
    BY <2>1, <2>3 DEF Stepped, machine
  <2>4. CASE \E c \in Captured :
               stack' = [stack EXCEPT ![frames[c[1]].slots + c[2] - 1] = Peek(0)]
    BY <1>1, <2>1, <2>2, <2>4 DEF Stepped, Assigned
  <2>5. QED
    BY <1>6, <2>3, <2>4 DEF SetUpvalue, SlotOf
<1>7. QED
  BY <1>3, <1>4, <1>5, <1>6

LEMMA ClassSteps ==
  ASSUME IInv, NEW c \in Class, BeginClass(c) \/ Inherit \/ Method \/ EndClass
  PROVE  Stepped
<1>1. CASE UNCHANGED machine
  BY <1>1 DEF Stepped
<1>2. CASE RuntimeError
  BY <1>2 DEF Stepped, RuntimeError
<1>3. Len(frames) = 1
  BY DEF BeginClass, Inherit, Method, EndClass, InBody, IInv, Classes, Declaring
<1>4. shapes = <<Shape>> /\ frames # <<>> /\ Shape \in Seq(Kind) /\ Len(Shape) \in Nat \ {0}
      /\ Shape[1] = "callee"
  BY <1>3, OnlyScript, RunningFrame
<1>5. ASSUME NEW shape, shapes' = <<shape>>, \A j \in 2 .. Len(Shape) : j > Len(shape), frames' = frames
      PROVE  Stepped
  <2>1. shapes' = [shapes EXCEPT ![Len(shapes)] = shape]
    BY <1>4, <1>5
  <2>2. \A j \in 1 .. Len(Shape) : j = 1 \/ j \in 2 .. Len(Shape)
    BY <1>4
  <2>3. Marked(Shape, shape)
    BY <1>4, <1>5, <2>2 DEF Marked
  <2>4. Shaped
    BY <2>1, <2>3 DEF Shaped
  <2>5. QED
    BY <1>3, <1>5, <2>4, ScriptInside DEF Stepped
<1>6. CASE BeginClass(c)
  <2>1. ASSUME Compute(0, c) PROVE Stepped
    <3>1. Operands(0) /\ 0 \in Nat
      BY <1>4 DEF Operands
    <3>2. QED
      BY <1>4, <2>1, <3>1, ComputeInside DEF Stepped
  <2>2. QED
    BY <1>1, <1>6, <2>1 DEF BeginClass
<1>7. CASE Inherit
  <2>1. Shape = <<"callee">>
    BY <1>4, <1>7 DEF Inherit
  <2>2. \A j \in 2 .. Len(Shape) : FALSE
    BY <2>1
  <2>3. RuntimeError \/ (shapes' = << <<"callee", "operand", "operand">> >> /\ frames' = frames)
    BY <1>7 DEF Inherit
  <2>4. QED
    BY <1>2, <1>5, <2>2, <2>3
<1>8. CASE Method
  BY <1>1, <1>8 DEF Method
<1>9. CASE EndClass
  <2>1. shapes' = << <<"callee">> >> /\ frames' = frames
    BY <1>9 DEF EndClass
  <2>2. \A j \in 2 .. Len(Shape) : j > Len(<<"callee">>)
    OBVIOUS
  <2>3. QED
    BY <1>5, <2>1, <2>2
<1>10. QED
  BY <1>6, <1>7, <1>8, <1>9

LEMMA NextSteps ==
  ASSUME IInv, [Next]_vars PROVE Stepped
<1>1. PICK n \in Name : TRUE
  BY BoundsAssumption
<1>2. CASE Interpret \/ Return
  BY <1>2 DEF Stepped
<1>3. CASE ReturnScript
  BY <1>3 DEF ReturnScript, Stepped
<1>4. CASE Halt \/ UNCHANGED vars
  BY <1>4 DEF Halt, vars, Stepped
<1>5. ASSUME NEW argc \in 0 .. StackMax, NEW m2 \in Name,
             Call(argc) \/ Invoke(m2, argc) \/ SuperInvoke(m2, argc)
      PROVE  Stepped
  <2>1. argc \in Nat
    OBVIOUS
  <2>2. QED
    BY <1>5, <2>1, CallsStep
<1>6. ASSUME NEW c \in Class, BeginClass(c) PROVE Stepped
  BY <1>6, ClassSteps
<1>7. CASE Inherit \/ Method \/ EndClass
  <2>1. PICK c \in Class : TRUE
    BY <1>7 DEF Inherit, Method, EndClass, InBody, IInv, Classes, TypedClasses
  <2>2. QED
    BY <1>7, <2>1, ClassSteps
<1>8. CASE Const \/ GetClass \/ GetLocal \/ GetThis \/ SetLocal \/ Pop \/ GetUpvalue
  BY <1>8, CodeSteps
<1>9. ASSUME NEW x, NEW m2,
             \/ GetGlobal(x) \/ SetGlobal(x) \/ DefineGlobal(x)
             \/ GetProperty(m2) \/ SetProperty(m2) \/ GetSuper(m2)
      PROVE  Stepped
  BY <1>9, CodeSteps
<1>10. CASE Declare \/ Closure \/ EndScope \/ SetUpvalue
  BY <1>10, VariableSteps
<1>11. QED
  BY <1>1, <1>2, <1>3, <1>4, <1>5, <1>6, <1>7, <1>8, <1>9, <1>10 DEF Next

-------------------------------------------------------------------------------
(* Activations: the part of the stack of each frame.                       *)

LEMMA PartOf ==
  ASSUME NEW S, NEW s \in Seq(S), NEW low \in Nat \ {0}, NEW high \in Nat,
         low <= high + 1, high <= Len(s)
  PROVE  /\ SubSeq(s, low, high) \in Seq(S) /\ Len(SubSeq(s, low, high)) = high - low + 1
         /\ \A i \in 1 .. high - low + 1 : SubSeq(s, low, high)[i] = s[low + i - 1]
<1>1. \A i \in low .. high : s[i] \in S
  OBVIOUS
<1>2. QED
  BY <1>1, SubSeqProperties

LEMMA SameParts ==
  ASSUME NEW S, NEW s \in Seq(S), NEW t \in Seq(S), NEW low \in Nat \ {0}, NEW high \in Nat,
         low <= high + 1, high <= Len(s), high <= Len(t),
         \A p \in low .. high : t[p] = s[p]
  PROVE  SubSeq(t, low, high) = SubSeq(s, low, high)
<1>1. PICK a : a = SubSeq(s, low, high)
  OBVIOUS
<1>2. PICK b : b = SubSeq(t, low, high)
  OBVIOUS
<1>3. /\ a \in Seq(S) /\ Len(a) = high - low + 1
      /\ \A i \in 1 .. high - low + 1 : a[i] = s[low + i - 1]
  BY <1>1, PartOf
<1>4. /\ b \in Seq(S) /\ Len(b) = high - low + 1
      /\ \A i \in 1 .. high - low + 1 : b[i] = t[low + i - 1]
  BY <1>2, PartOf
<1>5. \A i \in 1 .. high - low + 1 : low + i - 1 \in low .. high
  OBVIOUS
<1>6. \A i \in 1 .. Len(a) : a[i] = b[i]
  BY <1>3, <1>4, <1>5
<1>7. QED
  BY <1>1, <1>2, <1>3, <1>4, <1>6, SeqEqual

LEMMA PartOfPart ==
  ASSUME NEW S, NEW s \in Seq(S), NEW low \in Nat \ {0}, NEW high \in Nat,
         low <= high + 1, high <= Len(s),
         NEW i \in Nat \ {0}, NEW j \in Nat, i <= j + 1, j <= high - low + 1
  PROVE  SubSeq(SubSeq(s, low, high), i, j) = SubSeq(s, low + i - 1, low + j - 1)
<1>1. PICK t : t = SubSeq(s, low, high)
  OBVIOUS
<1>2. /\ t \in Seq(S) /\ Len(t) = high - low + 1
      /\ \A k \in 1 .. high - low + 1 : t[k] = s[low + k - 1]
  BY <1>1, PartOf
<1>3. PICK a : a = SubSeq(t, i, j)
  OBVIOUS
<1>4. /\ a \in Seq(S) /\ Len(a) = j - i + 1 /\ \A k \in 1 .. j - i + 1 : a[k] = t[i + k - 1]
  <2>1. j <= Len(t)
    BY <1>2
  <2>2. QED
    BY <1>2, <1>3, <2>1, PartOf
<1>5. PICK first : first = low + i - 1
  OBVIOUS
<1>6. PICK last : last = low + j - 1
  OBVIOUS
<1>7. first \in Nat \ {0} /\ last \in Nat /\ first <= last + 1 /\ last <= Len(s)
      /\ last - first + 1 = j - i + 1
  BY <1>5, <1>6
<1>8. PICK b : b = SubSeq(s, first, last)
  OBVIOUS
<1>9. /\ b \in Seq(S) /\ Len(b) = last - first + 1
      /\ \A k \in 1 .. last - first + 1 : b[k] = s[first + k - 1]
  BY <1>7, <1>8, PartOf
<1>10. \A k \in 1 .. j - i + 1 : a[k] = b[k]
  <2> SUFFICES ASSUME NEW k \in 1 .. j - i + 1 PROVE a[k] = b[k]
    OBVIOUS
  <2>1. i + k - 1 \in 1 .. high - low + 1 /\ low + (i + k - 1) - 1 = first + k - 1
    BY <1>5
  <2>2. k \in 1 .. last - first + 1
    BY <1>7
  <2>3. a[k] = s[low + (i + k - 1) - 1]
    BY <1>2, <1>4, <2>1
  <2>4. QED
    BY <1>9, <2>1, <2>2, <2>3
<1>11. a = b
  BY <1>4, <1>7, <1>9, <1>10, SeqEqual
<1>12. QED
  BY <1>1, <1>3, <1>5, <1>6, <1>8, <1>11

High(st, fr, i) == IF i = Len(fr) THEN Len(st) ELSE fr[i + 1].slots - 1
Parts(st, fr)   == [i \in DOMAIN fr |-> SubSeq(st, fr[i].slots, High(st, fr, i))]

LEMMA PartBounds ==
  ASSUME NEW st, NEW fr, NEW sh, NEW G, NEW R, Layout(st, fr, sh, G, R),
         NEW i \in 1 .. Len(fr)
  PROVE  /\ fr[i].slots \in Nat \ {0} /\ High(st, fr, i) \in Nat
         /\ fr[i].slots <= High(st, fr, i) /\ High(st, fr, i) <= Len(st)
<1>1. Placed(st, fr, sh) /\ st \in Seq(G) /\ fr # <<>>
  BY DEF Layout
<1>2. PICK n : n = Len(fr)
  OBVIOUS
<1>3. n \in Nat \ {0} /\ i \in 1 .. n
  BY <1>1, <1>2, LayoutBelow
<1>4. Len(st) = Top(fr, sh, n) /\ fr[n].slots <= Top(fr, sh, n) /\ fr[i].slots \in Nat \ {0}
      /\ Len(st) \in Nat /\ fr[n].slots \in Nat \ {0} /\ Top(fr, sh, n) \in Nat
  <2>1. n \in 1 .. Len(fr) /\ i \in 1 .. Len(fr)
    BY <1>2, <1>3
  <2>2. /\ fr[i].slots \in Nat \ {0} /\ fr[n].slots \in Nat \ {0}
        /\ fr[n].slots <= Top(fr, sh, n) /\ Top(fr, sh, n) \in Nat
    BY <1>1, <2>1, LayoutBelow
  <2>3. Len(st) = Top(fr, sh, n)
    BY <1>1, <1>2 DEF Placed
  <2>4. QED
    BY <2>2, <2>3
<1>5. CASE i = n
  <2>1. High(st, fr, i) = Len(st)
    BY <1>2, <1>5 DEF High
  <2>2. QED
    BY <1>4, <1>5, <2>1
<1>6. CASE i # n
  <2>1. i \in 1 .. n - 1 /\ i + 1 \in 1 .. n
    BY <1>3, <1>6
  <2>2. High(st, fr, i) = fr[i + 1].slots - 1
    BY <1>2, <1>6 DEF High
  <2>3. fr[i + 1].slots = Top(fr, sh, i) /\ Len(sh[i]) >= 2 /\ Top(fr, sh, i) <= fr[n].slots
        /\ Len(sh[i]) \in Nat
    BY <1>1, <1>2, <2>1, LayoutBelow DEF Placed
  <2>4. PICK low : low = fr[i].slots
    OBVIOUS
  <2>5. PICK wide : wide = Len(sh[i])
    OBVIOUS
  <2>6. PICK base : base = fr[n].slots
    OBVIOUS
  <2>7. PICK next : next = fr[i + 1].slots
    OBVIOUS
  <2>8. next = low + wide - 1 /\ wide >= 2 /\ next <= base /\ low \in Nat \ {0} /\ wide \in Nat
        /\ base <= Len(st) /\ base \in Nat \ {0}
    BY <1>4, <2>3, <2>4, <2>5, <2>6, <2>7 DEF Top
  <2>9. next - 1 \in Nat /\ low <= next - 1 /\ next - 1 <= Len(st)
    BY <1>4, <2>8
  <2>10. QED
    BY <1>4, <2>2, <2>4, <2>7, <2>9
<1>7. QED
  BY <1>5, <1>6

LEMMA PartsTyped ==
  ASSUME NEW st, NEW fr, NEW sh, NEW G, NEW R, Layout(st, fr, sh, G, R)
  PROVE  /\ Parts(st, fr) \in Seq(Seq(G)) /\ Len(Parts(st, fr)) = Len(fr)
         /\ \A i \in 1 .. Len(fr) :
              Parts(st, fr)[i] = SubSeq(st, fr[i].slots, High(st, fr, i))
<1>1. fr \in Seq(FrameRecord) /\ st \in Seq(G)
  BY DEF Layout, Placed
<1>2. PICK n \in Nat : n = Len(fr) /\ DOMAIN fr = 1 .. n
  BY <1>1
<1>3. ASSUME NEW i \in 1 .. n PROVE SubSeq(st, fr[i].slots, High(st, fr, i)) \in Seq(G)
  <2>1. /\ fr[i].slots \in Nat \ {0} /\ High(st, fr, i) \in Nat
        /\ fr[i].slots <= High(st, fr, i) /\ High(st, fr, i) <= Len(st)
    BY <1>2, PartBounds
  <2>2. PICK low \in Nat \ {0} : low = fr[i].slots
    BY <2>1
  <2>3. PICK high \in Nat : high = High(st, fr, i)
    BY <2>1
  <2>4. low <= high + 1 /\ high <= Len(st)
    BY <2>1, <2>2, <2>3
  <2>5. SubSeq(st, low, high) \in Seq(G)
    BY <1>1, <2>4, PartOf
  <2>6. QED
    BY <2>2, <2>3, <2>5
<1> DEFINE part(i) == SubSeq(st, fr[i].slots, High(st, fr, i))
<1>4. Parts(st, fr) = [i \in 1 .. n |-> part(i)]
  BY <1>2 DEF Parts
<1>5. \A i \in 1 .. n : part(i) \in Seq(G)
  BY <1>3
<1> HIDE DEF part
<1>6. [i \in 1 .. n |-> part(i)] \in Seq(Seq(G)) /\ Len([i \in 1 .. n |-> part(i)]) = n
  BY <1>5
<1>7. QED
  BY <1>2, <1>4, <1>6 DEF part

(* Frames under a slot below which nothing changes keep their parts.       *)
LEMMA KeptParts ==
  ASSUME NEW st, NEW fr, NEW sh, NEW st2, NEW fr2, NEW sh2, NEW G, NEW R, NEW G2, NEW R2,
         Layout(st, fr, sh, G, R), Layout(st2, fr2, sh2, G2, R2),
         NEW n \in Nat, n < Len(fr), n < Len(fr2),
         \A i \in 1 .. n + 1 : fr2[i].slots = fr[i].slots,
         \A p \in 1 .. fr[n + 1].slots - 1 : st2[p] = st[p]
  PROVE  \A i \in 1 .. n : Parts(st2, fr2)[i] = Parts(st, fr)[i]
<1> SUFFICES ASSUME NEW i \in 1 .. n PROVE Parts(st2, fr2)[i] = Parts(st, fr)[i]
  OBVIOUS
<1>1. /\ st \in Seq(G \cup G2) /\ st2 \in Seq(G \cup G2)
      /\ Len(fr) \in Nat /\ Len(fr2) \in Nat
      /\ Placed(st, fr, sh)
  BY DEF Layout, Placed
<1>2. i \in 1 .. Len(fr) /\ i \in 1 .. Len(fr2) /\ i # Len(fr) /\ i # Len(fr2)
      /\ i \in 1 .. n + 1 /\ i + 1 \in 1 .. n + 1
      /\ i + 1 \in 1 .. Len(fr) /\ n + 1 \in 1 .. Len(fr)
  BY <1>1
<1>3. PICK low : low = fr[i].slots
  OBVIOUS
<1>4. PICK high : high = fr[i + 1].slots - 1
  OBVIOUS
<1>5. High(st, fr, i) = high /\ High(st2, fr2, i) = high /\ fr2[i].slots = low
  BY <1>2, <1>3, <1>4 DEF High
<1>6. low \in Nat \ {0} /\ high \in Nat /\ low <= high /\ high <= Len(st) /\ high <= Len(st2)
  BY <1>2, <1>3, <1>5, PartBounds
<1>7. high <= fr[n + 1].slots - 1 /\ fr[n + 1].slots \in Nat \ {0}
  <2>1. fr[n + 1].slots \in Nat \ {0} /\ fr[i + 1].slots \in Nat \ {0}
    BY <1>2, PartBounds
  <2>2. CASE i = n
    BY <2>1, <2>2, <1>4
  <2>3. CASE i # n
    <3>1. i + 1 < n + 1
      BY <2>3
    <3>2. Top(fr, sh, i + 1) <= fr[n + 1].slots
      BY <1>1, <1>2, <3>1 DEF Placed
    <3>3. fr[i + 1].slots <= Top(fr, sh, i + 1) /\ Top(fr, sh, i + 1) \in Nat
      <4>1. fr # <<>>
        BY <1>1, <1>2
      <4>2. QED
        BY <1>1, <1>2, <4>1, LayoutBelow
    <3>4. QED
      BY <2>1, <3>2, <3>3, <1>4
  <2>4. QED
    BY <2>2, <2>3
<1>8. \A p \in low .. high : st2[p] = st[p]
  <2>1. \A p \in low .. high : p \in 1 .. fr[n + 1].slots - 1
    BY <1>6, <1>7
  <2>2. QED
    BY <2>1
<1>9. SubSeq(st2, low, high) = SubSeq(st, low, high)
  <2>1. low <= high + 1
    BY <1>6
  <2>2. QED
    BY <1>1, <1>6, <1>8, <2>1, SameParts
<1>10. /\ Parts(st, fr)[i] = SubSeq(st, fr[i].slots, High(st, fr, i))
       /\ Parts(st2, fr2)[i] = SubSeq(st2, fr2[i].slots, High(st2, fr2, i))
  BY <1>2, PartsTyped
<1>11. QED
  BY <1>3, <1>5, <1>9, <1>10

Splits(caller, left, callee) ==
  /\ Len(left) + Len(callee) = Len(caller) /\ callee # <<>>
  /\ left = SubSeq(caller, 1, Len(left))
  /\ Tail(callee) = SubSeq(caller, Len(left) + 2, Len(caller))

Joins(before, after) ==
  Len(after) = Len(before) + 1 /\ SubSeq(after, 1, Len(before)) = before

(* A callee takes its arguments from the end of the caller's part.         *)
LEMMA CallSplits ==
  ASSUME NEW S, NEW s \in Seq(S), NEW t \in Seq(S), NEW high \in Nat,
         Len(s) = high, Len(t) = high,
         NEW low \in Nat \ {0}, NEW slot \in Nat, low < slot, slot <= high,
         \A p \in 1 .. high : p # slot => t[p] = s[p]
  PROVE  Splits(SubSeq(s, low, high), SubSeq(t, low, slot - 1), SubSeq(t, slot, high))
<1> SUFFICES ASSUME NEW caller, caller = SubSeq(s, low, high),
                    NEW left, left = SubSeq(t, low, slot - 1),
                    NEW callee, callee = SubSeq(t, slot, high)
             PROVE  Splits(caller, left, callee)
  OBVIOUS
<1>1. caller \in Seq(S) /\ Len(caller) = high - low + 1
  BY PartOf
<1>2. left \in Seq(S) /\ Len(left) = slot - low
  <2>1. PICK below \in Nat : below = slot - 1
    OBVIOUS
  <2>2. low <= below + 1 /\ below <= Len(t) /\ below - low + 1 = slot - low
    BY <2>1
  <2>3. left = SubSeq(t, low, below)
    BY <2>1
  <2>4. QED
    BY <2>2, <2>3, PartOf
<1>3. callee \in Seq(S) /\ Len(callee) = high - slot + 1
  BY PartOf
<1>4. callee # <<>> /\ Len(left) + Len(callee) = Len(caller)
  <2>1. (slot - low) + (high - slot + 1) = high - low + 1 /\ high - slot + 1 > 0
    OBVIOUS
  <2>2. Len(left) + Len(callee) = Len(caller)
    BY <2>1, <1>1, <1>2, <1>3, Zenon
  <2>3. Len(callee) # 0
    BY <2>1, <1>3
  <2>4. callee # <<>>
    BY <2>3, <1>3, EmptySeq
  <2>5. QED
    BY <2>2, <2>4
<1>5. left = SubSeq(caller, 1, Len(left))
  <2>1. PICK count \in Nat : count = slot - low
    OBVIOUS
  <2>2. PICK below \in Nat : below = slot - 1
    OBVIOUS
  <2>3. 1 <= count + 1 /\ count <= high - low + 1 /\ low + 1 - 1 = low /\ low + count - 1 = below
        /\ low <= high + 1 /\ high <= Len(s) /\ 1 \in Nat \ {0}
    <3>1. 1 <= count + 1 /\ count <= high - low + 1
      BY <2>1
    <3>2. low + 1 - 1 = low /\ low + count - 1 = below
      BY <2>1, <2>2
    <3>3. low <= high + 1 /\ high <= Len(s) /\ 1 \in Nat \ {0}
      OBVIOUS
    <3>4. QED
      BY <3>1, <3>2, <3>3
  <2>4. SubSeq(caller, 1, count) = SubSeq(s, low + 1 - 1, low + count - 1)
    BY <2>3, PartOfPart
  <2>5. SubSeq(t, low, below) = SubSeq(s, low, below)
    <3>1. low <= below + 1 /\ below <= Len(s) /\ below <= Len(t)
      BY <2>2
    <3>2. \A p \in low .. below : p \in 1 .. high /\ p # slot
      BY <2>2
    <3>3. \A p \in low .. below : t[p] = s[p]
      BY <3>2
    <3>4. QED
      BY <3>1, <3>3, SameParts
  <2>6. QED
    BY <1>2, <2>1, <2>2, <2>3, <2>4, <2>5
<1>6. Tail(callee) = SubSeq(caller, Len(left) + 2, Len(caller))
  <2>1. PICK first \in Nat \ {0} : first = slot + 1
    OBVIOUS
  <2>2. PICK count \in Nat : count = high - slot + 1
    OBVIOUS
  <2>3. Tail(callee) = SubSeq(callee, 2, count)
    BY <1>3, <1>4, <2>2, TailIsSubSeq
  <2>4. SubSeq(callee, 2, count) = SubSeq(t, first, high)
    <3>1. 2 <= count + 1 /\ count <= high - slot + 1 /\ slot + 2 - 1 = first
          /\ slot + count - 1 = high /\ slot <= high + 1 /\ high <= Len(t)
          /\ 2 \in Nat \ {0} /\ slot \in Nat \ {0}
      BY <2>1, <2>2
    <3>2. SubSeq(callee, 2, count) = SubSeq(t, slot + 2 - 1, slot + count - 1)
      BY <3>1, PartOfPart
    <3>3. QED
      BY <3>1, <3>2
  <2>5. SubSeq(t, first, high) = SubSeq(s, first, high)
    <3>1. first <= high + 1 /\ high <= Len(s) /\ high <= Len(t)
          /\ \A p \in first .. high : p \in 1 .. high /\ p # slot
      BY <2>1
    <3>2. \A p \in first .. high : t[p] = s[p]
      BY <3>1
    <3>3. QED
      BY <3>1, <3>2, SameParts
  <2>6. SubSeq(caller, Len(left) + 2, Len(caller)) = SubSeq(s, first, high)
    <3>1. PICK from \in Nat \ {0} : from = slot - low + 2
      OBVIOUS
    <3>2. PICK to \in Nat : to = high - low + 1
      OBVIOUS
    <3>3. from <= to + 1 /\ to <= high - low + 1 /\ low + from - 1 = first /\ low + to - 1 = high
          /\ low <= high + 1 /\ high <= Len(s)
      BY <2>1, <3>1, <3>2
    <3>4. SubSeq(caller, from, to) = SubSeq(s, low + from - 1, low + to - 1)
      BY <3>3, PartOfPart
    <3>5. QED
      BY <1>1, <1>2, <3>1, <3>2, <3>3, <3>4
  <2>7. QED
    BY <2>3, <2>4, <2>5, <2>6
<1>7. QED
  BY <1>4, <1>5, <1>6 DEF Splits

(* A return puts one value at the end of the caller's part.                *)
LEMMA ReturnJoins ==
  ASSUME NEW S, NEW s \in Seq(S), NEW t \in Seq(S), NEW low \in Nat \ {0}, NEW base \in Nat,
         low < base, base <= Len(s), Len(t) = base,
         \A p \in 1 .. base - 1 : t[p] = s[p]
  PROVE  Joins(SubSeq(s, low, base - 1), SubSeq(t, low, base))
<1> SUFFICES ASSUME NEW before, before = SubSeq(s, low, base - 1),
                    NEW after, after = SubSeq(t, low, base)
             PROVE  Joins(before, after)
  OBVIOUS
<1>1. PICK below \in Nat : below = base - 1
  OBVIOUS
<1>2. PICK count \in Nat : count = base - low
  OBVIOUS
<1>3. /\ low <= below + 1 /\ below <= Len(s) /\ below <= Len(t) /\ below - low + 1 = count
      /\ low <= base + 1 /\ base <= Len(t) /\ base - low + 1 = count + 1
      /\ 1 <= count + 1 /\ count <= base - low + 1 /\ low + 1 - 1 = low /\ low + count - 1 = below
      /\ 1 \in Nat \ {0}
  BY <1>1, <1>2
<1>4. before = SubSeq(s, low, below) /\ Len(before) = count
  BY <1>1, <1>3, PartOf
<1>5. Len(after) = count + 1
  BY <1>3, PartOf
<1>6. SubSeq(after, 1, count) = SubSeq(t, low + 1 - 1, low + count - 1)
  BY <1>3, PartOfPart
<1>7. SubSeq(t, low, below) = SubSeq(s, low, below)
  <2>1. \A p \in low .. below : t[p] = s[p]
    BY <1>1
  <2>2. QED
    BY <1>3, <2>1, SameParts
<1>8. QED
  BY <1>3, <1>4, <1>5, <1>6, <1>7 DEF Joins

(* The shared variables of each activation.                                *)
Marks(shape) == {j \in DOMAIN shape : shape[j] = "captured"}
Sharing(fr, sh) == [i \in DOMAIN fr |-> Marks(sh[i])]

LEMMA SharingTyped ==
  ASSUME NEW st, NEW fr, NEW sh, NEW G, NEW R, Layout(st, fr, sh, G, R)
  PROVE  /\ Sharing(fr, sh) \in Seq(SUBSET Nat) /\ Len(Sharing(fr, sh)) = Len(fr)
         /\ \A i \in 1 .. Len(fr) : Sharing(fr, sh)[i] = Marks(sh[i])
<1>1. fr \in Seq(FrameRecord) /\ sh \in Seq(Seq(Kind)) /\ Len(sh) = Len(fr)
  BY DEF Layout, Placed
<1>2. PICK n \in Nat : n = Len(fr) /\ DOMAIN fr = 1 .. n /\ n = Len(sh)
  BY <1>1
<1>3. ASSUME NEW i \in 1 .. n PROVE Marks(sh[i]) \in SUBSET Nat
  <2>1. sh[i] \in Seq(Kind)
    BY <1>1, <1>2
  <2>2. DOMAIN sh[i] \subseteq Nat
    BY <2>1
  <2>3. QED
    BY <2>2 DEF Marks
<1>4. Sharing(fr, sh) = [i \in 1 .. n |-> Marks(sh[i])]
  BY <1>2 DEF Sharing
<1>5. PICK s : s = [i \in 1 .. n |-> Marks(sh[i])]
  OBVIOUS
<1>6. s \in [1 .. n -> SUBSET Nat]
  BY <1>3, <1>5
<1>7. s \in Seq(SUBSET Nat) /\ Len(s) = n
  BY <1>6
<1>8. QED
  BY <1>2, <1>4, <1>5, <1>7

(* The steps of Activations, for the parts a and b of two states and their *)
(* shared variables s and t.                                               *)
KeptIn(a, b, n) == n <= Len(b) /\ \A i \in 1 .. n : b[i] = a[i]

PartStep(a, b, s, t) ==
  \/ b = a /\ t = s
  \/ b = <<>> /\ t = <<>>
  \/ a = <<>> /\ Len(b) = 1 /\ Len(b[1]) = 1 /\ t = <<{}>>
  \/ /\ a # <<>> /\ Len(b) = Len(a)
     /\ KeptIn(a, b, Len(a) - 1) /\ KeptIn(s, t, Len(a) - 1)
     /\ \A j \in s[Len(a)] : j \in t[Len(a)] \/ j > Len(b[Len(a)])
  \/ /\ Len(b) = Len(a) /\ t = s
     /\ \E i \in 1 .. Len(a) :
          /\ Len(b[i]) = Len(a[i])
          /\ \E j \in s[i] : b = [a EXCEPT ![i][j] = b[i][j]]
  \/ /\ a # <<>> /\ Len(b) = Len(a) + 1
     /\ KeptIn(a, b, Len(a) - 1) /\ KeptIn(s, t, Len(a) - 1)
     /\ Splits(a[Len(a)], b[Len(a)], b[Len(a) + 1]) /\ t = Append(s, {})
  \/ /\ Len(a) > 1 /\ Len(b) = Len(a) - 1
     /\ KeptIn(a, b, Len(a) - 2) /\ KeptIn(s, t, Len(a) - 2)
     /\ Joins(a[Len(a) - 1], b[Len(a) - 1]) /\ t = SubSeq(s, 1, Len(a) - 1)

LEMMA PrivateStep ==
  ASSUME NEW a, a = Parts(stack, frames), NEW b, b = Parts(stack', frames'),
         NEW s, s = Sharing(frames, shapes), NEW t, t = Sharing(frames', shapes'),
         PartStep(a, b, s, t)
  PROVE  [Private!Next]_<<[i \in DOMAIN frames |-> Segment(i)],
                          [i \in DOMAIN frames |-> CapturedIn(i)]>>
<1>1. /\ [i \in DOMAIN frames |-> Segment(i)] = a
      /\ [i \in DOMAIN frames |-> Segment(i)]' = b
      /\ [i \in DOMAIN frames |-> CapturedIn(i)] = s
      /\ [i \in DOMAIN frames |-> CapturedIn(i)]' = t
  BY DEF Parts, High, Segment, Sharing, Marks, CapturedIn
<1> DEFINE acts == [i \in DOMAIN frames |-> Segment(i)]
           shared == [i \in DOMAIN frames |-> CapturedIn(i)]
<1>2. acts = a /\ acts' = b /\ shared = s /\ shared' = t
  BY <1>1
<1> HIDE DEF acts, shared
<1>3. PartStep(acts, acts', shared, shared')
  BY <1>2
<1>4. CASE acts' = <<>> /\ shared' = <<>>
  BY <1>4 DEF acts, shared, Private!Next, Private!Stop
<1>5. CASE acts' = acts /\ shared' = shared
  BY <1>5 DEF acts, shared
<1>6. CASE acts = <<>> /\ Len(acts') = 1 /\ Len(acts'[1]) = 1 /\ shared' = <<{}>>
  BY <1>6 DEF acts, shared, Private!Next, Private!Start
<1>7. CASE /\ acts # <<>> /\ Len(acts') = Len(acts)
           /\ KeptIn(acts, acts', Len(acts) - 1) /\ KeptIn(shared, shared', Len(acts) - 1)
           /\ \A j \in shared[Len(acts)] :
                j \in shared'[Len(acts)] \/ j > Len(acts'[Len(acts)])
  BY <1>7 DEF acts, shared, KeptIn, Private!Next, Private!Compute, Private!Kept, Private!Running
<1>8. CASE /\ Len(acts') = Len(acts) /\ shared' = shared
           /\ \E i \in 1 .. Len(acts) :
                /\ Len(acts'[i]) = Len(acts[i])
                /\ \E j \in shared[i] : acts' = [acts EXCEPT ![i][j] = acts'[i][j]]
  BY <1>8 DEF acts, shared, Private!Next, Private!Assign, Private!Running
<1>9. CASE /\ acts # <<>> /\ Len(acts') = Len(acts) + 1
           /\ KeptIn(acts, acts', Len(acts) - 1) /\ KeptIn(shared, shared', Len(acts) - 1)
           /\ Splits(acts[Len(acts)], acts'[Len(acts)], acts'[Len(acts) + 1])
           /\ shared' = Append(shared, {})
  BY <1>9 DEF acts, shared, KeptIn, Splits, Private!Next, Private!Call, Private!Kept,
              Private!Running
<1>10. CASE /\ Len(acts) > 1 /\ Len(acts') = Len(acts) - 1
            /\ KeptIn(acts, acts', Len(acts) - 2) /\ KeptIn(shared, shared', Len(acts) - 2)
            /\ Joins(acts[Len(acts) - 1], acts'[Len(acts) - 1])
            /\ shared' = SubSeq(shared, 1, Len(acts) - 1)
  BY <1>10 DEF acts, shared, KeptIn, Joins, Private!Next, Private!Return, Private!Kept,
               Private!Running
<1>11. QED
  BY <1>3, <1>4, <1>5, <1>6, <1>7, <1>8, <1>9, <1>10 DEF PartStep

LEMMA PartLength ==
  ASSUME NEW st, NEW fr, NEW sh, NEW G, NEW R, Layout(st, fr, sh, G, R),
         NEW i \in 1 .. Len(fr)
  PROVE  /\ Len(Parts(st, fr)[i]) = High(st, fr, i) - fr[i].slots + 1
         /\ i = Len(fr) => Len(Parts(st, fr)[i]) = Len(sh[i])
<1>1. Placed(st, fr, sh) /\ st \in Seq(G) /\ fr # <<>>
  BY DEF Layout
<1>2. PICK low : low = fr[i].slots
  OBVIOUS
<1>3. PICK high : high = High(st, fr, i)
  OBVIOUS
<1>4. low \in Nat \ {0} /\ high \in Nat /\ low <= high + 1 /\ high <= Len(st)
  <2>1. low \in Nat \ {0} /\ high \in Nat /\ low <= high /\ high <= Len(st)
    BY <1>2, <1>3, PartBounds
  <2>2. QED
    BY <2>1
<1>5. Parts(st, fr)[i] = SubSeq(st, low, high)
  BY <1>2, <1>3, PartsTyped
<1>6. Len(Parts(st, fr)[i]) = high - low + 1
  BY <1>1, <1>4, <1>5, PartOf
<1>7. ASSUME i = Len(fr) PROVE Len(Parts(st, fr)[i]) = Len(sh[i])
  <2>1. PICK wide : wide = Len(sh[i])
    OBVIOUS
  <2>2. wide \in Nat
    BY <1>1, <2>1, LayoutBelow
  <2>3. high = low + wide - 1
    BY <1>1, <1>2, <1>3, <1>7, <2>1 DEF High, Placed, Top
  <2>4. QED
    BY <1>4, <1>6, <2>1, <2>2, <2>3
<1>8. QED
  BY <1>2, <1>3, <1>6, <1>7

(* Inside the running frame variables begin and end, and may be captured.  *)
LEMMA SharedInside ==
  ASSUME IInv, IInv', frames # <<>>, frames' = frames, Shaped,
         NEW n, n = Len(frames),
         NEW s, s = Sharing(frames, shapes), NEW t, t = Sharing(frames', shapes')
  PROVE  /\ KeptIn(s, t, n - 1)
         /\ \A j \in s[n] : j \in t[n] \/ j > Len(shapes'[n])
<1>1. /\ shapes \in Seq(Seq(Kind)) /\ Len(shapes) = n /\ n \in Nat \ {0} /\ n \in 1 .. n
      /\ Shape = shapes[n] /\ Shape \in Seq(Kind)
  BY RunningFrame
<1>2. PICK shape : Marked(Shape, shape) /\ shapes' = [shapes EXCEPT ![n] = shape]
  BY <1>1 DEF Shaped
<1>3. /\ shapes'[n] = shape /\ \A i \in 1 .. n : i # n => shapes'[i] = shapes[i]
  BY <1>1, <1>2
<1>4. shape \in Seq(Kind)
  <2>1. shapes' \in Seq(Seq(Kind)) /\ Len(shapes') = n
    BY DEF IInv, Layout, Placed
  <2>2. QED
    BY <1>1, <1>3, <2>1
<1>5. /\ Len(s) = n /\ \A i \in 1 .. n : s[i] = Marks(shapes[i])
      /\ Len(t) = n /\ \A i \in 1 .. n : t[i] = Marks(shapes'[i])
  BY SharingTyped DEF IInv
<1>6. KeptIn(s, t, n - 1)
  <2>1. \A i \in 1 .. n - 1 : i \in 1 .. n /\ i # n
    BY <1>1
  <2>2. n - 1 <= n
    BY <1>1
  <2>3. QED
    BY <1>3, <1>5, <2>1, <2>2 DEF KeptIn
<1>7. ASSUME NEW j \in s[n] PROVE j \in t[n] \/ j > Len(shapes'[n])
  <2>1. j \in DOMAIN Shape /\ Shape[j] = "captured"
    BY <1>1, <1>5, <1>7 DEF Marks
  <2>2. j \in 1 .. Len(Shape)
    BY <1>1, <2>1
  <2>3. j > Len(shape) \/ (j \in 1 .. Len(shape) /\ shape[j] = "captured")
    BY <1>2, <2>1, <2>2 DEF Marked
  <2>4. DOMAIN shape = 1 .. Len(shape)
    BY <1>4
  <2>5. QED
    BY <1>1, <1>3, <1>5, <2>3, <2>4 DEF Marks
<1>8. QED
  BY <1>6, <1>7

(* Nothing of the callee is captured yet, and the caller's operands are not.*)
LEMMA SharedEntered ==
  ASSUME IInv, IInv', frames # <<>>, NEW argc \in Nat, Operands(argc + 1), NEW f, NEW slot0,
         NEW made, Enter(f, argc, slot0, made), Len(frames') = Len(frames) + 1,
         NEW n, n = Len(frames),
         NEW s, s = Sharing(frames, shapes), NEW t, t = Sharing(frames', shapes')
  PROVE  KeptIn(s, t, n - 1) /\ t = Append(s, {})
<1>1. /\ shapes \in Seq(Seq(Kind)) /\ Len(shapes) = n /\ n \in Nat \ {0} /\ n \in 1 .. n
      /\ Shape = shapes[n] /\ Shape \in Seq(Kind) /\ Len(Shape) \in Nat
  BY RunningFrame
<1>2. PICK k \in Nat : k = argc + 1
  OBVIOUS
<1>3. PICK caller : caller = Append(SubSeq(Shape, 1, Len(Shape) - k), "operand")
  OBVIOUS
<1>4. PICK callee : callee = <<"callee">> \o [i \in 1 .. argc |-> "local"]
  OBVIOUS
<1>5. shapes' = Append([shapes EXCEPT ![n] = caller], callee)
  BY <1>1, <1>2, <1>3, <1>4 DEF Enter, Result
<1>6. k < Len(Shape) /\ \A i \in Len(Shape) - k + 1 .. Len(Shape) : Shape[i] # "captured"
  BY <1>2 DEF Operands
<1>7. "operand" \in Kind
  BY DEF Kind
<1>8. /\ caller \in Seq(Kind) /\ Len(caller) = Len(Shape) - k + 1
      /\ \A j \in 1 .. Len(Shape) : Shape[j] = "captured" =>
           j \in 1 .. Len(Shape) - k /\ caller[j] = "captured"
      /\ \A j \in 1 .. Len(Shape) - k : caller[j] = Shape[j]
      /\ caller[Len(Shape) - k + 1] = "operand"
  BY <1>1, <1>3, <1>6, <1>7, ResultMarked
<1>9. Marks(caller) = Marks(Shape)
  <2>1. PICK wide \in Nat : wide = Len(Shape)
    BY <1>1
  <2>2. DOMAIN caller = 1 .. wide - k + 1 /\ DOMAIN Shape = 1 .. wide /\ k \in Nat \ {0}
        /\ k < wide
    BY <1>1, <1>2, <1>6, <1>8, <2>1
  <2>3. ASSUME NEW j \in 1 .. wide - k + 1, caller[j] = "captured"
        PROVE  j \in 1 .. wide /\ Shape[j] = "captured"
    <3>1. j # wide - k + 1
      BY <1>8, <2>1, <2>3
    <3>2. j \in 1 .. wide - k /\ j \in 1 .. wide
      BY <2>2, <3>1
    <3>3. QED
      BY <1>8, <2>1, <2>3, <3>2
  <2>4. ASSUME NEW j \in 1 .. wide, Shape[j] = "captured"
        PROVE  j \in 1 .. wide - k + 1 /\ caller[j] = "captured"
    <3>1. j \in 1 .. wide - k /\ caller[j] = "captured"
      BY <1>8, <2>1, <2>4
    <3>2. j \in 1 .. wide - k + 1
      BY <2>2, <3>1
    <3>3. QED
      BY <3>1, <3>2
  <2>5. QED
    BY <2>2, <2>3, <2>4 DEF Marks
<1>10. callee \in Seq(Kind) /\ Marks(callee) = {}
  <2> DEFINE params == [i \in 1 .. argc |-> "local"]
  <2>1. params \in Seq(Kind) /\ Len(params) = argc /\ <<"callee">> \in Seq(Kind)
    BY DEF Kind
  <2>2. \A i \in 1 .. argc : params[i] = "local"
    OBVIOUS
  <2> HIDE DEF params
  <2>3. /\ callee \in Seq(Kind) /\ Len(callee) = 1 + argc
        /\ \A j \in 1 .. 1 + argc : callee[j] = IF j <= 1 THEN <<"callee">>[j] ELSE params[j - 1]
    BY <1>4, <2>1, ConcatProperties DEF params
  <2>4. ASSUME NEW j \in 1 .. 1 + argc PROVE callee[j] # "captured"
    <3>1. CASE j = 1
      BY <2>3, <3>1
    <3>2. CASE j # 1
      <4>1. j - 1 \in 1 .. argc /\ ~(j <= 1)
        BY <3>2
      <4>2. callee[j] = "local"
        BY <2>2, <2>3, <4>1
      <4>3. QED
        BY <4>2
    <3>3. QED
      BY <3>1, <3>2
  <2>5. DOMAIN callee = 1 .. 1 + argc
    BY <2>3
  <2>6. QED
    BY <2>3, <2>4, <2>5 DEF Marks
<1>11. /\ \A i \in 1 .. n : i # n => shapes'[i] = shapes[i]
       /\ shapes'[n] = caller /\ shapes'[n + 1] = callee
  <2>1. PICK mid : mid = [shapes EXCEPT ![n] = caller]
    OBVIOUS
  <2>2. /\ mid \in Seq(Seq(Kind)) /\ Len(mid) = n /\ mid[n] = caller
        /\ \A i \in 1 .. n : i # n => mid[i] = shapes[i]
    BY <1>1, <1>8, <2>1
  <2>3. /\ \A i \in 1 .. Len(mid) : Append(mid, callee)[i] = mid[i]
        /\ Append(mid, callee)[Len(mid) + 1] = callee
    BY <1>10, <2>2, AppendProperties
  <2>4. QED
    BY <1>1, <1>5, <2>1, <2>2, <2>3
<1>12. /\ s \in Seq(SUBSET Nat) /\ Len(s) = n /\ \A i \in 1 .. n : s[i] = Marks(shapes[i])
       /\ t \in Seq(SUBSET Nat) /\ Len(t) = n + 1
       /\ \A i \in 1 .. n + 1 : t[i] = Marks(shapes'[i])
  BY SharingTyped DEF IInv
<1>13. \A i \in 1 .. n : t[i] = s[i]
  <2>1. \A i \in 1 .. n : i \in 1 .. n + 1
    BY <1>1
  <2>2. ASSUME NEW i \in 1 .. n PROVE t[i] = s[i]
    <3>1. CASE i = n
      BY <1>1, <1>9, <1>11, <1>12, <2>1, <3>1
    <3>2. CASE i # n
      BY <1>11, <1>12, <2>1, <3>2
    <3>3. QED
      BY <3>1, <3>2
  <2>3. QED
    BY <2>2
<1>14. t[n + 1] = {}
  <2>1. n + 1 \in 1 .. n + 1
    BY <1>1
  <2>2. QED
    BY <1>10, <1>11, <1>12, <2>1
<1>15. t = Append(s, {})
  <2>1. PICK u : u = Append(s, {})
    OBVIOUS
  <2>2. {} \in SUBSET Nat
    OBVIOUS
  <2>3. /\ u \in Seq(SUBSET Nat) /\ Len(u) = n + 1 /\ \A i \in 1 .. n : u[i] = s[i]
        /\ u[n + 1] = {}
    BY <1>12, <2>1, <2>2, AppendProperties
  <2>4. \A i \in 1 .. n + 1 : i \in 1 .. n \/ i = n + 1
    BY <1>1
  <2>5. \A i \in 1 .. Len(t) : t[i] = u[i]
    BY <1>12, <1>13, <1>14, <2>3, <2>4
  <2>6. QED
    BY <1>12, <2>1, <2>3, <2>5, SeqEqual
<1>16. KeptIn(s, t, n - 1)
  <2>1. n - 1 <= n + 1 /\ \A i \in 1 .. n - 1 : i \in 1 .. n
    BY <1>1
  <2>2. QED
    BY <1>12, <1>13, <2>1 DEF KeptIn
<1>17. QED
  BY <1>15, <1>16

LEMMA SharedReturned ==
  ASSUME IInv, IInv', frames # <<>>, Len(frames) > 1, Len(frames') = Len(frames) - 1,
         shapes' = Front(shapes), NEW n, n = Len(frames),
         NEW s, s = Sharing(frames, shapes), NEW t, t = Sharing(frames', shapes')
  PROVE  KeptIn(s, t, n - 2) /\ t = SubSeq(s, 1, n - 1)
<1>1. shapes \in Seq(Seq(Kind)) /\ Len(shapes) = n /\ n \in Nat \ {0} /\ n > 1
  BY RunningFrame
<1>2. PICK top \in Nat : top = n - 1
  BY <1>1
<1>3. top \in 0 .. n
  BY <1>1, <1>2
<1>4. \A i \in 1 .. top : shapes'[i] = shapes[i]
  <2>1. shapes' = SubSeq(shapes, 1, top)
    BY <1>1, <1>2 DEF Front
  <2>2. QED
    BY <1>1, <1>3, <2>1, SubSeqProperties
<1>5. /\ s \in Seq(SUBSET Nat) /\ Len(s) = n /\ \A i \in 1 .. n : s[i] = Marks(shapes[i])
      /\ t \in Seq(SUBSET Nat) /\ Len(t) = top /\ \A i \in 1 .. top : t[i] = Marks(shapes'[i])
  BY <1>2, SharingTyped DEF IInv
<1>6. \A i \in 1 .. top : t[i] = s[i]
  <2>1. \A i \in 1 .. top : i \in 1 .. n
    BY <1>3
  <2>2. QED
    BY <1>4, <1>5, <2>1
<1>7. t = SubSeq(s, 1, top)
  <2>1. PICK u : u = SubSeq(s, 1, top)
    OBVIOUS
  <2>2. u \in Seq(SUBSET Nat) /\ Len(u) = top /\ \A i \in 1 .. top : u[i] = s[i]
    BY <1>3, <1>5, <2>1, SubSeqProperties
  <2>3. \A i \in 1 .. Len(t) : t[i] = u[i]
    BY <1>5, <1>6, <2>2
  <2>4. QED
    BY <1>5, <2>1, <2>2, <2>3, SeqEqual
<1>8. KeptIn(s, t, n - 2)
  <2>1. n - 2 <= top /\ \A i \in 1 .. n - 2 : i \in 1 .. top
    BY <1>1, <1>2
  <2>2. QED
    BY <1>5, <1>6, <2>1 DEF KeptIn
<1>9. QED
  BY <1>2, <1>7, <1>8

(* An assignment to a captured variable changes one value of one part.     *)
LEMMA AssignedParts ==
  ASSUME IInv, IInv', Assigned, NEW a, a = Parts(stack, frames),
         NEW b, b = Parts(stack', frames'), NEW s, s = Sharing(frames, shapes)
  PROVE  /\ Len(b) = Len(a)
         /\ \E i \in 1 .. Len(a) :
              /\ Len(b[i]) = Len(a[i])
              /\ \E j \in s[i] : b = [a EXCEPT ![i][j] = b[i][j]]
<1>1. PICK c \in Captured, v \in Good :
        stack' = [stack EXCEPT ![frames[c[1]].slots + c[2] - 1] = v]
  BY DEF Assigned
<1>2. PICK n : n = Len(frames)
  OBVIOUS
<1>3. PICK i : i = c[1]
  OBVIOUS
<1>4. PICK j : j = c[2]
  OBVIOUS
<1>5. PICK low : low = frames[i].slots
  OBVIOUS
<1>6. PICK slot : slot = low + j - 1
  OBVIOUS
<1> DEFINE G == Good \cup Good'
<1>7. /\ Layout(stack, frames, shapes, Good, Receivers)
      /\ Layout(stack', frames', shapes', Good', Receivers')
  BY DEF IInv
<1>8. /\ stack \in Seq(G) /\ stack' \in Seq(G) /\ Len(stack) \in Nat
      /\ frames \in Seq(FrameRecord) /\ n \in Nat /\ frames' = frames
      /\ shapes \in Seq(Seq(Kind)) /\ Len(shapes) = n
  BY <1>2, <1>7 DEF Layout, Placed, Assigned
<1> HIDE DEF G
<1>9. /\ i \in 1 .. n /\ j \in 1 .. Len(shapes[i]) /\ shapes[i][j] = "captured"
      /\ slot \in 1 .. Len(stack)
      /\ i < n => slot < frames[i + 1].slots
  BY <1>2, <1>3, <1>4, <1>5, <1>6, CapturedSlots
<1>10. stack' = [stack EXCEPT ![slot] = v]
  BY <1>1, <1>3, <1>4, <1>5, <1>6
<1>11. Len(stack') = Len(stack) /\ \A p \in 1 .. Len(stack) : p # slot => stack'[p] = stack[p]
  <2>1. DOMAIN stack = 1 .. Len(stack)
    BY <1>8
  <2>2. DOMAIN stack' = 1 .. Len(stack)
    BY <1>10, <2>1
  <2>3. DOMAIN stack' = 1 .. Len(stack') /\ Len(stack') \in Nat
    BY <1>8
  <2>4. Len(stack') = Len(stack)
    BY <1>8, <2>2, <2>3
  <2>5. QED
    BY <1>10, <2>1, <2>4
<1>12. /\ a \in Seq(Seq(Good)) /\ Len(a) = n
       /\ \A k \in 1 .. n : a[k] = SubSeq(stack, frames[k].slots, High(stack, frames, k))
  BY <1>2, <1>7, PartsTyped
<1>13. /\ b \in Seq(Seq(Good')) /\ Len(b) = n
       /\ \A k \in 1 .. n : b[k] = SubSeq(stack', frames[k].slots, High(stack', frames, k))
  BY <1>2, <1>7, <1>8, PartsTyped
<1>14. ASSUME NEW k \in 1 .. n
       PROVE  /\ High(stack', frames, k) = High(stack, frames, k)
              /\ frames[k].slots \in Nat \ {0} /\ High(stack, frames, k) \in Nat
              /\ frames[k].slots <= High(stack, frames, k) /\ High(stack, frames, k) <= Len(stack)
  <2>1. High(stack', frames, k) = High(stack, frames, k)
    BY <1>11 DEF High
  <2>2. QED
    BY <1>2, <1>7, <2>1, PartBounds
<1>15. low \in Nat \ {0} /\ j \in Nat \ {0} /\ low <= slot /\ slot <= High(stack, frames, i)
  <2>1. low \in Nat \ {0}
    BY <1>5, <1>9, <1>14
  <2>2. Len(shapes[i]) \in Nat
    BY <1>8, <1>9
  <2>3. j \in Nat \ {0}
    BY <1>9, <2>2
  <2>4. low <= slot
    BY <1>6, <2>1, <2>3
  <2>5. slot <= High(stack, frames, i)
    <3>1. CASE i = n
      BY <1>2, <1>9, <3>1 DEF High
    <3>2. CASE i # n
      <4>1. i < n /\ i + 1 \in 1 .. n
        BY <1>8, <1>9, <3>2
      <4>2. frames[i + 1].slots \in Nat \ {0}
        BY <1>14, <4>1
      <4>3. High(stack, frames, i) = frames[i + 1].slots - 1
        BY <1>2, <3>2 DEF High
      <4>4. QED
        BY <1>9, <4>1, <4>2, <4>3
    <3>3. QED
      BY <3>1, <3>2
  <2>6. QED
    BY <2>1, <2>3, <2>4, <2>5
<1>16. ASSUME NEW k \in 1 .. n, k # i PROVE b[k] = a[k]
  <2>1. PICK from \in Nat \ {0} : from = frames[k].slots
    BY <1>14
  <2>2. PICK to \in Nat : to = High(stack, frames, k)
    BY <1>14
  <2>3. from <= to /\ to <= Len(stack)
    BY <1>14, <2>1, <2>2
  <2>4. slot \notin from .. to
    <3>1. CASE k < i
      <4>1. Placed(stack, frames, shapes)
        BY <1>7 DEF Layout
      <4>2. k \in 1 .. n - 1 /\ k # n /\ k + 1 \in 1 .. n
        <5>1. n \in Nat
          BY <1>8
        <5>2. i \in 1 .. n
          BY <1>9
        <5>3. k \in 1 .. n
          OBVIOUS
        <5>4. QED
          BY <3>1, <5>1, <5>2, <5>3
      <4>3. frames[k + 1].slots \in Nat \ {0} /\ to = frames[k + 1].slots - 1
        BY <1>2, <1>14, <2>2, <4>2 DEF High
      <4>4. frames[k + 1].slots <= low
        <5>1. frames[k + 1].slots = Top(frames, shapes, k)
          BY <1>2, <4>1, <4>2 DEF Placed
        <5>2. QED
          <6>1. Top(frames, shapes, k) <= frames[i].slots
            BY <1>2, <1>9, <3>1, <4>1 DEF Placed
          <6>2. QED
            BY <1>5, <5>1, <6>1
      <4>5. PICK next \in Nat : next = frames[k + 1].slots
        BY <4>3
      <4>6. to = next - 1 /\ next <= low
        BY <4>3, <4>4, <4>5
      <4>7. low \in Nat /\ slot \in Nat /\ low <= slot
        BY <1>8, <1>9, <1>15
      <4>8. QED
        BY <4>6, <4>7
    <3>2. CASE i < k
      <4>1. Placed(stack, frames, shapes)
        BY <1>7 DEF Layout
      <4>2. i \in 1 .. n - 1 /\ i < n /\ i + 1 \in 1 .. n
        BY <1>8, <1>9, <1>16, <3>2
      <4>3. frames[i + 1].slots \in Nat \ {0} /\ slot < frames[i + 1].slots
        BY <1>9, <1>14, <4>2
      <4>4. frames[i + 1].slots <= from
        <5>1. frames[i + 1].slots = Top(frames, shapes, i)
          BY <1>2, <4>1, <4>2 DEF Placed
        <5>2. QED
          BY <1>2, <1>9, <2>1, <3>2, <4>1, <5>1 DEF Placed
      <4>5. QED
        BY <1>8, <1>9, <4>3, <4>4
    <3>3. QED
      BY <1>8, <1>9, <1>16, <3>1, <3>2
  <2>5. \A p \in from .. to : p \in 1 .. Len(stack) /\ p # slot
    BY <1>8, <2>3, <2>4
  <2>6. \A p \in from .. to : stack'[p] = stack[p]
    BY <1>11, <2>5
  <2>7. from <= to + 1
    BY <2>3
  <2>8. SubSeq(stack', from, to) = SubSeq(stack, from, to)
    BY <1>8, <1>11, <2>3, <2>6, <2>7, SameParts
  <2>9. QED
    BY <1>12, <1>13, <1>14, <2>1, <2>2, <2>8
<1>17. PICK high \in Nat : high = High(stack, frames, i)
  BY <1>9, <1>14
<1>18. low <= high + 1 /\ high <= Len(stack) /\ high <= Len(stack')
  <2>1. low <= high /\ high <= Len(stack)
    BY <1>5, <1>9, <1>14, <1>17
  <2>2. QED
    BY <1>11, <1>15, <1>17, <2>1
<1>19. PICK old : old = SubSeq(stack, low, high)
  OBVIOUS
<1>20. PICK new : new = SubSeq(stack', low, high)
  OBVIOUS
<1>21. a[i] = old /\ b[i] = new
  BY <1>5, <1>9, <1>12, <1>13, <1>14, <1>17, <1>19, <1>20
<1>22. /\ old \in Seq(G) /\ Len(old) = high - low + 1
       /\ \A q \in 1 .. high - low + 1 : old[q] = stack[low + q - 1]
  BY <1>8, <1>15, <1>18, <1>19, PartOf
<1>23. /\ new \in Seq(G) /\ Len(new) = high - low + 1
       /\ \A q \in 1 .. high - low + 1 : new[q] = stack'[low + q - 1]
  BY <1>8, <1>15, <1>18, <1>20, PartOf
<1>24. j \in 1 .. high - low + 1
  BY <1>6, <1>15, <1>17
<1>25. \A q \in 1 .. high - low + 1 : q # j => new[q] = old[q]
  <2> SUFFICES ASSUME NEW q \in 1 .. high - low + 1, q # j PROVE new[q] = old[q]
    OBVIOUS
  <2>1. low + q - 1 \in 1 .. Len(stack) /\ low + q - 1 # slot
    BY <1>6, <1>8, <1>15, <1>18
  <2>2. QED
    BY <1>11, <1>22, <1>23, <2>1
<1>26. new = [old EXCEPT ![j] = new[j]]
  <2>1. PICK other : other = [old EXCEPT ![j] = new[j]]
    OBVIOUS
  <2>2. new[j] \in G
    BY <1>23, <1>24
  <2>3. /\ other \in Seq(G) /\ Len(other) = high - low + 1 /\ other[j] = new[j]
        /\ \A q \in 1 .. high - low + 1 : q # j => other[q] = old[q]
    BY <1>22, <1>24, <2>1, <2>2
  <2>4. \A q \in 1 .. Len(new) : new[q] = other[q]
    BY <1>23, <1>25, <2>3
  <2>5. QED
    BY <1>23, <2>1, <2>3, <2>4, SeqEqual
<1>27. b = [a EXCEPT ![i][j] = b[i][j]]
  <2> DEFINE P == Seq(Good) \cup Seq(Good') \cup {new}
  <2>1. a \in Seq(P) /\ b \in Seq(P) /\ new \in P
    BY <1>12, <1>13
  <2> HIDE DEF P
  <2>2. PICK other : other = [a EXCEPT ![i] = new]
    OBVIOUS
  <2>3. /\ other \in Seq(P) /\ Len(other) = n /\ other[i] = new
        /\ \A k \in 1 .. n : k # i => other[k] = a[k]
    BY <1>9, <1>12, <2>1, <2>2
  <2>4. \A k \in 1 .. Len(b) : b[k] = other[k]
    BY <1>13, <1>16, <1>21, <2>3
  <2>5. b = other
    BY <1>12, <1>13, <2>1, <2>3, <2>4, SeqEqual
  <2>6. [a EXCEPT ![i][j] = b[i][j]] = [a EXCEPT ![i] = [a[i] EXCEPT ![j] = b[i][j]]]
    OBVIOUS
  <2>7. QED
    BY <1>21, <1>26, <2>2, <2>5, <2>6
<1>28. j \in s[i]
  <2>1. s[i] = Marks(shapes[i])
    BY <1>2, <1>7, <1>9, SharingTyped
  <2>2. j \in DOMAIN shapes[i]
    BY <1>8, <1>9
  <2>3. QED
    BY <1>9, <2>1, <2>2 DEF Marks
<1>29. QED
  <2>1. Len(b[i]) = Len(a[i])
    BY <1>21, <1>22, <1>23
  <2>2. Len(b) = Len(a) /\ i \in 1 .. Len(a)
    BY <1>9, <1>12, <1>13
  <2>3. QED
    BY <1>27, <1>28, <2>1, <2>2

LEMMA StepParts ==
  ASSUME IInv, IInv', Stepped, NEW a, a = Parts(stack, frames),
         NEW b, b = Parts(stack', frames'),
         NEW s, s = Sharing(frames, shapes), NEW t, t = Sharing(frames', shapes')
  PROVE  PartStep(a, b, s, t)
<1>1. PICK n : n = Len(frames)
  OBVIOUS
<1>2. PICK high : high = Len(stack)
  OBVIOUS
<1> DEFINE G == Good \cup Good'
<1>3. /\ Layout(stack, frames, shapes, Good, Receivers)
      /\ Layout(stack', frames', shapes', Good', Receivers')
  BY DEF IInv
<1>4. /\ stack \in Seq(G) /\ stack' \in Seq(G) /\ high \in Nat
      /\ frames \in Seq(FrameRecord) /\ frames' \in Seq(FrameRecord) /\ n \in Nat
      /\ Len(frames') \in Nat
  BY <1>1, <1>2, <1>3 DEF Layout, Placed
<1> HIDE DEF G
<1>5. /\ a \in Seq(Seq(Good)) /\ Len(a) = n
      /\ \A i \in 1 .. n : a[i] = SubSeq(stack, frames[i].slots, High(stack, frames, i))
  BY <1>1, <1>3, PartsTyped
<1>6. /\ b \in Seq(Seq(Good')) /\ Len(b) = Len(frames')
      /\ \A i \in 1 .. Len(frames') :
           b[i] = SubSeq(stack', frames'[i].slots, High(stack', frames', i))
  BY <1>3, PartsTyped
<1>7. ASSUME NEW k \in Nat, k < n, k < Len(frames'),
             \A i \in 1 .. k + 1 : frames'[i].slots = frames[i].slots,
             \A p \in 1 .. frames[k + 1].slots - 1 : stack'[p] = stack[p]
      PROVE  KeptIn(a, b, k)
  <2>1. \A i \in 1 .. k : Parts(stack', frames')[i] = Parts(stack, frames)[i]
    BY <1>1, <1>3, <1>7, KeptParts
  <2>2. k <= Len(b)
    BY <1>4, <1>6, <1>7
  <2>3. QED
    BY <2>1, <2>2 DEF KeptIn
<1>8. CASE Inside
  <2>1. frames' = frames /\ n \in Nat \ {0} /\ Frame = frames[n] /\ Untouched
    BY <1>1, <1>8, RunningFrame DEF Inside
  <2>2. PICK k \in Nat : k = n - 1
    BY <2>1
  <2>3. k < n /\ k < Len(frames') /\ k + 1 = n
    BY <1>1, <2>1, <2>2
  <2>4. \A i \in 1 .. k + 1 : frames'[i].slots = frames[i].slots
    BY <2>1
  <2>5. \A p \in 1 .. frames[k + 1].slots - 1 : stack'[p] = stack[p]
    BY <2>1, <2>3 DEF Untouched
  <2>6. KeptIn(a, b, k)
    BY <1>7, <2>3, <2>4, <2>5
  <2>7. a # <<>> /\ Len(b) = Len(a) /\ Len(a) - 1 = k
    BY <1>1, <1>5, <1>6, <2>1, <2>2
  <2>8. KeptIn(s, t, k) /\ \A j \in s[n] : j \in t[n] \/ j > Len(shapes'[n])
    <3>1. frames # <<>> /\ Shaped
      BY <1>8 DEF Inside
    <3>2. QED
      BY <1>1, <2>1, <2>2, <3>1, SharedInside
  <2>9. Len(b[n]) = Len(shapes'[n]) /\ Len(a) = n
    <3>1. n = Len(frames') /\ n \in 1 .. Len(frames')
      BY <1>1, <2>1
    <3>2. QED
      BY <1>3, <1>5, <3>1, PartLength
  <2>10. QED
    BY <2>6, <2>7, <2>8, <2>9 DEF PartStep
<1>9. CASE Entered
  <2>1. PICK argc \in Nat, f \in Function, slot0 \in Value, made \in Instance \cup {Absent} :
          Operands(argc + 1) /\ argc + 1 < Len(Shape) /\ Enter(f, argc, slot0, made)
    BY <1>9 DEF Entered, Operands
  <2>2. /\ n \in Nat \ {0} /\ Frame = frames[n] /\ Frame.slots \in Nat \ {0}
        /\ Len(Shape) \in Nat \ {0} /\ high = Frame.slots + Len(Shape) - 1
    BY <1>1, <1>2, <1>9, RunningFrame DEF Entered
  <2>3. PICK slot : slot = high - argc
    OBVIOUS
  <2>4. PICK low : low = frames[n].slots
    OBVIOUS
  <2>5. low \in Nat \ {0} /\ slot \in Nat \ {0} /\ low < slot /\ slot <= high
    <3>1. PICK wide : wide = Len(Shape)
      OBVIOUS
    <3>2. low \in Nat \ {0} /\ wide \in Nat \ {0} /\ high = low + wide - 1 /\ argc + 1 < wide
      BY <2>1, <2>2, <2>4, <3>1
    <3>3. QED
      BY <1>4, <2>3, <3>2
  <2>6. PICK r : r = [closure |-> f, slots |-> slot, made |-> made]
    OBVIOUS
  <2>7. frames' = Append(frames, r) /\ stack' = [stack EXCEPT ![slot] = slot0]
    BY <1>2, <2>1, <2>3, <2>6 DEF Enter
  <2>8. /\ Len(frames') = n + 1 /\ \A i \in 1 .. n : frames'[i] = frames[i]
        /\ frames'[n + 1].slots = slot
    <3>1. r \in FrameRecord /\ r.slots = slot
      BY <2>5, <2>6 DEF FrameRecord
    <3>2. /\ Len(Append(frames, r)) = Len(frames) + 1
          /\ \A i \in 1 .. Len(frames) : Append(frames, r)[i] = frames[i]
          /\ Append(frames, r)[Len(frames) + 1] = r
      BY <1>4, <3>1, AppendProperties
    <3>3. QED
      BY <1>1, <2>7, <3>1, <3>2
  <2>9. Len(stack') = high /\ \A p \in 1 .. high : p # slot => stack'[p] = stack[p]
    <3>1. DOMAIN stack = 1 .. high /\ high \in Nat
      BY <1>2, <1>4
    <3>2. DOMAIN stack' = DOMAIN stack /\ \A p \in DOMAIN stack : p # slot => stack'[p] = stack[p]
      BY <2>7
    <3>3. DOMAIN stack' = 1 .. Len(stack') /\ Len(stack') \in Nat
      BY <1>4
    <3>4. Len(stack') = high
      BY <3>1, <3>2, <3>3
    <3>5. QED
      BY <3>1, <3>2, <3>4
  <2>10. PICK k \in Nat : k = n - 1
    BY <2>2
  <2>11. /\ k < n /\ k < Len(frames') /\ k + 1 = n /\ n \in 1 .. n /\ n \in 1 .. n + 1
         /\ n + 1 \in 1 .. n + 1 /\ n # n + 1
    BY <2>2, <2>8, <2>10
  <2>12. KeptIn(a, b, k)
    <3>1. \A i \in 1 .. k + 1 : frames'[i].slots = frames[i].slots
      BY <2>8, <2>11
    <3>2. \A p \in 1 .. low - 1 : p \in 1 .. high /\ p # slot
      BY <1>4, <2>5
    <3>3. \A p \in 1 .. frames[k + 1].slots - 1 : stack'[p] = stack[p]
      BY <2>4, <2>9, <2>11, <3>2
    <3>4. QED
      BY <1>7, <2>11, <3>1, <3>3
  <2>13. a[n] = SubSeq(stack, low, high)
    <3>1. High(stack, frames, n) = high
      BY <1>1, <1>2 DEF High
    <3>2. QED
      BY <1>5, <2>4, <2>11, <3>1
  <2>14. b[n] = SubSeq(stack', low, slot - 1)
    <3>1. High(stack', frames', n) = slot - 1
      BY <2>8, <2>11 DEF High
    <3>2. n \in 1 .. Len(frames') /\ frames'[n].slots = low
      BY <2>4, <2>8, <2>11
    <3>3. QED
      BY <1>6, <3>1, <3>2
  <2>15. b[n + 1] = SubSeq(stack', slot, high)
    <3>1. High(stack', frames', n + 1) = high
      BY <2>8, <2>9 DEF High
    <3>2. n + 1 \in 1 .. Len(frames')
      BY <2>8, <2>11
    <3>3. QED
      BY <1>6, <2>8, <3>1, <3>2
  <2>16. Splits(a[n], b[n], b[n + 1])
    <3>1. slot \in Nat /\ Len(stack) = high
      BY <1>2, <2>5
    <3>2. Splits(SubSeq(stack, low, high), SubSeq(stack', low, slot - 1),
                 SubSeq(stack', slot, high))
      BY <1>4, <2>5, <2>9, <3>1, CallSplits
    <3>3. QED
      BY <2>13, <2>14, <2>15, <3>2
  <2>17. a # <<>> /\ Len(a) = n /\ Len(b) = Len(a) + 1 /\ Len(a) - 1 = k
    BY <1>5, <1>6, <2>2, <2>8, <2>10
  <2>18. KeptIn(s, t, k) /\ t = Append(s, {})
    <3>1. frames # <<>>
      BY <1>9 DEF Entered
    <3>2. QED
      BY <1>1, <2>1, <2>8, <2>10, <3>1, SharedEntered
  <2>19. QED
    BY <2>12, <2>16, <2>17, <2>18 DEF PartStep
<1>10. CASE Return
  <2>1. /\ n \in Nat \ {0} /\ n > 1 /\ Frame = frames[n] /\ Frame.slots \in 1 .. high
        /\ frames' = SubSeq(frames, 1, n - 1)
    BY <1>1, <1>2, <1>10, RunningFrame DEF Return, InCode, Front
  <2>2. PICK v : stack' = Append(SubSeq(stack, 1, Frame.slots - 1), v)
    BY <1>10 DEF Return
  <2>3. PICK base : base = frames[n].slots
    OBVIOUS
  <2>4. PICK k \in Nat : k = n - 2
    BY <2>1
  <2>5. /\ base \in Nat \ {0} /\ base <= high /\ k < n /\ k + 1 = n - 1 /\ k + 1 \in 1 .. n - 1
        /\ k + 1 \in 1 .. n /\ k + 2 = n /\ k + 1 # n /\ n - 1 \in Nat /\ n - 1 <= n
    BY <1>4, <2>1, <2>3, <2>4
  <2>6. Len(frames') = n - 1 /\ \A i \in 1 .. n - 1 : frames'[i] = frames[i]
    <3>1. PICK top \in Nat : top = n - 1
      BY <2>5
    <3>2. top <= Len(frames) /\ 1 <= top + 1 /\ top - 1 + 1 = top
      BY <1>1, <2>5, <3>1
    <3>3. /\ Len(SubSeq(frames, 1, top)) = top - 1 + 1
          /\ \A i \in 1 .. top - 1 + 1 : SubSeq(frames, 1, top)[i] = frames[1 + i - 1]
      BY <1>4, <3>2, PartOf
    <3>4. \A i \in 1 .. top : 1 + i - 1 = i
      OBVIOUS
    <3>5. QED
      BY <2>1, <3>1, <3>2, <3>3, <3>4
  <2>7. Len(stack') = base /\ \A p \in 1 .. base - 1 : stack'[p] = stack[p]
    <3>1. PICK top \in Nat : top = base - 1
      BY <2>5
    <3> DEFINE W == G \cup {v}
    <3>2. stack \in Seq(W) /\ v \in W
      BY <1>4
    <3> HIDE DEF W
    <3>3. PICK kept : kept = SubSeq(stack, 1, top)
      OBVIOUS
    <3>4. top <= Len(stack) /\ 1 <= top + 1 /\ top - 1 + 1 = top
      BY <1>2, <2>5, <3>1
    <3>5. kept \in Seq(W) /\ Len(kept) = top /\ \A p \in 1 .. top : kept[p] = stack[1 + p - 1]
      BY <3>2, <3>3, <3>4, PartOf
    <3>6. stack' = Append(kept, v)
      BY <2>1, <2>2, <2>3, <3>1, <3>3
    <3>7. Len(stack') = Len(kept) + 1 /\ \A p \in 1 .. Len(kept) : stack'[p] = kept[p]
      BY <3>2, <3>5, <3>6, AppendProperties
    <3>8. \A p \in 1 .. top : 1 + p - 1 = p
      OBVIOUS
    <3>9. top + 1 = base
      BY <2>5, <3>1
    <3>10. QED
      BY <3>1, <3>5, <3>7, <3>8, <3>9
  <2>8. PICK low : low = frames[k + 1].slots
    OBVIOUS
  <2>9. low \in Nat \ {0} /\ low < base
    <3>1. Placed(stack, frames, shapes) /\ frames # <<>> /\ k + 1 \in 1 .. Len(frames) - 1
          /\ k + 1 \in 1 .. Len(frames)
      BY <1>1, <1>3, <2>1, <2>5 DEF Layout
    <3>2. QED
      BY <1>1, <2>3, <2>8, <3>1, LayoutBelow
  <2>10. KeptIn(a, b, k)
    <3>1. k < Len(frames') /\ \A i \in 1 .. k + 1 : frames'[i].slots = frames[i].slots
      BY <2>5, <2>6
    <3>2. \A p \in 1 .. low - 1 : p \in 1 .. base - 1
      BY <2>5, <2>9
    <3>3. \A p \in 1 .. frames[k + 1].slots - 1 : stack'[p] = stack[p]
      BY <2>7, <2>8, <3>2
    <3>4. QED
      BY <1>7, <2>5, <3>1, <3>3
  <2>11. a[k + 1] = SubSeq(stack, low, base - 1)
    <3>1. High(stack, frames, k + 1) = frames[k + 1 + 1].slots - 1
      BY <1>1, <2>5 DEF High
    <3>2. k + 1 + 1 = n
      BY <2>5
    <3>3. QED
      BY <1>5, <2>3, <2>5, <2>8, <3>1, <3>2
  <2>12. b[k + 1] = SubSeq(stack', low, base)
    <3>1. High(stack', frames', k + 1) = base
      BY <2>5, <2>6, <2>7 DEF High
    <3>2. k + 1 \in 1 .. Len(frames') /\ frames'[k + 1].slots = low
      BY <2>5, <2>6, <2>8
    <3>3. QED
      BY <1>6, <3>1, <3>2
  <2>13. Joins(a[k + 1], b[k + 1])
    <3>1. base \in Nat /\ base <= Len(stack)
      BY <1>2, <2>5
    <3>2. Joins(SubSeq(stack, low, base - 1), SubSeq(stack', low, base))
      BY <1>4, <2>7, <2>9, <3>1, ReturnJoins
    <3>3. QED
      BY <2>11, <2>12, <3>2
  <2>14. Len(a) > 1 /\ Len(b) = Len(a) - 1 /\ Len(a) - 2 = k /\ Len(a) - 1 = k + 1
    BY <1>5, <1>6, <2>1, <2>4, <2>6
  <2>15. KeptIn(s, t, k) /\ t = SubSeq(s, 1, n - 1)
    <3>1. frames # <<>> /\ shapes' = Front(shapes)
      BY <1>10 DEF Return, InCode
    <3>2. QED
      BY <1>1, <2>1, <2>4, <2>6, <3>1, SharedReturned
  <2>16. Len(a) = n
    BY <1>5
  <2>17. QED
    BY <2>10, <2>13, <2>14, <2>15, <2>16 DEF PartStep
<1>11. CASE frames' = <<>> /\ shapes' = <<>>
  <2>1. Len(b) = 0
    BY <1>6, <1>11
  <2>2. b = <<>>
    BY <1>6, <2>1, EmptySeq
  <2>3. t = <<>>
    BY <1>11, <2>1 DEF Sharing
  <2>4. QED
    BY <2>2, <2>3 DEF PartStep
<1>12. CASE Interpret
  <2>1. frames = <<>> /\ stack = <<>>
    BY <1>3, <1>12 DEF Interpret, Layout, Placed
  <2>2. Len(frames') = 1 /\ frames'[1].slots = 1 /\ Len(stack') = 1
    BY <1>12, <2>1 DEF Interpret
  <2>3. a = <<>>
    <3>1. Len(a) = 0
      BY <1>1, <1>5, <2>1
    <3>2. QED
      BY <1>5, <3>1, EmptySeq
  <2>4. b[1] = SubSeq(stack', 1, 1) /\ Len(b) = 1
    <3>1. High(stack', frames', 1) = 1
      BY <2>2 DEF High
    <3>2. 1 \in 1 .. Len(frames')
      BY <2>2
    <3>3. b[1] = SubSeq(stack', frames'[1].slots, High(stack', frames', 1))
      BY <1>6, <3>2
    <3>4. QED
      BY <1>6, <2>2, <3>1, <3>3
  <2>5. Len(b[1]) = 1
    <3>1. Len(SubSeq(stack', 1, 1)) = 1 - 1 + 1
      BY <1>4, <2>2, PartOf
    <3>2. QED
      BY <2>4, <3>1
  <2>6. t = <<{}>>
    <3>1. shapes' = << <<"callee">> >>
      BY <1>12 DEF Interpret
    <3>2. Marks(shapes'[1]) = {}
      BY <3>1 DEF Marks
    <3>3. /\ t \in Seq(SUBSET Nat) /\ Len(t) = Len(frames')
          /\ \A i \in 1 .. Len(frames') : t[i] = Marks(shapes'[i])
      BY <1>3, SharingTyped
    <3>4. Len(t) = 1 /\ t[1] = {}
      BY <2>2, <3>2, <3>3
    <3>5. QED
      BY <3>3, <3>4
  <2>7. QED
    BY <2>3, <2>4, <2>5, <2>6 DEF PartStep
<1>13. CASE UNCHANGED machine
  BY <1>13 DEF machine, PartStep
<1>14. CASE Assigned
  <2>1. t = s
    BY <1>14 DEF Assigned
  <2>2. QED
    BY <1>14, <2>1, AssignedParts DEF PartStep
<1>15. QED
  BY <1>8, <1>9, <1>10, <1>11, <1>12, <1>13, <1>14 DEF Stepped

-------------------------------------------------------------------------------
(* The theorems.                                                           *)

(* Whatever code runs, values stay values, and the tables keep their form. *)
THEOREM Typing ==
  ASSUME Steady PROVE Spec => []TypeOK
<1>1. IInv => TypeOK
  <2> SUFFICES ASSUME IInv PROVE TypeOK
    OBVIOUS
  <2>1. Good \subseteq Value
    BY GoodValues
  <2>2. stack \in Seq(Value)
    BY <2>1 DEF IInv, Layout
  <2>3. frames \in Seq(FrameRecord) /\ shapes \in Seq(Seq(Kind))
    BY DEF IInv, Layout, Placed
  <2>4. fields \in [Instance -> [Name -> Value \cup {Absent}]]
    <3>1. \A i \in Instance : fields[i] \in [Name -> Value \cup {Absent}]
      BY <2>1 DEF IInv, Typed
    <3>2. QED
      BY <3>1 DEF IInv, Typed
  <2>5. globals \in [Global -> Value \cup {Absent}] /\ closed \subseteq Value
    BY <2>1 DEF IInv, Typed
  <2>6. Len(stack) <= StackMax /\ Len(frames) <= FrameMax /\ line \in 0 .. Lines
        /\ crashed \in BOOLEAN /\ klass \in [Instance -> Class \cup {Absent}]
    BY DEF IInv, Typed
  <2>7. TypedClasses
    BY DEF IInv, Classes
  <2>8. QED
    BY <2>2, <2>3, <2>4, <2>5, <2>6, <2>7 DEF TypeOK, TypedClasses, FrameRecord
<1>2. QED
  BY <1>1, SpecIInv, PTL

(* The stack is as high as the compiler counts it, in every frame, through *)
(* calls, returns and errors of any depth, with any code of the compiler.  *)
THEOREM Heights ==
  ASSUME Steady PROVE Spec => []StackMatchesCode
<1>1. IInv => StackMatchesCode
  <2> SUFFICES ASSUME IInv PROVE StackMatchesCode
    OBVIOUS
  <2>1. Placed(stack, frames, shapes)
    BY DEF IInv, Layout
  <2>2. frames # <<>> => Len(stack) = Frame.slots + Len(Shape) - 1
    BY RunningFrame
  <2>3. QED
    BY <2>1, <2>2 DEF StackMatchesCode, Placed, Top
<1>2. QED
  BY <1>1, SpecIInv, PTL

(* A method runs on an instance of a class that declares or inherits it.   *)
THEOREM MethodsFit ==
  ASSUME Steady PROVE Spec => []ReceiverFits
<1>1. IInv => ReceiverFits
  <2> SUFFICES ASSUME IInv, NEW i \in DOMAIN frames, frames[i].closure \in Function,
                      Owner[frames[i].closure] # Absent
               PROVE  Fits(stack[frames[i].slots], frames[i].closure)
    BY DEF ReceiverFits
  <2>1. Filled(stack, frames, shapes, Receivers) /\ frames \in Seq(FrameRecord)
    BY DEF IInv, Layout, Placed
  <2>2. i \in 1 .. Len(frames)
    BY <2>1
  <2>3. <<stack[frames[i].slots], frames[i].closure>> \in Receivers
    BY <2>1, <2>2 DEF Filled
  <2>4. QED
    BY <2>3, ReceiverPairs DEF Suits
<1>2. QED
  BY <1>1, SpecIInv, PTL

(* The assertion of OP_GET_SUPER (vm.c:848) holds for programs that do not *)
(* assign to `this'; CallsThis shows it violated by one that does.         *)
THEOREM SuperOnInstance ==
  ASSUME Steady PROVE Spec => []SuperReceiver
<1>1. IInv => SuperReceiver
  <2> SUFFICES ASSUME IInv, InCode, InSubclass, OnThis(0) PROVE Peek(0) \in Instance
    BY DEF SuperReceiver
  <2>1. frames # <<>> /\ InMethod
    BY DEF InCode, InSubclass
  <2>2. Peek(0) = stack[Frame.slots]
    <3>1. 0 \in Nat
      OBVIOUS
    <3>2. QED
      BY <2>1, <3>1, ThisOnTop
  <2>3. stack[Frame.slots] \in Instance
    BY <2>1, RunningSuits
  <2>4. QED
    BY <2>2, <2>3
<1>2. QED
  BY <1>1, SpecIInv, PTL

(* The name of a method means, for a class, the last method its body gives *)
(* that name, or else what it means for the superclass.                    *)
THEOREM MethodsAreNearest ==
  ASSUME Steady PROVE Spec => []MethodsNearest
<1>1. IInv => MethodsNearest
  BY DEF IInv
<1>2. QED
  BY <1>1, SpecIInv, PTL

(* A class call whose initializer returns leaves the instance it made: the *)
(* frame that made one is an initializer's, with the instance in slot 0.   *)
THEOREM MakersYield ==
  ASSUME Steady PROVE Spec => ConstructorsYield
<1>1. ASSUME IInv, [Next]_vars, frames' = Front(frames), Len(frames) > 1, Frame.made # Absent
      PROVE  Last(stack') = Frame.made
  <2>1. /\ frames # <<>> /\ frames \in Seq(FrameRecord) /\ Len(frames) \in Nat
        /\ stack \in Seq(Good) /\ Len(stack) \in Nat
        /\ Frame = frames[Len(frames)] /\ Frame.slots \in 1 .. Len(stack)
    <3>1. frames # <<>>
      BY <1>1
    <3>2. QED
      BY <1>1, <3>1, RunningFrame
  <2>2. Len(frames') = Len(frames) - 1
    BY <1>1, <2>1, SubSeqProperties DEF Front
  <2>3. ~Inside /\ ~Entered /\ ~Assigned /\ frames' # <<>> /\ ~Interpret /\ ~UNCHANGED machine
    <3>1. frames' # frames /\ frames' # <<>>
      BY <1>1, <2>1, <2>2
    <3>2. ASSUME NEW r PROVE frames' # Append(frames, r)
      <4>1. frames \in Seq(FrameRecord \cup {r}) /\ r \in FrameRecord \cup {r}
        BY <2>1
      <4>2. Len(Append(frames, r)) = Len(frames) + 1
        BY <4>1, AppendProperties
      <4>3. QED
        BY <2>1, <2>2, <4>2
    <3>3. ~Entered
      BY <3>2 DEF Entered, Enter
    <3>4. QED
      BY <2>1, <3>1, <3>3 DEF Inside, Assigned, Interpret, machine
  <2>4. Return
    BY <1>1, <2>3, NextSteps DEF Stepped
  <2>5. Filled(stack, frames, shapes, Receivers) /\ Len(frames) \in 1 .. Len(frames)
    BY <1>1, <2>1 DEF IInv, Layout
  <2>6. stack[Frame.slots] = Frame.made /\ IsInit(Frame.closure)
    BY <1>1, <2>1, <2>5 DEF Filled
  <2>7. stack' = Append(SubSeq(stack, 1, Frame.slots - 1), Frame.made)
    BY <2>4, <2>6 DEF Return
  <2> DEFINE kept == SubSeq(stack, 1, Frame.slots - 1)
             G == Good \cup {Frame.made}
  <2>8. kept \in Seq(G)
    <3>1. stack \in Seq(G) /\ Frame.slots - 1 \in 0 .. Len(stack)
      BY <2>1
    <3>2. PICK top : top = Frame.slots - 1
      OBVIOUS
    <3> HIDE DEF G
    <3>3. QED
      BY <3>1, <3>2, SubSeqProperties
  <2> HIDE DEF kept
  <2>9. /\ Len(Append(kept, Frame.made)) = Len(kept) + 1
        /\ Append(kept, Frame.made)[Len(kept) + 1] = Frame.made
    BY <2>8, AppendProperties
  <2>10. QED
    BY <2>7, <2>9 DEF kept, Last
<1>2. IInv /\ [Next]_vars =>
        [frames' = Front(frames) /\ Len(frames) > 1 /\ Frame.made # Absent
           => Last(stack') = Frame.made]_vars
  BY <1>1
<1>3. QED
  BY <1>2, SpecIInv, PTL DEF Spec, ConstructorsYield

(* The machine implements Activations: a call takes the callee and its     *)
(* arguments away from the caller, a return gives it one value, and nothing*)
(* else changes the values of an activation that waits but an assignment   *)
(* to one of its captured variables.                                       *)
THEOREM ActivationsImplemented ==
  ASSUME Steady PROVE Spec => PrivateActivations
<1>1. Init => Private!Init
  BY DEF Init, Private!Init
<1>2. ASSUME IInv, [Next]_vars
      PROVE  [Private!Next]_<<[i \in DOMAIN frames |-> Segment(i)],
                              [i \in DOMAIN frames |-> CapturedIn(i)]>>
  <2>1. IInv' /\ Stepped
    BY <1>2, NextKeeps, NextSteps
  <2>2. PICK a : a = Parts(stack, frames)
    OBVIOUS
  <2>3. PICK b : b = Parts(stack', frames')
    OBVIOUS
  <2>4. PICK s : s = Sharing(frames, shapes)
    OBVIOUS
  <2>5. PICK t : t = Sharing(frames', shapes')
    OBVIOUS
  <2>6. PartStep(a, b, s, t)
    BY <1>2, <2>1, <2>2, <2>3, <2>4, <2>5, StepParts
  <2>7. QED
    BY <2>2, <2>3, <2>4, <2>5, <2>6, PrivateStep
<1>3. QED
  BY <1>1, <1>2, SpecIInv, PTL DEF Spec, PrivateActivations, Private!Spec
===============================================================================
