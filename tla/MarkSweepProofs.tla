--------------------------- MODULE MarkSweepProofs ---------------------------
(***************************************************************************)
(* MarkSweep for every set of addresses: nothing in use is ever freed, the *)
(* marks are clear when a collection begins, and the mark-and-sweep        *)
(* collector implements the atomic one of Heap.                            *)
(***************************************************************************)
EXTENDS MarkSweep, SequenceTheorems, TLAPS

-------------------------------------------------------------------------------
(* Sequences without repetition.                                           *)

LEMMA ConsInjective ==
  ASSUME NEW S, NEW s \in Seq(S), NEW e \in S \ Range(s), IsInjective(s)
  PROVE  /\ <<e>> \o s \in Seq(S)
         /\ Range(<<e>> \o s) = Range(s) \cup {e}
         /\ IsInjective(<<e>> \o s)
<1> DEFINE t == <<e>> \o s
<1>1. /\ t \in Seq(S) /\ Len(t) = Len(s) + 1
      /\ t[1] = e /\ \A i \in 1 .. Len(s) : t[i + 1] = s[i]
  BY ConcatProperties, LenProperties
<1>2. Len(s) \in Nat /\ DOMAIN s = 1 .. Len(s) /\ DOMAIN t = 1 .. Len(s) + 1
  BY <1>1, LenProperties
<1>3. \A i \in 2 .. Len(s) + 1 : i - 1 \in 1 .. Len(s) /\ t[i] = s[i - 1]
  BY <1>1, <1>2
<1> HIDE DEF t
<1>4. Range(t) = Range(s) \cup {e}
  <2>1. ASSUME NEW i \in DOMAIN t PROVE t[i] \in Range(s) \cup {e}
    <3>1. CASE i = 1
      BY <1>1, <3>1
    <3>2. CASE i # 1
      <4>1. i \in 2 .. Len(s) + 1
        BY <1>2, <2>1, <3>2
      <4>2. QED
        BY <1>2, <1>3, <4>1 DEF Range
    <3>3. QED
      BY <3>1, <3>2
  <2>2. e \in Range(t)
    BY <1>1, <1>2 DEF Range
  <2>3. ASSUME NEW i \in DOMAIN s PROVE s[i] \in Range(t)
    <3>1. i + 1 \in DOMAIN t /\ t[i + 1] = s[i]
      BY <1>1, <1>2, <2>3
    <3>2. QED
      BY <3>1 DEF Range
  <2>4. QED
    BY <2>1, <2>2, <2>3 DEF Range
<1>5. ASSUME NEW i \in DOMAIN t, NEW j \in DOMAIN t, t[i] = t[j]
      PROVE  i = j
  <2>1. \A k \in 2 .. Len(s) + 1 : t[k] # e
    BY <1>2, <1>3 DEF Range
  <2>2. CASE i = 1 \/ j = 1
    BY <1>1, <1>2, <1>5, <2>1, <2>2
  <2>3. CASE i # 1 /\ j # 1
    <3>1. i \in 2 .. Len(s) + 1 /\ j \in 2 .. Len(s) + 1
      BY <1>2, <2>3
    <3>2. i - 1 = j - 1
      BY <1>2, <1>3, <1>5, <3>1 DEF IsInjective
    <3>3. QED
      BY <3>1, <3>2, <1>2
  <2>4. QED
    BY <2>2, <2>3
<1>6. QED
  BY <1>1, <1>4, <1>5 DEF t, IsInjective

LEMMA RemoveAtInjective ==
  ASSUME NEW S, NEW s \in Seq(S), NEW k \in DOMAIN s, IsInjective(s)
  PROVE  /\ RemoveAt(s, k) \in Seq(S)
         /\ Len(RemoveAt(s, k)) = Len(s) - 1
         /\ \A i \in 1 .. k - 1 : RemoveAt(s, k)[i] = s[i]
         /\ Range(RemoveAt(s, k)) = Range(s) \ {s[k]}
         /\ IsInjective(RemoveAt(s, k))
<1> DEFINE t == RemoveAt(s, k)
           n == Len(s)
<1>1. n \in Nat /\ DOMAIN s = 1 .. n /\ k \in 1 .. n
  BY LenProperties
<1> DEFINE a == SubSeq(s, 1, k - 1)
           b == SubSeq(s, k + 1, n)
<1>2. /\ a \in Seq(S) /\ Len(a) = k - 1
      /\ \A i \in 1 .. k - 1 : a[i] = s[i]
  BY <1>1, SubSeqProperties
<1>3. /\ b \in Seq(S) /\ Len(b) = n - k
      /\ \A i \in 1 .. n - k : b[i] = s[k + i]
  BY <1>1, SubSeqProperties
<1>4. t = a \o b
  BY DEF RemoveAt
<1> HIDE DEF a, b, t
<1>5. /\ a \o b \in Seq(S)
      /\ Len(a \o b) = Len(a) + Len(b)
      /\ \A i \in 1 .. Len(a) + Len(b) :
           (a \o b)[i] = IF i <= Len(a) THEN a[i] ELSE b[i - Len(a)]
  BY <1>2, <1>3, ConcatProperties, Zenon
<1>6. /\ t \in Seq(S) /\ Len(t) = (k - 1) + (n - k)
      /\ \A i \in 1 .. (k - 1) + (n - k) :
           t[i] = IF i <= k - 1 THEN a[i] ELSE b[i - (k - 1)]
  BY <1>2, <1>3, <1>4, <1>5
<1>7. Len(t) = n - 1 /\ DOMAIN t = 1 .. n - 1
  BY <1>1, <1>6, LenProperties
<1> HIDE DEF n
<1>8. \A i \in 1 .. n - 1 : t[i] = IF i < k THEN s[i] ELSE s[i + 1]
  <2>1. ASSUME NEW i \in 1 .. n - 1 PROVE t[i] = IF i < k THEN s[i] ELSE s[i + 1]
    <3>1. CASE i < k
      BY <1>1, <1>2, <1>6, <2>1, <3>1
    <3>2. CASE ~(i < k)
      <4>1. i - (k - 1) \in 1 .. n - k /\ k + (i - (k - 1)) = i + 1
        BY <1>1, <2>1, <3>2
      <4>2. b[i - (k - 1)] = s[i + 1]
        BY <1>3, <4>1
      <4>3. i \in 1 .. (k - 1) + (n - k) /\ ~(i <= k - 1)
        BY <1>1, <2>1, <3>2
      <4>4. QED
        BY <1>6, <3>2, <4>2, <4>3
    <3>3. QED
      BY <3>1, <3>2
  <2>2. QED
    BY <2>1
<1>9. Range(t) = Range(s) \ {s[k]}
  <2>1. ASSUME NEW i \in DOMAIN t PROVE t[i] \in Range(s) \ {s[k]}
    <3>1. \E j \in DOMAIN s : t[i] = s[j] /\ j # k
      BY <1>1, <1>7, <1>8, <2>1, SMTT(20)
    <3>2. QED
      BY <3>1 DEF Range, IsInjective
  <2>2. ASSUME NEW j \in DOMAIN s, j # k PROVE s[j] \in Range(t)
    <3>1. CASE j < k
      <4>1. j \in DOMAIN t /\ t[j] = s[j]
        BY <1>1, <1>7, <1>8, <2>2, <3>1
      <4>2. QED
        BY <4>1 DEF Range
    <3>2. CASE j > k
      <4>1. j - 1 \in 1 .. n - 1 /\ ~(j - 1 < k) /\ (j - 1) + 1 = j
        BY <1>1, <2>2, <3>2
      <4>2. j - 1 \in DOMAIN t /\ t[j - 1] = s[j]
        BY <1>7, <1>8, <4>1
      <4>3. QED
        BY <4>2 DEF Range
    <3>3. QED
      BY <1>1, <2>2, <3>1, <3>2
  <2>3. QED
    BY <2>1, <2>2 DEF Range
<1>10. ASSUME NEW i \in DOMAIN t, NEW j \in DOMAIN t, t[i] = t[j]
      PROVE  i = j
  <2> DEFINE at(x) == IF x < k THEN x ELSE x + 1
  <2>1. /\ at(i) \in DOMAIN s /\ t[i] = s[at(i)]
        /\ at(j) \in DOMAIN s /\ t[j] = s[at(j)]
    BY <1>1, <1>7, <1>8, <1>10
  <2>2. at(i) = at(j)
    BY <1>10, <2>1 DEF IsInjective
  <2>3. QED
    BY <1>1, <1>7, <2>2
<1>11. IsInjective(t)
  BY <1>10 DEF IsInjective
<1>12. \A i \in 1 .. k - 1 : t[i] = s[i]
  BY <1>1, <1>8
<1>13. QED
  BY <1>6, <1>7, <1>9, <1>11, <1>12 DEF t, n

-------------------------------------------------------------------------------
(* The inductive invariant.  While the mutator runs and while marking goes *)
(* on, the allocated objects are closed under reference; from the purge of *)
(* the table on, those that the sweep keeps are.                           *)

FieldsFit == \A r \in refs : r[1] \in Allocated /\ r[2] \in FieldsOf[kind[r[1]]]

Holding(S) == /\ RootSet \subseteq S
              /\ strings \subseteq S
              /\ \A o \in S : References(o) \subseteq S

RunOK   == marked = {} /\ gray = {} /\ Holding(Allocated)

TraceOK == /\ Holding(Allocated)
           /\ gray \subseteq marked /\ marked \subseteq Allocated
           /\ marked \subseteq Reachable
           /\ RootSet \subseteq marked
           /\ \A o \in marked \ gray : References(o) \subseteq marked

SweepOK == /\ prev = cursor - 1
           /\ gray = {} /\ Holding(Kept) /\ marked \subseteq Allocated
           /\ \A i \in 1 .. cursor - 1 : objects[i] \notin marked

IInv == /\ TypeOK /\ FieldsFit /\ IsInjective(objects)
        /\ phase = "run"   => RunOK
        /\ phase = "trace" => TraceOK
        /\ phase = "sweep" => SweepOK

-------------------------------------------------------------------------------
(* The graph.                                                              *)

LEMMA GraphTyped ==
  ASSUME TypeOK
  PROVE  /\ Allocated \subseteq Obj /\ RootSet \subseteq Obj
         /\ \A o : References(o) \subseteq Obj
         /\ DOMAIN objects = 1 .. Len(objects) /\ Len(objects) \in Nat
         /\ \A o \in Obj : kind[o] \in Kinds /\ kind[o] \in AllKinds
<1>1. Allocated \subseteq Obj
  BY LenProperties DEF TypeOK, Allocated, Range
<1>2. RootSet \subseteq Obj /\ \A o : References(o) \subseteq Obj
  BY DEF TypeOK, RootSet, References
<1>3. QED
  BY <1>1, <1>2, LenProperties, InstanceAssumption DEF TypeOK

LEMMA ReachableLeast ==
  ASSUME NEW C \in SUBSET Obj, RootSet \subseteq C,
         \A o \in C : References(o) \subseteq C
  PROVE  Reachable \subseteq C
BY DEF Reachable

LEMMA ReachableClosed ==
  ASSUME TypeOK
  PROVE  /\ RootSet \subseteq Reachable /\ Reachable \subseteq Obj
         /\ \A o \in Reachable : References(o) \subseteq Reachable
BY GraphTyped DEF Reachable

LEMMA SameGraph ==
  ASSUME UNCHANGED graph
  PROVE  /\ \A o : References(o)' = References(o)
         /\ RootSet' = RootSet /\ Reachable' = Reachable
<1>1. /\ \A o : References(o)' = References(o)
      /\ RootSet' = RootSet
  BY DEF graph, References, RootSet
<1>2. QED
  BY <1>1 DEF Reachable

(* The mutator has no hold of an object that does not exist.               *)
LEMMA KnownAllocated ==
  ASSUME IInv, phase = "run"
  PROVE  Known \subseteq Allocated
BY GraphTyped, ReachableLeast DEF IInv, RunOK, Holding, Known

(* The references that marking follows are those that the program follows. *)
LEMMA ChildrenAreReferences ==
  ASSUME TypeOK, FieldsFit, NEW o \in Obj
  PROVE  Children(o) = References(o)
<1>1. kind[o] \in AllKinds
  BY GraphTyped
<1>2. ASSUME NEW r \in refs, r[1] = o
      PROVE  r[2] \in MarkedFields[kind[o]] <=> ~(r[2] = "name" /\ kind[o] = "class")
  <2>1. r[2] \in FieldsOf[kind[o]]
    BY <1>2 DEF FieldsFit
  <2>2. QED
    BY <1>1, <2>1 DEF AllKinds, FieldsOf, MarkedFields
<1>3. QED
  BY <1>2 DEF Children, References

LEMMA MarkedRootsAreRoots ==
  ASSUME TypeOK
  PROVE  MarkedRoots = RootSet
<1>1. \A r \in roots : r[1] \in Place
  BY DEF TypeOK
<1>2. QED
  BY <1>1, InstanceAssumption DEF MarkedRoots, RootSet, RootKinds

-------------------------------------------------------------------------------
(* Every step keeps the invariant.                                         *)

LEMMA InitIInv == Init => IInv
<1>1. SUFFICES ASSUME Init PROVE IInv
  OBVIOUS
<1>2. TypeOK
  BY <1>1, EmptySeq DEF Init, TypeOK
<1>3. Allocated = {} /\ RootSet = {} /\ IsInjective(objects)
  BY <1>1, EmptySeq DEF Init, Allocated, Range, RootSet, IsInjective
<1>4. QED
  BY <1>1, <1>2, <1>3
  DEF Init, IInv, FieldsFit, RunOK, Holding, Kept, References

LEMMA FieldsTyped ==
  \A k \in AllKinds : /\ Constructed[k] \subseteq FieldsOf[k]
                      /\ FieldsOf[k] \subseteq DOMAIN Target
                      /\ Home[k] \in DOMAIN RootKinds
BY DEF AllKinds, Constructed, FieldsOf, Target, Home, RootKinds

LEMMA AllocateIInv ==
  ASSUME IInv, Allocate
  PROVE  IInv'
<1>1. TypeOK /\ FieldsFit /\ IsInjective(objects) /\ phase = "run" /\ RunOK
  BY DEF IInv, Allocate
<1>0. PICK o \in Obj \ Allocated, k \in Kinds :
        /\ objects' = <<o>> \o objects
        /\ kind'    = [kind EXCEPT ![o] = k]
        /\ marked'  = marked \ {o}
        /\ \E R \in Contents(o, Constructed[k]) : refs' = refs \cup R
        /\ roots'   = roots \cup {<<Home[k], o>>}
        /\ strings' = IF k = "string" THEN strings \cup {o} ELSE strings
  BY DEF Allocate
<1>2. PICK R \in Contents(o, Constructed[k]) : refs' = refs \cup R
  BY <1>0
<1>3. UNCHANGED <<gray, phase, cursor, prev>>
  BY DEF Allocate, sweep
<1>4. k \in AllKinds /\ Home[k] \in Place
  BY InstanceAssumption
<1>5. \A r \in R : /\ r[1] = o /\ r[2] \in FieldsOf[k] /\ r[3] \in Allocated
                   /\ r \in Obj \X (DOMAIN Target) \X Obj
  BY <1>1, <1>4, FieldsTyped, KnownAllocated, GraphTyped DEF Contents, IInv
<1>6. /\ objects' \in Seq(Obj) /\ Allocated' = Allocated \cup {o}
      /\ IsInjective(objects')
  BY <1>1, <1>0, <1>2, ConsInjective DEF TypeOK, Allocated
<1>7. cursor' \in 1 .. Len(objects') + 1
  <2>1. Len(objects') = Len(objects) + 1
    BY <1>1, <1>0, <1>2, ConcatProperties DEF TypeOK
  <2>2. QED
    BY <1>1, <1>3, <2>1, GraphTyped DEF TypeOK
<1>8. TypeOK'
  BY <1>1, <1>0, <1>2, <1>3, <1>4, <1>5, <1>6, <1>7 DEF TypeOK
<1>9. \A r \in refs : r[1] # o
  BY <1>1 DEF FieldsFit
<1>10. \A x \in Obj : kind'[x] = IF x = o THEN k ELSE kind[x]
  BY <1>1, <1>0, <1>2 DEF TypeOK
<1>11. FieldsFit'
  BY <1>1, <1>0, <1>2, <1>5, <1>6, <1>9, <1>10, GraphTyped DEF FieldsFit
<1>12. \A x \in Allocated' : References(x)' \subseteq Allocated'
  <2>1. ASSUME NEW x \in Allocated, NEW r \in refs', r[1] = x,
               ~(r[2] = "name" /\ kind'[x] = "class")
        PROVE  r[3] \in Allocated
    <3>1. r \in refs
      BY <1>0, <1>2, <1>5, <2>1
    <3>2. kind'[x] = kind[x] /\ References(x) \subseteq Allocated
      BY <1>1, <1>10, GraphTyped DEF RunOK, Holding
    <3>3. QED
      BY <2>1, <3>1, <3>2 DEF References
  <2>2. ASSUME NEW r \in refs', r[1] = o PROVE r[3] \in Allocated
    BY <1>0, <1>2, <1>5, <1>9, <2>2
  <2>3. QED
    BY <1>6, <2>1, <2>2 DEF References
<1>13. RunOK'
  <2>1. \A r \in roots' : r \in roots \/ r[2] = o
    BY <1>0
  <2>2. RootSet' \subseteq RootSet \cup {o}
    BY <2>1 DEF RootSet
  <2>3. strings' \subseteq strings \cup {o}
    BY <1>0
  <2>4. RootSet \subseteq Allocated /\ strings \subseteq Allocated
    BY <1>1 DEF RunOK, Holding
  <2>5. QED
    BY <1>1, <1>0, <1>3, <1>6, <1>12, <2>2, <2>3, <2>4 DEF RunOK, Holding
<1>14. QED
  BY <1>1, <1>3, <1>6, <1>8, <1>11, <1>13 DEF IInv

(* The steps of the mutator that make no object.                           *)
LEMMA MutateIInv ==
  ASSUME IInv, Write \/ AddRoot \/ DropRoot
  PROVE  IInv'
<1>1. TypeOK /\ FieldsFit /\ IsInjective(objects) /\ phase = "run" /\ RunOK
  BY DEF IInv, Write, AddRoot, DropRoot
<1>2. UNCHANGED <<objects, kind, strings, marked, gray, phase, cursor, prev>>
  BY DEF Write, AddRoot, DropRoot, sweep
<1>3. Allocated' = Allocated
  BY <1>2 DEF Allocated
<1>4. roots' \subseteq Place \X Obj /\ RootSet' \subseteq Allocated
  <2>1. CASE Write
    BY <1>1, <2>1 DEF Write, TypeOK, RunOK, Holding, RootSet
  <2>2. CASE AddRoot
    BY <1>1, <2>2, KnownAllocated, GraphTyped
    DEF AddRoot, KnownOf, TypeOK, RunOK, Holding, RootSet
  <2>3. CASE DropRoot
    BY <1>1, <2>3 DEF DropRoot, TypeOK, RunOK, Holding, RootSet
  <2>4. QED
    BY <2>1, <2>2, <2>3
<1>5. \A r \in refs' : \/ r \in refs
                       \/ /\ r \in Allocated \X (DOMAIN Target) \X Allocated
                          /\ r[2] \in FieldsOf[kind[r[1]]]
  <2>1. CASE Write
    <3>0. PICK o \in Known : \E f \in FieldsOf[kind[o]] : \E R \in Contents(o, {f}) :
            refs' = {r \in refs : ~(r[1] = o /\ r[2] = f)} \cup R
      BY <2>1 DEF Write
    <3>1. PICK f \in FieldsOf[kind[o]] : \E R \in Contents(o, {f}) :
            refs' = {r \in refs : ~(r[1] = o /\ r[2] = f)} \cup R
      BY <3>0
    <3>2. o \in Allocated /\ f \in DOMAIN Target
      BY <1>1, <3>1, KnownAllocated, GraphTyped, FieldsTyped
    <3>3. QED
      BY <1>1, <3>1, <3>2, KnownAllocated DEF Contents
  <2>2. QED
    BY <2>1 DEF AddRoot, DropRoot
<1>6. TypeOK' /\ FieldsFit'
  BY <1>1, <1>2, <1>3, <1>4, <1>5, GraphTyped DEF TypeOK, FieldsFit
<1>7. \A x \in Allocated : References(x)' \subseteq Allocated
  <2>1. \A x \in Allocated : References(x) \subseteq Allocated
    BY <1>1 DEF RunOK, Holding
  <2>2. QED
    BY <1>2, <1>5, <2>1 DEF References
<1>8. QED
  BY <1>1, <1>2, <1>3, <1>4, <1>6, <1>7 DEF IInv, RunOK, Holding

-------------------------------------------------------------------------------
(* The collector.                                                          *)

LEMMA MarkRootsIInv ==
  ASSUME IInv, MarkRoots
  PROVE  IInv'
<1>1. TypeOK /\ FieldsFit /\ IsInjective(objects) /\ RunOK /\ phase = "run"
  BY DEF IInv, MarkRoots
<1>2. /\ marked' = RootSet /\ gray' = RootSet /\ phase' = "trace"
      /\ UNCHANGED <<objects, graph, strings, cursor, prev>>
  BY <1>1, MarkedRootsAreRoots DEF MarkRoots, Mark, RunOK, sweep
<1>3. Allocated' = Allocated
  BY <1>2 DEF Allocated
<1>4. TypeOK' /\ FieldsFit'
  BY <1>1, <1>2, <1>3, GraphTyped DEF graph, TypeOK, FieldsFit
<1>5. TraceOK'
  BY <1>1, <1>2, <1>3, SameGraph, ReachableClosed, GraphTyped
  DEF RunOK, TraceOK, Holding
<1>6. QED
  BY <1>1, <1>2, <1>4, <1>5 DEF IInv

LEMMA TraceIInv ==
  ASSUME IInv, Trace
  PROVE  IInv'
<1>1. TypeOK /\ FieldsFit /\ IsInjective(objects) /\ TraceOK /\ phase = "trace"
  BY DEF IInv, Trace
<1>2. PICK o \in gray : /\ gray'   = (gray \ {o}) \cup (Children(o) \ marked)
                       /\ marked' = marked \cup Children(o)
  BY DEF Trace
<1>3. UNCHANGED <<objects, graph, strings, phase, cursor, prev>>
  BY DEF Trace, sweep
<1>4. o \in marked /\ o \in Allocated /\ o \in Obj /\ o \in Reachable
  BY <1>1, GraphTyped DEF TraceOK
<1>5. Children(o) = References(o)
  BY <1>1, <1>4, ChildrenAreReferences
<1>6. References(o) \subseteq Allocated /\ References(o) \subseteq Reachable
  BY <1>1, <1>4, ReachableClosed DEF TraceOK, Holding
<1>7. Allocated' = Allocated
  BY <1>3 DEF Allocated
<1>8. marked' \subseteq Allocated /\ gray' \subseteq marked' /\ Allocated \subseteq Obj
  BY <1>1, <1>2, <1>5, <1>6, GraphTyped DEF TraceOK
<1>9. TypeOK' /\ FieldsFit'
  BY <1>1, <1>3, <1>7, <1>8 DEF graph, TypeOK, FieldsFit
<1>10. TraceOK'
  BY <1>1, <1>2, <1>3, <1>5, <1>6, <1>7, <1>8, SameGraph DEF TraceOK, Holding
<1>11. QED
  BY <1>1, <1>3, <1>9, <1>10 DEF IInv

(* When the worklist is empty, the marked objects are the reachable ones.  *)
LEMMA MarkedIsReachable ==
  ASSUME TypeOK, TraceOK, gray = {}
  PROVE  marked = Reachable
BY ReachableLeast DEF TypeOK, TraceOK

LEMMA PurgeStringsIInv ==
  ASSUME IInv, PurgeStrings
  PROVE  IInv'
<1>1. /\ TypeOK /\ FieldsFit /\ IsInjective(objects) /\ TraceOK
      /\ phase = "trace" /\ gray = {}
  BY DEF IInv, PurgeStrings
<1>2. /\ strings' = strings \cap marked /\ phase' = "sweep" /\ cursor' = 1 /\ prev' = 0
      /\ UNCHANGED <<objects, graph, marked, gray>>
  BY DEF PurgeStrings
<1>3. Allocated' = Allocated
  BY <1>2 DEF Allocated
<1>4. 1 \in 1 .. Len(objects) + 1 /\ 0 \in 0 .. Len(objects) /\ 0 = 1 - 1
  BY <1>1, GraphTyped
<1>5. TypeOK' /\ FieldsFit'
  BY <1>1, <1>2, <1>3, <1>4 DEF graph, TypeOK, FieldsFit
<1>6. Kept' = marked
  BY <1>1, <1>2, <1>3 DEF Kept, TraceOK
<1>7. SweepOK'
  BY <1>1, <1>2, <1>3, <1>4, <1>6, SameGraph DEF SweepOK, TraceOK, Holding
<1>8. QED
  BY <1>1, <1>2, <1>5, <1>7 DEF IInv

LEMMA SweepKeepIInv ==
  ASSUME IInv, SweepKeep
  PROVE  IInv' /\ Kept' = Kept
<1>1. /\ TypeOK /\ FieldsFit /\ IsInjective(objects) /\ SweepOK
      /\ phase = "sweep" /\ cursor \in DOMAIN objects /\ objects[cursor] \in marked
  BY DEF IInv, SweepKeep
<1>2. /\ marked' = marked \ {objects[cursor]} /\ cursor' = cursor + 1 /\ prev' = cursor
      /\ UNCHANGED <<objects, graph, strings, gray, phase>>
  BY DEF SweepKeep
<1>3. Allocated' = Allocated
  BY <1>2 DEF Allocated
<1>4. /\ cursor \in 1 .. Len(objects) /\ Len(objects) \in Nat
      /\ cursor + 1 \in 1 .. Len(objects) + 1
      /\ (cursor + 1) - 1 = cursor /\ cursor \in 0 .. Len(objects)
  BY <1>1, GraphTyped
<1>5. TypeOK' /\ FieldsFit'
  BY <1>1, <1>2, <1>3, <1>4 DEF graph, TypeOK, FieldsFit
<1>6. \A i \in 1 .. cursor : i \in 1 .. cursor - 1 \/ i = cursor
  BY <1>4
<1>7. Kept' = Kept
  <2>1. Kept' = {objects[i] : i \in 1 .. cursor}
                  \cup ((marked \ {objects[cursor]}) \cap Allocated)
    BY <1>2, <1>3, <1>4 DEF Kept
  <2>2. {objects[i] : i \in 1 .. cursor}
          = {objects[i] : i \in 1 .. cursor - 1} \cup {objects[cursor]}
    BY <1>4, <1>6
  <2>3. objects[cursor] \in marked \cap Allocated
    BY <1>1 DEF Allocated, Range
  <2>4. QED
    BY <2>1, <2>2, <2>3 DEF Kept
<1>8. \A i \in 1 .. cursor' - 1 : objects'[i] \notin marked'
  BY <1>1, <1>2, <1>4, <1>6 DEF SweepOK
<1>9. SweepOK'
  BY <1>1, <1>2, <1>3, <1>4, <1>7, <1>8, SameGraph DEF SweepOK, Holding
<1>10. QED
  BY <1>1, <1>2, <1>5, <1>7, <1>9 DEF IInv

(* With prev the object before, both cases of the unlinking remove current.*)
LEMMA UnlinkedIsRemoveAt ==
  ASSUME objects \in Seq(Obj), cursor \in 1 .. Len(objects), prev = cursor - 1
  PROVE  Unlinked = RemoveAt(objects, cursor)
<1>1. PICK rest : rest = SubSeq(objects, cursor + 1, Len(objects))
  OBVIOUS
<1>2. RemoveAt(objects, cursor) = SubSeq(objects, 1, prev) \o rest
  BY <1>1 DEF RemoveAt
<1>3. CASE prev = 0
  <2>1. rest \in Seq(Obj)
    <3>1. PICK n \in Nat : n = Len(objects)
      OBVIOUS
    <3>2. PICK k \in Nat : k = cursor + 1
      OBVIOUS
    <3>3. \A i \in k .. n : objects[i] \in Obj
      BY <3>1, <3>2
    <3>4. SubSeq(objects, k, n) \in Seq(Obj)
      BY <3>3, SubSeqProperties
    <3>5. QED
      BY <1>1, <3>1, <3>2, <3>4
  <2>2. SubSeq(objects, 1, prev) = <<>>
    BY <1>3, SubSeqEmpty
  <2>3. <<>> \o rest = rest
    BY <2>1, ConcatEmptySeq
  <2>4. QED
    BY <1>1, <1>2, <1>3, <2>2, <2>3 DEF Unlinked
<1>4. CASE prev # 0
  BY <1>1, <1>2, <1>4 DEF Unlinked
<1>5. QED
  BY <1>3, <1>4

LEMMA SweepFreeIInv ==
  ASSUME IInv, SweepFree
  PROVE  /\ IInv' /\ Kept' = Kept
         /\ \A o \in Kept : References(o)' = References(o)
<1>1. /\ TypeOK /\ FieldsFit /\ IsInjective(objects) /\ SweepOK
      /\ phase = "sweep" /\ cursor \in DOMAIN objects
      /\ objects[cursor] \notin marked
  BY DEF IInv, SweepFree
<1>2. /\ objects' = RemoveAt(objects, cursor)
      /\ refs' = {r \in refs : r[1] # objects[cursor]}
      /\ UNCHANGED <<kind, roots, strings, marked, gray, phase, cursor, prev>>
  <2>1. prev = cursor - 1 /\ objects \in Seq(Obj) /\ cursor \in 1 .. Len(objects)
    BY <1>1, GraphTyped DEF SweepOK, TypeOK
  <2>2. cursor' = cursor
    BY <2>1 DEF SweepFree
  <2>3. Unlinked = RemoveAt(objects, cursor)
    BY <2>1, UnlinkedIsRemoveAt
  <2>4. QED
    BY <2>2, <2>3 DEF SweepFree
<1> DEFINE dead == objects[cursor]
<1>3. /\ objects' \in Seq(Obj) /\ Len(objects') = Len(objects) - 1
      /\ \A i \in 1 .. cursor - 1 : objects'[i] = objects[i]
      /\ Allocated' = Allocated \ {dead}
      /\ IsInjective(objects')
  <2>1. objects \in Seq(Obj)
    BY <1>1 DEF TypeOK
  <2>2. /\ RemoveAt(objects, cursor) \in Seq(Obj)
        /\ Len(RemoveAt(objects, cursor)) = Len(objects) - 1
        /\ \A i \in 1 .. cursor - 1 : RemoveAt(objects, cursor)[i] = objects[i]
        /\ Range(RemoveAt(objects, cursor)) = Range(objects) \ {objects[cursor]}
        /\ IsInjective(RemoveAt(objects, cursor))
    BY <1>1, <2>1, RemoveAtInjective, Zenon
  <2>3. QED
    BY <1>2, <2>2 DEF Allocated
<1>4. /\ cursor \in 1 .. Len(objects) /\ Len(objects) \in Nat
      /\ cursor \in 1 .. (Len(objects) - 1) + 1
      /\ prev = cursor - 1 /\ prev \in 0 .. Len(objects) - 1
      /\ \A i \in 1 .. cursor - 1 : i \in DOMAIN objects /\ i # cursor
  BY <1>1, GraphTyped DEF SweepOK
<1>5. TypeOK'
  BY <1>1, <1>2, <1>3, <1>4 DEF TypeOK
<1>6. FieldsFit'
  BY <1>1, <1>2, <1>3 DEF FieldsFit
<1>7. Kept' = Kept /\ dead \notin Kept
  <2>1. \A i \in 1 .. cursor - 1 : objects[i] # dead
    BY <1>1, <1>4 DEF IsInjective
  <2>2. {objects'[i] : i \in 1 .. cursor - 1} = {objects[i] : i \in 1 .. cursor - 1}
    BY <1>3
  <2>3. Kept' = {objects'[i] : i \in 1 .. cursor - 1} \cup (marked \cap (Allocated \ {dead}))
    BY <1>2, <1>3 DEF Kept
  <2>4. marked \cap (Allocated \ {dead}) = marked \cap Allocated
    BY <1>1
  <2>5. QED
    BY <1>1, <2>1, <2>2, <2>3, <2>4 DEF Kept
<1>8. \A o \in Kept : References(o)' = References(o)
  BY <1>2, <1>7 DEF References
<1>9. SweepOK'
  <2>1. Holding(Kept)'
    BY <1>1, <1>2, <1>7, <1>8 DEF SweepOK, Holding, RootSet
  <2>2. marked' \subseteq Allocated'
    BY <1>1, <1>2, <1>3 DEF SweepOK
  <2>3. QED
    BY <1>1, <1>2, <1>3, <2>1, <2>2 DEF SweepOK
<1>10. QED
  BY <1>1, <1>2, <1>3, <1>5, <1>6, <1>7, <1>8, <1>9 DEF IInv

(* At the end of the list, what is kept is all there is.                   *)
LEMMA SweepEndIInv ==
  ASSUME IInv, SweepEnd
  PROVE  IInv' /\ Kept = Allocated
<1>1. /\ TypeOK /\ FieldsFit /\ IsInjective(objects) /\ SweepOK
      /\ phase = "sweep" /\ cursor \notin DOMAIN objects
  BY DEF IInv, SweepEnd
<1>2. /\ phase' = "run" /\ cursor' = 1 /\ prev' = 0
      /\ UNCHANGED <<objects, graph, strings, marked, gray>>
  BY DEF SweepEnd
<1>3. cursor - 1 = Len(objects) /\ 1 \in 1 .. Len(objects) + 1 /\ 0 \in 0 .. Len(objects)
  BY <1>1, GraphTyped DEF TypeOK
<1>4. Kept = Allocated /\ marked = {}
  BY <1>1, <1>3, GraphTyped DEF SweepOK, Kept, Allocated, Range
<1>5. Allocated' = Allocated
  BY <1>2 DEF Allocated
<1>6. TypeOK' /\ FieldsFit'
  BY <1>1, <1>2, <1>3, <1>5 DEF graph, TypeOK, FieldsFit
<1>7. RunOK'
  BY <1>1, <1>2, <1>4, <1>5, SameGraph DEF SweepOK, RunOK, Holding
<1>8. QED
  BY <1>1, <1>2, <1>4, <1>6, <1>7 DEF IInv

LEMMA NextIInv == IInv /\ [Next]_vars => IInv'
<1>1. CASE UNCHANGED vars
  <2>1. SUFFICES ASSUME IInv PROVE IInv'
    BY <1>1
  <2>2. Allocated' = Allocated /\ Kept' = Kept
    BY <1>1 DEF vars, sweep, Allocated, Kept
  <2>3. QED
    BY <1>1, <2>1, <2>2, SameGraph
    DEF vars, graph, sweep, IInv, TypeOK, FieldsFit, RunOK, TraceOK, SweepOK, Holding
<1>2. QED
  BY <1>1, AllocateIInv, MutateIInv, MarkRootsIInv, TraceIInv, PurgeStringsIInv,
     SweepKeepIInv, SweepFreeIInv, SweepEndIInv DEF Next, Mutator, Collector

-------------------------------------------------------------------------------
(* The theorems.                                                           *)

LEMMA Invariance == Spec => []IInv
BY InitIInv, NextIInv, PTL DEF Spec

(* The state is always of its type, the cursor of the sweep in the list.   *)
THEOREM Typing == Spec => []TypeOK
<1>1. IInv => TypeOK
  BY DEF IInv
<1>2. QED
  BY Invariance, <1>1, PTL

(* Nothing that the program can reach or look up is ever freed, and no     *)
(* object twice, whatever the program and however many its objects.        *)
THEOREM Safety == Spec => []NoDangling
<1>1. IInv => NoDangling
  <2>1. SUFFICES ASSUME IInv PROVE NoDangling
    OBVIOUS
  <2>2. TypeOK /\ Kept \subseteq Allocated
    <3>1. TypeOK /\ \A i \in 1 .. cursor - 1 : i \in DOMAIN objects
      BY <2>1, GraphTyped DEF IInv, TypeOK
    <3>2. QED
      BY <3>1 DEF Kept, Allocated, Range
  <2>3. Holding(Allocated) \/ Holding(Kept)
    BY <2>1 DEF IInv, TypeOK, RunOK, TraceOK, SweepOK
  <2>4. QED
    BY <2>1, <2>2, <2>3, GraphTyped, ReachableLeast DEF IInv, Holding, NoDangling
<1>2. QED
  BY Invariance, <1>1, PTL

(* A collection begins with every mark clear.                              *)
THEOREM Clearing == Spec => []MarksCleared
<1>1. IInv => MarksCleared
  BY DEF IInv, RunOK, MarksCleared
<1>2. QED
  BY Invariance, <1>1, PTL

-------------------------------------------------------------------------------
(* The refinement: the purge of the table of strings is the moment of the  *)
(* atomic collection, the other steps of the collector are stutters.       *)

LEMMA EdgesByPair ==
  ASSUME NEW e
  PROVE  e \in Edges <=> e \in Live \X Obj /\ e[2] \in References(e[1])
BY DEF Edges

LEMMA AtomicReachable ==
  ASSUME TypeOK, FieldsFit, phase # "sweep"
  PROVE  Atomic!Reachable = Reachable
<1>1. Live = Allocated
  BY DEF Live
<1>2. \A o : o \notin Allocated => References(o) = {}
  BY DEF FieldsFit, References
<1>3. ASSUME NEW C \in SUBSET Obj
      PROVE  (\A e \in Edges : e[1] \in C => e[2] \in C)
               <=> (\A x \in C : References(x) \subseteq C)
  <2>1. ASSUME \A e \in Edges : e[1] \in C => e[2] \in C,
               NEW x \in C, NEW p \in References(x)
        PROVE  p \in C
    <3>1. <<x, p>> \in Edges
      BY <1>1, <1>2, <2>1, GraphTyped, EdgesByPair
    <3>2. QED
      BY <2>1, <3>1
  <2>2. QED
    BY <2>1, EdgesByPair
<1>4. \A C \in SUBSET Obj : Atomic!Closed(C) <=>
        RootSet \subseteq C /\ (\A x \in C : References(x) \subseteq C)
  BY <1>3 DEF Atomic!Closed
<1>5. QED
  BY <1>4 DEF Atomic!Reachable, Reachable

(* When the mutator is done with a step, no reference is without an object.*)
RunFormed == phase = "run" => Atomic!WellFormed

LEMMA WellFormedRun == IInv => RunFormed
<1>0. SUFFICES ASSUME IInv, phase = "run" PROVE Atomic!WellFormed
  BY DEF RunFormed
<1>1. Live = Allocated /\ Holding(Allocated)
  BY <1>0 DEF IInv, RunOK, Live
<1>2. ASSUME NEW e \in Edges PROVE e \in Live \X Live
  BY <1>1, EdgesByPair DEF Holding
<1>3. QED
  BY <1>1, <1>2 DEF Holding, Atomic!WellFormed

(* The live objects and their references depend on no more than this.      *)
LEMMA SameEdges ==
  ASSUME Live' = Live, \A o \in Live : References(o)' = References(o)
  PROVE  Edges' = Edges
BY DEF Edges

LEMMA MutatorStep ==
  ASSUME IInv, IInv', Mutator
  PROVE  Atomic!Next
<1>1. phase = "run" /\ phase' = "run"
  BY DEF Mutator, Allocate, Write, AddRoot, DropRoot
<1>2. Atomic!WellFormed'
  <2>1. RunFormed'
    BY WellFormedRun, PTL
  <2>2. QED
    BY <1>1, <2>1 DEF RunFormed
<1>3. Live = Allocated /\ Live' = Allocated'
  BY <1>1 DEF Live
<1>4. CASE Allocate
  <2>1. TypeOK /\ IsInjective(objects)
    BY DEF IInv
  <2>2. PICK o \in Obj \ Allocated : objects' = <<o>> \o objects
    BY <1>4 DEF Allocate
  <2>3. Allocated' = Allocated \cup {o}
    BY <2>1, <2>2, ConsInjective DEF TypeOK, Allocated
  <2>4. Atomic!Allocate(o)
    BY <1>2, <1>3, <2>2, <2>3 DEF Atomic!Allocate
  <2>5. QED
    BY <2>2, <2>4 DEF Atomic!Next
<1>5. CASE Write \/ AddRoot \/ DropRoot
  <2>1. Allocated' = Allocated
    BY <1>5 DEF Write, AddRoot, DropRoot, Allocated
  <2>2. QED
    BY <1>2, <1>3, <2>1 DEF Atomic!Next, Atomic!Mutate
<1>6. QED
  BY <1>4, <1>5 DEF Mutator

LEMMA PurgeStep ==
  ASSUME IInv, IInv', PurgeStrings
  PROVE  Atomic!Next
<1>1. /\ TypeOK /\ FieldsFit /\ TraceOK /\ gray = {} /\ phase = "trace"
      /\ phase' = "sweep" /\ cursor' = 1 /\ UNCHANGED <<objects, graph, marked>>
  BY DEF IInv, PurgeStrings
<1>2. Live = Allocated /\ Live' = Kept' /\ Kept' = marked \cap Allocated
  BY <1>1 DEF Live, Kept, Allocated
<1>3. marked = Reachable /\ marked \subseteq Allocated
  BY <1>1, MarkedIsReachable DEF TraceOK
<1>4. Live' = Atomic!Reachable
  BY <1>1, <1>2, <1>3, AtomicReachable
<1>5. Atomic!Reachable = Reachable
  BY <1>1, AtomicReachable
<1>6. RootSet' = RootSet /\ \A o : References(o)' = References(o)
  BY <1>1, SameGraph
<1>7. Edges' = Edges \cap (Reachable \X Reachable)
  <2>1. Edges' = {e \in Reachable \X Obj : e[2] \in References(e[1])}
    BY <1>2, <1>3, <1>6 DEF Edges
  <2>2. \A o \in Reachable : References(o) \subseteq Reachable
    BY <1>1, ReachableClosed
  <2>3. ASSUME NEW e
        PROVE  e \in Edges' <=> e \in Edges /\ e \in Reachable \X Reachable
    BY <1>2, <1>3, <2>1, <2>2, GraphTyped, <1>1, EdgesByPair
  <2>4. QED
    BY <2>3
<1>8. QED
  BY <1>4, <1>5, <1>6, <1>7 DEF Atomic!Next, Atomic!Collect

LEMMA StutterStep ==
  ASSUME IInv,
         \/ MarkRoots \/ Trace \/ SweepKeep \/ SweepFree \/ SweepEnd
         \/ UNCHANGED vars
  PROVE  Live' = Live /\ Edges' = Edges /\ RootSet' = RootSet
<1>1. CASE MarkRoots \/ Trace
  <2>1. phase # "sweep" /\ phase' # "sweep" /\ UNCHANGED <<objects, graph>>
    BY <1>1 DEF MarkRoots, Trace
  <2>2. Live' = Live
    BY <2>1 DEF Live, Allocated
  <2>3. QED
    BY <2>1, <2>2, SameGraph, SameEdges
<1>2. CASE SweepKeep \/ SweepFree
  <2>1. phase = "sweep" /\ phase' = "sweep" /\ UNCHANGED roots
    BY <1>2 DEF SweepKeep, SweepFree, graph
  <2>2. Kept' = Kept /\ \A o \in Kept : References(o)' = References(o)
    BY <1>2, SweepKeepIInv, SweepFreeIInv, SameGraph DEF SweepKeep
  <2>3. Live' = Live /\ Live = Kept
    BY <2>1, <2>2 DEF Live
  <2>4. QED
    BY <2>1, <2>2, <2>3, SameEdges DEF RootSet
<1>3. CASE SweepEnd
  <2>1. /\ phase = "sweep" /\ phase' = "run" /\ UNCHANGED <<objects, graph>>
    BY <1>3 DEF SweepEnd
  <2>2. Live' = Live
    BY <1>3, <2>1, SweepEndIInv DEF Live, Allocated
  <2>3. QED
    BY <2>1, <2>2, SameGraph, SameEdges
<1>4. CASE UNCHANGED vars
  <2>1. UNCHANGED <<objects, graph>> /\ Live' = Live
    BY <1>4 DEF vars, sweep, Live, Kept, Allocated
  <2>2. QED
    BY <2>1, SameGraph, SameEdges
<1>5. QED
  BY <1>1, <1>2, <1>3, <1>4

LEMMA InitStep == Init => Atomic!Init
<1>1. SUFFICES ASSUME Init PROVE Atomic!Init
  OBVIOUS
<1>2. Live = {} /\ RootSet = {}
  BY <1>1, EmptySeq DEF Init, Live, Allocated, Range, RootSet
<1>3. QED
  BY <1>2 DEF Edges, Atomic!Init

(* Seen from outside, mark and sweep is one atomic step that frees exactly *)
(* the objects that cannot be reached: no live object, and no garbage is   *)
(* left.                                                                   *)
THEOREM Collecting == Spec => CollectsGarbage
<1>1. Init => Atomic!Init
  BY InitStep
<1>2. IInv /\ IInv' /\ [Next]_vars => [Atomic!Next]_<<Live, Edges, RootSet>>
  BY MutatorStep, PurgeStep, StutterStep DEF Next, Collector
<1>3. QED
  BY <1>1, <1>2, Invariance, PTL DEF Spec, CollectsGarbage, Atomic!Spec
===============================================================================
