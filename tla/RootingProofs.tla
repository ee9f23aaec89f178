----------------------------- MODULE RootingProofs -----------------------------
(***************************************************************************)
(* That operations may come in any order, collections at any allocation,   *)
(* and nothing that is in use is freed.                                    *)
(*                                                                         *)
(* First, what is reachable, as a least set, and lists of steps.  Then     *)
(* annotations: what an operation knows between two of its steps about its *)
(* C variables, the stack and the Compilers, and when a step leads from    *)
(* one to another.  A list of steps is Safe from an annotation if it leads *)
(* to the end of the list without a read of what may have been freed, and  *)
(* each collection on the way finds what is needed rooted.  Each kind of   *)
(* step keeps that, and so does a collection; each operation begins where  *)
(* its list is safe, and where what that takes holds in the state.         *)
(***************************************************************************)
EXTENDS Rooting, FiniteSetTheorems, SequenceTheorems, WellFoundedInduction, TLAPS

-------------------------------------------------------------------------------
(* What is reachable, without recursion: the least set that has the roots R*)
(* and what its members refer to by the references E.                      *)
Place == Objects \cup {Nil}

Under(C, E)  == \A e \in E : e[1] \in C => e[2] \in C
Least(R, E)  == {o \in Place : \A C \in SUBSET Place : R \subseteq C /\ Under(C, E) => o \in C}

(* Enough for R and E to be about places.                                  *)
Placed(R, E) == R \subseteq Place /\ \A e \in E : e[2] \in Place

LEMMA LeastIs ==
  ASSUME NEW R, NEW E, Placed(R, E)
  PROVE  /\ Least(R, E) \in SUBSET Place /\ R \subseteq Least(R, E)
         /\ Under(Least(R, E), E)
BY DEF Least, Under, Placed

LEMMA LeastWithin ==
  ASSUME NEW R, NEW E, NEW C \in SUBSET Place, R \subseteq C, Under(C, E)
  PROVE  Least(R, E) \subseteq C
BY DEF Least

LEMMA LeastGrows ==
  ASSUME NEW R, NEW E, NEW S, NEW F, R \subseteq S, E \subseteq F
  PROVE  Least(R, E) \subseteq Least(S, F)
BY DEF Least, Under

LEMMA FourFinite ==
  ASSUME NEW a, NEW b, NEW c, NEW d
  PROVE  IsFiniteSet({a, b, c, d})
<1>1. IsFiniteSet({a} \cup {b})
  BY FS_Singleton, FS_AddElement
<1>2. IsFiniteSet(({a} \cup {b}) \cup {c})
  BY <1>1, FS_AddElement
<1>3. IsFiniteSet((({a} \cup {b}) \cup {c}) \cup {d})
  BY <1>2, FS_AddElement
<1>4. {a, b, c, d} = (({a} \cup {b}) \cup {c}) \cup {d}
  OBVIOUS
<1>5. QED
  BY <1>3, <1>4

LEMMA PlaceFinite ==
  ASSUME Limits
  PROVE  IsFiniteSet(Place)
<1> DEFINE Of(k)   == {<<k, i>> : i \in 1 .. Room[k]}
           Sets    == {Of(k) : k \in Kinds}
<1>1. \A k \in Kinds : IsFiniteSet(Of(k))
  <2> SUFFICES ASSUME NEW k \in Kinds
               PROVE  IsFiniteSet(Of(k))
    OBVIOUS
  <2>1. Room[k] \in Nat /\ IsFiniteSet(1 .. Room[k])
    BY FS_Interval DEF Limits
  <2> DEFINE f == [i \in 1 .. Room[k] |-> <<k, i>>]
  <2>2. f \in Surjection(1 .. Room[k], Of(k))
    BY DEF Surjection
  <2> HIDE DEF f
  <2>3. QED
    BY <2>1, <2>2, FS_Surjection
<1>2. IsFiniteSet(Sets)
  <2>1. IsFiniteSet(Kinds)
    <3> DEFINE some == {"string", "native", "function", "closure"}
               more == {"upvalue", "class", "instance", "bound"}
    <3>1. IsFiniteSet(some) /\ IsFiniteSet(more)
      BY FourFinite
    <3>3. Kinds = some \cup more
      BY DEF Kinds
    <3> HIDE DEF some, more
    <3>4. QED
      BY <3>1, <3>3, FS_Union
  <2> DEFINE f == [k \in Kinds |-> Of(k)]
  <2>2. f \in Surjection(Kinds, Sets)
    BY DEF Surjection
  <2> HIDE DEF f, Sets
  <2>3. QED
    BY <2>1, <2>2, FS_Surjection
<1>3. IsFiniteSet(UNION Sets)
  <2>1. \A S \in Sets : IsFiniteSet(S)
    BY <1>1
  <2> HIDE DEF Sets
  <2>2. QED
    BY <1>2, <2>1, FS_UNION
<1>4. Objects = UNION Sets
  BY DEF Objects
<1>5. QED
  BY <1>3, <1>4, FS_AddElement DEF Place

(* What the state refers to.                                               *)
Alive == objects \cup {Nil}
Edges == refs \cup {<<u[1], stack[u[2]]>> : u \in open}
Reach == Least(RootSet, Edges)

(* Nothing that the state refers to has been freed.                        *)
WellFormed ==
  /\ objects \subseteq Objects
  /\ refs \subseteq objects \X objects
  /\ top \in 0 .. StackMax
  /\ stack \in [1 .. StackMax -> Place]
  /\ \A i \in 1 .. top : stack[i] \in Alive
  /\ \E S : frames \in Seq(S)
  /\ \A i \in DOMAIN frames : frames[i].closure \in Alive /\ frames[i].slot \in 1 .. StackMax
  /\ compilers \in Seq(Objects)
  /\ \A i \in DOMAIN compilers : compilers[i] \in objects
  /\ globals \subseteq Alive \X Alive
  /\ init \in Alive
  /\ open \subseteq objects \X (1 .. StackMax)
  /\ \A u \in open : stack[u[2]] \in Alive

LEMMA ChildrenAreEdges ==
  \A o, p : p \in Children(o) <=> <<o, p>> \in Edges \/ \E r \in Edges : r[1] = o /\ r[2] = p
BY DEF Children, Edges

LEMMA AliveRoots == WellFormed => RootSet \subseteq Alive
<1> SUFFICES ASSUME WellFormed PROVE RootSet \subseteq Alive
  OBVIOUS
<1> USE DEF WellFormed
<1>1. \A v \in Values : v \in Alive
  BY DEF Values
<1>2. \A f \in Range(frames) : f.closure \in Alive
  BY DEF Range
<1>3. \A c \in Range(compilers) : c \in Alive
  BY DEF Range, Alive
<1>4. \A g \in globals : g[1] \in Alive /\ g[2] \in Alive
  OBVIOUS
<1>5. \A u \in open : u[1] \in Alive
  BY DEF Alive
<1>6. init \in Alive
  OBVIOUS
<1> HIDE DEF WellFormed
<1>7. \A v \in UNION {{g[1], g[2]} : g \in globals} : v \in Alive
  BY <1>4
<1> DEFINE C == {f.closure : f \in Range(frames)}
           G == UNION {{g[1], g[2]} : g \in globals}
           U == {u[1] : u \in open}
<1>8. RootSet = Values \cup C \cup Range(compilers) \cup U \cup {init} \cup G
  BY DEF RootSet
<1>9. (\A v \in C : v \in Alive) /\ (\A v \in G : v \in Alive) /\ (\A v \in U : v \in Alive)
  BY <1>2, <1>5, <1>7
<1> HIDE DEF C, G, U
<1>10. QED
  BY <1>1, <1>3, <1>6, <1>8, <1>9

LEMMA AliveEdges == WellFormed => \A e \in Edges : e[1] \in objects /\ e[2] \in Alive
BY DEF WellFormed, Edges, Alive

LEMMA ReachAlive == WellFormed => Reach \subseteq Alive /\ Placed(RootSet, Edges)
<1> SUFFICES ASSUME WellFormed
             PROVE  Reach \subseteq Alive /\ Placed(RootSet, Edges)
  OBVIOUS
<1>1. Alive \in SUBSET Place
  BY DEF WellFormed, Alive, Place
<1>2. QED
  BY <1>1, AliveRoots, AliveEdges, LeastWithin DEF Reach, Under, Placed

(* The recursion of the model does find that set.                          *)
More(S) == S \cup UNION {Children(o) : o \in S}

LEMMA ChildrenPlaced ==
  ASSUME WellFormed
  PROVE  \A o : Children(o) \subseteq Place
<1> SUFFICES ASSUME NEW o, NEW p \in Children(o)
             PROVE  p \in Place
  OBVIOUS
<1>1. \/ \E r \in refs : r[2] = p
      \/ \E u \in open : stack[u[2]] = p
  BY DEF Children
<1>2. QED
  BY <1>1 DEF WellFormed, Alive, Place

LEMMA UnderChildren ==
  ASSUME NEW C
  PROVE  Under(C, Edges) <=> \A o \in C : Children(o) \subseteq C
<1>1. Under(C, Edges) <=> /\ \A r \in refs : r[1] \in C => r[2] \in C
                          /\ \A u \in open : u[1] \in C => stack[u[2]] \in C
  <2> DEFINE P == {<<u[1], stack[u[2]]>> : u \in open}
  <2>1. (\A e \in P : e[1] \in C => e[2] \in C)
          <=> \A u \in open : u[1] \in C => stack[u[2]] \in C
    <3>1. \A u \in open : <<u[1], stack[u[2]]>> \in P
      OBVIOUS
    <3>2. \A e \in P : \E u \in open : e[1] = u[1] /\ e[2] = stack[u[2]]
      OBVIOUS
    <3> HIDE DEF P
    <3>3. QED
      BY <3>1, <3>2
  <2>2. Edges = refs \cup P
    BY DEF Edges
  <2> HIDE DEF P
  <2>3. QED
    BY <2>1, <2>2 DEF Under
<1>2. (\A o \in C : Children(o) \subseteq C)
        <=> \A o \in C : /\ \A r \in refs : r[1] = o => r[2] \in C
                         /\ \A u \in open : u[1] = o => stack[u[2]] \in C
  BY DEF Children
<1>3. QED
  BY <1>1, <1>2

LEMMA MorePlaced ==
  ASSUME WellFormed, NEW S \in SUBSET Place
  PROVE  More(S) \in SUBSET Place
BY ChildrenPlaced DEF More

LEMMA FollowedIs ==
  ASSUME WellFormed, Limits
  PROVE  \A S \in SUBSET Place : Followed[S] = Least(S, Edges)
<1> DEFINE F(f) == [S \in SUBSET Place |-> IF More(S) = S THEN S ELSE f[More(S)]]
           g    == [S \in SUBSET Place |-> Least(S, Edges)]
           Wrong == {S \in SUBSET Place : Followed[S] # g[S]}
<1>1. ASSUME NEW S \in SUBSET Place
      PROVE  Least(S, Edges) = IF More(S) = S THEN S ELSE Least(More(S), Edges)
  <2>1. \A o, p : p \in Children(o) => <<o, p>> \in Edges \/ \E r \in Edges : r[1] = o /\ r[2] = p
    BY ChildrenAreEdges
  <2>2. CASE More(S) = S
    <3>1. Under(S, Edges)
      BY <2>2, UnderChildren DEF More
    <3>2. QED
      BY <2>2, <3>1 DEF Least
  <2>3. ASSUME NEW C \in SUBSET Place, Under(C, Edges)
        PROVE  S \subseteq C <=> More(S) \subseteq C
    BY <2>3, UnderChildren DEF More
  <2>4. Least(S, Edges) = Least(More(S), Edges)
    BY <2>3 DEF Least
  <2>5. QED
    BY <2>2, <2>4
<1>2. g = F(g)
  BY <1>1, MorePlaced
<1>3. Followed = F(Followed)
  <2>1. Followed = CHOOSE f : f = F(f)
    BY DEF Followed, More, Place
  <2> HIDE DEF F, g
  <2>2. QED
    BY <1>2, <2>1
<1>4. ASSUME Wrong # {}
      PROVE  FALSE
  <2> DEFINE Lacks == {Place \ S : S \in Wrong}
  <2>1. IsWellFoundedOn(StrictSubsetOrdering(Place), SUBSET Place)
    BY PlaceFinite, FS_StrictSubsetOrderingWellFounded, FS_FiniteSubsetsOfFinite
  <2>2. Lacks \subseteq SUBSET Place /\ Lacks # {}
    BY <1>4
  <2>3. PICK x \in Lacks : \A y \in Lacks : ~ (<<y, x>> \in StrictSubsetOrdering(Place))
    <3> HIDE DEF Lacks
    <3>1. QED
      BY <2>1, <2>2, WFMin
  <2>4. PICK S \in Wrong : x = Place \ S
    BY <2>3
  <2>5. S \in SUBSET Place /\ More(S) \in SUBSET Place /\ S \subseteq More(S)
    BY MorePlaced DEF More
  <2>6. CASE More(S) = S
    <3>1. Followed[S] = S
      BY <1>3, <2>5, <2>6
    <3>2. g[S] = S
      BY <1>1, <2>5, <2>6
    <3>3. QED
      BY <3>1, <3>2, <2>4
  <2>7. CASE More(S) # S
    <3>1. Followed[S] = Followed[More(S)]
      BY <1>3, <2>5, <2>7
    <3>2. g[S] = g[More(S)]
      BY <1>1, <2>5, <2>7
    <3>3. More(S) \in Wrong
      BY <3>1, <3>2, <2>4, <2>5
    <3>4. Place \ More(S) \in Lacks
      BY <3>3
    <3>5. <<Place \ More(S), x>> \in StrictSubsetOrdering(Place)
      BY <2>4, <2>5, <2>7 DEF StrictSubsetOrdering
    <3>6. QED
      BY <2>3, <3>4, <3>5
  <2>8. QED
    BY <2>6, <2>7
<1>5. QED
  BY <1>4

LEMMA ReachableIs == WellFormed /\ Limits => Reachable = Reach \ {Nil}
<1> SUFFICES ASSUME WellFormed, Limits
             PROVE  Reachable = Reach \ {Nil}
  OBVIOUS
<1>1. RootSet \in SUBSET Place
  BY ReachAlive DEF Placed
<1>2. QED
  BY <1>1, FollowedIs DEF Reachable, Reach

-------------------------------------------------------------------------------
(* Lists of steps, one step at a time.                                     *)
IsList(t) == \E S : t \in Seq(S)

LEMMA JoinedLists ==
  ASSUME NEW s, NEW t, IsList(s), IsList(t)
  PROVE  /\ IsList(s \o t) /\ Len(s) \in Nat /\ Len(t) \in Nat
         /\ Len(s \o t) = Len(s) + Len(t)
         /\ \A i \in 1 .. Len(s) : (s \o t)[i] = s[i]
         /\ SubSeq(s \o t, Len(s) + 1, Len(s \o t)) = t
<1>1. PICK S : s \in Seq(S) /\ t \in Seq(S)
  <2>1. PICK A : s \in Seq(A)
    BY DEF IsList
  <2>2. PICK B : t \in Seq(B)
    BY DEF IsList
  <2>3. s \in Seq(A \cup B) /\ t \in Seq(A \cup B)
    BY <2>1, <2>2, SeqMonotonic
  <2>4. QED
    BY <2>3
<1>2. /\ s \o t \in Seq(S) /\ Len(s \o t) = Len(s) + Len(t)
      /\ \A i \in 1 .. Len(s) + Len(t) :
           (s \o t)[i] = IF i <= Len(s) THEN s[i] ELSE t[i - Len(s)]
      /\ Len(s) \in Nat /\ Len(t) \in Nat
  BY <1>1, ConcatProperties, LenProperties
<1> DEFINE u == SubSeq(s \o t, Len(s) + 1, Len(s) + Len(t))
<1>3. /\ u \in Seq(S) /\ Len(u) = Len(t)
      /\ \A i \in 1 .. Len(t) : u[i] = (s \o t)[Len(s) + i]
  <2>1. \A i \in Len(s) + 1 .. Len(s) + Len(t) : (s \o t)[i] \in S
    BY <1>2, ElementOfSeq
  <2>2. /\ u \in Seq(S)
        /\ Len(u) = IF Len(s) + 1 <= Len(s) + Len(t) THEN (Len(s) + Len(t)) - (Len(s) + 1) + 1 ELSE 0
        /\ \A i \in 1 .. (Len(s) + Len(t)) - (Len(s) + 1) + 1 :
             u[i] = (s \o t)[(Len(s) + 1) + i - 1]
    BY <1>2, <2>1, SubSeqProperties
  <2>3. /\ (Len(s) + Len(t)) - (Len(s) + 1) + 1 = Len(t)
        /\ (Len(s) + 1 <= Len(s) + Len(t)) = (Len(t) > 0)
        /\ \A i \in 1 .. Len(t) : (Len(s) + 1) + i - 1 = Len(s) + i
    BY <1>2
  <2> HIDE DEF u
  <2>4. Len(u) = Len(t)
    BY <1>2, <2>2, <2>3
  <2>5. \A i \in 1 .. Len(t) : u[i] = (s \o t)[Len(s) + i]
    BY <2>2, <2>3
  <2>6. QED
    BY <2>2, <2>4, <2>5
<1>4. u = t
  <2>1. \A i \in 1 .. Len(t) : u[i] = t[i]
    <3> HIDE DEF u
    <3>1. SUFFICES ASSUME NEW i \in 1 .. Len(t) PROVE u[i] = t[i]
      OBVIOUS
    <3>2. u[i] = (s \o t)[Len(s) + i] /\ Len(s) + i \in 1 .. Len(s) + Len(t)
      BY <1>2, <1>3
    <3>3. ~ (Len(s) + i <= Len(s)) /\ Len(s) + i - Len(s) = i
      BY <1>2
    <3>4. QED
      BY <1>2, <3>2, <3>3
  <2> HIDE DEF u
  <2>2. QED
    BY <1>1, <1>3, <2>1, SeqEqual
<1>5. QED
  BY <1>2, <1>4 DEF IsList

LEMMA JoinAssociates ==
  ASSUME NEW s, NEW t, NEW u, IsList(s), IsList(t), IsList(u)
  PROVE  (s \o t) \o u = s \o (t \o u)
<1>1. PICK A : s \in Seq(A)
  BY DEF IsList
<1>2. PICK B : t \in Seq(B)
  BY DEF IsList
<1>3. PICK C : u \in Seq(C)
  BY DEF IsList
<1> DEFINE S == A \cup B \cup C
<1>4. s \in Seq(S) /\ t \in Seq(S) /\ u \in Seq(S)
  BY <1>1, <1>2, <1>3, SeqMonotonic
<1> HIDE DEF S
<1>5. QED
  BY <1>4, ConcatAssociative

LEMMA One == \A a : IsList(<<a>>) /\ Len(<<a>>) = 1 /\ <<a>>[1] = a
<1> SUFFICES ASSUME NEW a
             PROVE  IsList(<<a>>) /\ Len(<<a>>) = 1 /\ <<a>>[1] = a
  OBVIOUS
<1>1. <<a>> \in Seq({a})
  OBVIOUS
<1>2. QED
  BY <1>1 DEF IsList

LEMMA NoSteps == IsList(<<>>) /\ Len(<<>>) = 0
BY EmptySeq DEF IsList

LEMMA Peel ==
  ASSUME NEW a, NEW r, IsList(r)
  PROVE  /\ IsList(Cons(a, r)) /\ Head(Cons(a, r)) = a /\ Cons(a, r) # <<>>
         /\ SubSeq(Cons(a, r), 2, Len(Cons(a, r))) = r
         /\ Len(r) \in Nat /\ Len(Cons(a, r)) = Len(r) + 1
<1> DEFINE t == Cons(a, r)
<1>1. /\ IsList(t) /\ Len(t) = Len(r) + 1 /\ Len(r) \in Nat /\ t[1] = a
      /\ SubSeq(t, 2, Len(t)) = r
  <2>1. /\ IsList(<<a>> \o r) /\ Len(<<a>> \o r) = Len(r) + 1 /\ Len(r) \in Nat
        /\ (<<a>> \o r)[1] = a
        /\ SubSeq(<<a>> \o r, 2, Len(<<a>> \o r)) = r
    BY One, JoinedLists
  <2>2. QED
    BY <2>1, Zenon DEF Cons
<1> HIDE DEF t
<1>2. t # <<>> /\ Head(t) = t[1]
  <2>1. PICK S : t \in Seq(S)
    BY <1>1 DEF IsList
  <2>2. QED
    BY <1>1, <2>1, NoSteps
<1>3. QED
  BY <1>1, <1>2 DEF t

(* A list is its first step and the others.                                *)
LEMMA Split2 ==
  ASSUME NEW a, NEW b
  PROVE  <<a, b>> = <<a>> \o <<b>>
<1> DEFINE s == <<a>>
           t == <<b>>
           u == <<a, b>>
           S == {a, b}
<1>1. /\ s \in Seq(S) /\ t \in Seq(S) /\ u \in Seq(S)
      /\ Len(s) = 1 /\ Len(t) = 1 /\ Len(u) = 2
      /\ s[1] = a /\ t[1] = b /\ u[1] = a /\ u[2] = b
  OBVIOUS
<1> HIDE DEF s, t, u, S
<1>2. /\ s \o t \in Seq(S) /\ Len(s \o t) = 2
      /\ (s \o t)[1] = s[1] /\ (s \o t)[2] = t[1]
  BY <1>1, ConcatProperties
<1>3. u = s \o t
  BY <1>1, <1>2, SeqEqual
<1>4. QED
  BY <1>3 DEF s, t, u
LEMMA Split3 == \A a, b, c : <<a, b, c>> = <<a>> \o <<b, c>>
OBVIOUS
LEMMA Split4 == \A a, b, c, d : <<a, b, c, d>> = <<a>> \o <<b, c, d>>
OBVIOUS
LEMMA Split5 == \A a, b, c, d, e : <<a, b, c, d, e>> = <<a>> \o <<b, c, d, e>>
OBVIOUS
LEMMA Split6 == \A a, b, c, d, e, f : <<a, b, c, d, e, f>> = <<a>> \o <<b, c, d, e, f>>
OBVIOUS
LEMMA Split7 == \A a, b, c, d, e, f, g : <<a, b, c, d, e, f, g>> = <<a>> \o <<b, c, d, e, f, g>>
OBVIOUS

LEMMA Lists ==
  /\ \A a, b : IsList(<<a, b>>)
  /\ \A a, b, c : IsList(<<a, b, c>>)
  /\ \A a, b, c, d : IsList(<<a, b, c, d>>)
  /\ \A a, b, c, d, e : IsList(<<a, b, c, d, e>>)
  /\ \A a, b, c, d, e, f : IsList(<<a, b, c, d, e, f>>)
  /\ \A a, b, c, d, e, f, g : IsList(<<a, b, c, d, e, f, g>>)
<1>1. \A a, b : IsList(<<a, b>>)
  <2>1. SUFFICES ASSUME NEW a, NEW b
                 PROVE  IsList(<<a, b>>)
    OBVIOUS
  <2>2. <<a, b>> \in Seq({a, b})
    OBVIOUS
  <2>3. QED
    BY <2>2, Zenon DEF IsList
<1>2. \A a, b, c : IsList(<<a, b, c>>)
  <2>1. SUFFICES ASSUME NEW a, NEW b, NEW c
                 PROVE  IsList(<<a, b, c>>)
    OBVIOUS
  <2>2. <<a, b, c>> \in Seq({a, b, c})
    OBVIOUS
  <2>3. QED
    BY <2>2, Zenon DEF IsList
<1>3. \A a, b, c, d : IsList(<<a, b, c, d>>)
  <2>1. SUFFICES ASSUME NEW a, NEW b, NEW c, NEW d
                 PROVE  IsList(<<a, b, c, d>>)
    OBVIOUS
  <2>2. <<a, b, c, d>> \in Seq({a, b, c, d})
    OBVIOUS
  <2>3. QED
    BY <2>2, Zenon DEF IsList
<1>4. \A a, b, c, d, e : IsList(<<a, b, c, d, e>>)
  <2>1. SUFFICES ASSUME NEW a, NEW b, NEW c, NEW d, NEW e
                 PROVE  IsList(<<a, b, c, d, e>>)
    OBVIOUS
  <2>2. <<a, b, c, d, e>> \in Seq({a, b, c, d, e})
    OBVIOUS
  <2>3. QED
    BY <2>2, Zenon DEF IsList
<1>5. \A a, b, c, d, e, f : IsList(<<a, b, c, d, e, f>>)
  <2>1. SUFFICES ASSUME NEW a, NEW b, NEW c, NEW d, NEW e, NEW f
                 PROVE  IsList(<<a, b, c, d, e, f>>)
    OBVIOUS
  <2>2. <<a, b, c, d, e, f>> \in Seq({a, b, c, d, e, f})
    OBVIOUS
  <2>3. QED
    BY <2>2, Zenon DEF IsList
<1>6. \A a, b, c, d, e, f, g : IsList(<<a, b, c, d, e, f, g>>)
  <2>1. SUFFICES ASSUME NEW a, NEW b, NEW c, NEW d, NEW e, NEW f, NEW g
                 PROVE  IsList(<<a, b, c, d, e, f, g>>)
    OBVIOUS
  <2>2. <<a, b, c, d, e, f, g>> \in Seq({a, b, c, d, e, f, g})
    OBVIOUS
  <2>3. QED
    BY <2>2, Zenon DEF IsList
<1>7. QED
  BY <1>1, <1>2, <1>3, <1>4, <1>5, <1>6

LEMMA Peel2 ==
  ASSUME NEW a, NEW b, NEW r, IsList(r)
  PROVE  <<a, b>> \o r = Cons(a, Cons(b, r))
<1> DEFINE p == <<a>>
           q == <<b>>
<1>1. <<a, b>> = p \o q
  BY Split2, Zenon
<1>2. IsList(p) /\ IsList(q)
  BY One, Lists, Zenon
<1>3. (p \o q) \o r = p \o (q \o r)
  <2> HIDE DEF p, q
  <2>1. QED
    BY <1>2, JoinAssociates
<1>4. q \o r = Cons(b, r)
  BY Zenon DEF Cons
<1>5. QED
  BY <1>1, <1>3, <1>4, Zenon DEF Cons

LEMMA Peel3 ==
  ASSUME NEW a, NEW b, NEW c, NEW r, IsList(r)
  PROVE  <<a, b, c>> \o r = Cons(a, Cons(b, Cons(c, r)))
<1> DEFINE p == <<a>>
           q == <<b, c>>
<1>1. <<a, b, c>> = p \o q
  BY Split3, Zenon
<1>2. IsList(p) /\ IsList(q)
  BY One, Lists, Zenon
<1>3. (p \o q) \o r = p \o (q \o r)
  <2> HIDE DEF p, q
  <2>1. QED
    BY <1>2, JoinAssociates
<1>4. q \o r = Cons(b, Cons(c, r))
  BY Peel2
<1>5. QED
  BY <1>1, <1>3, <1>4, Zenon DEF Cons

LEMMA Peel4 ==
  ASSUME NEW a, NEW b, NEW c, NEW d, NEW r, IsList(r)
  PROVE  <<a, b, c, d>> \o r = Cons(a, Cons(b, Cons(c, Cons(d, r))))
<1> DEFINE p == <<a>>
           q == <<b, c, d>>
<1>1. <<a, b, c, d>> = p \o q
  BY Split4, Zenon
<1>2. IsList(p) /\ IsList(q)
  BY One, Lists, Zenon
<1>3. (p \o q) \o r = p \o (q \o r)
  <2> HIDE DEF p, q
  <2>1. QED
    BY <1>2, JoinAssociates
<1>4. q \o r = Cons(b, Cons(c, Cons(d, r)))
  BY Peel3
<1>5. QED
  BY <1>1, <1>3, <1>4, Zenon DEF Cons

LEMMA Peel5 ==
  ASSUME NEW a, NEW b, NEW c, NEW d, NEW e, NEW r, IsList(r)
  PROVE  <<a, b, c, d, e>> \o r = Cons(a, Cons(b, Cons(c, Cons(d, Cons(e, r)))))
<1> DEFINE p == <<a>>
           q == <<b, c, d, e>>
<1>1. <<a, b, c, d, e>> = p \o q
  BY Split5, Zenon
<1>2. IsList(p) /\ IsList(q)
  BY One, Lists, Zenon
<1>3. (p \o q) \o r = p \o (q \o r)
  <2> HIDE DEF p, q
  <2>1. QED
    BY <1>2, JoinAssociates
<1>4. q \o r = Cons(b, Cons(c, Cons(d, Cons(e, r))))
  BY Peel4
<1>5. QED
  BY <1>1, <1>3, <1>4, Zenon DEF Cons

LEMMA Peel6 ==
  ASSUME NEW a, NEW b, NEW c, NEW d, NEW e, NEW f, NEW r, IsList(r)
  PROVE  <<a, b, c, d, e, f>> \o r = Cons(a, Cons(b, Cons(c, Cons(d, Cons(e, Cons(f, r))))))
<1> DEFINE p == <<a>>
           q == <<b, c, d, e, f>>
<1>1. <<a, b, c, d, e, f>> = p \o q
  BY Split6, Zenon
<1>2. IsList(p) /\ IsList(q)
  BY One, Lists, Zenon
<1>3. (p \o q) \o r = p \o (q \o r)
  <2> HIDE DEF p, q
  <2>1. QED
    BY <1>2, JoinAssociates
<1>4. q \o r = Cons(b, Cons(c, Cons(d, Cons(e, Cons(f, r)))))
  BY Peel5
<1>5. QED
  BY <1>1, <1>3, <1>4, Zenon DEF Cons

LEMMA Peel7 ==
  ASSUME NEW a, NEW b, NEW c, NEW d, NEW e, NEW f, NEW g, NEW r, IsList(r)
  PROVE  <<a, b, c, d, e, f, g>> \o r = Cons(a, Cons(b, Cons(c, Cons(d, Cons(e, Cons(f, Cons(g, r)))))))
<1> DEFINE p == <<a>>
           q == <<b, c, d, e, f, g>>
<1>1. <<a, b, c, d, e, f, g>> = p \o q
  BY Split7, Zenon
<1>2. IsList(p) /\ IsList(q)
  BY One, Lists, Zenon
<1>3. (p \o q) \o r = p \o (q \o r)
  <2> HIDE DEF p, q
  <2>1. QED
    BY <1>2, JoinAssociates
<1>4. q \o r = Cons(b, Cons(c, Cons(d, Cons(e, Cons(f, Cons(g, r))))))
  BY Peel6
<1>5. QED
  BY <1>1, <1>3, <1>4, Zenon DEF Cons

(* The end of a list.                                                      *)
LEMMA Ending == \A s : IsList(s) => s \o <<>> = s
BY ConcatEmptySeq DEF IsList

-------------------------------------------------------------------------------
(* What an operation can count on between two of its steps: a record of    *)
(*   top     the height of the stack                                       *)
(*   undef   C variables that have no value yet                            *)
(*   live    those whose object has not been freed                         *)
(*   obj     those that hold an object                                     *)
(*   reach   those whose object the program can reach                      *)
(*   on      <<v, i>>: v is in slot i of the stack                         *)
(*   comp    <<v, n>>: v is the function of the n-th Compiler              *)
(*   const   those that are constants of the function of a Compiler        *)
Fixed(p) == p = Nil \/ \E n \in DOMAIN compilers : <<compilers[n], p>> \in refs

Holds(A) ==
  /\ top = A.top
  /\ \A v \in A.undef : v \notin DOMAIN var
  /\ \A v \in A.live  : v \in DOMAIN var /\ var[v] \in Alive
  /\ \A v \in A.obj   : v \in DOMAIN var /\ var[v] # Nil
  /\ \A v \in A.reach : v \in DOMAIN var /\ var[v] \in Reach \cup {Nil}
  /\ \A x \in A.on    : x[1] \in DOMAIN var /\ x[2] \in 1 .. top /\ stack[x[2]] = var[x[1]]
  /\ \A x \in A.comp  : x[1] \in DOMAIN var /\ x[2] \in DOMAIN compilers
                        /\ compilers[x[2]] = var[x[1]]
  /\ \A v \in A.const : v \in DOMAIN var /\ Fixed(var[v])

NamesIn(S) == {x[1] : x \in S}

(* What a collection may not take is kept by something else.               *)
Rooted(A) == A.live \subseteq A.reach \cup NamesIn(A.on) \cup NamesIn(A.comp) \cup A.const

(* From A to B: nothing that was not known, ...                            *)
Keeps(A, B) == B.undef \subseteq A.undef /\ B.live \subseteq A.live /\ B.obj \subseteq A.obj

Same(A, B) == /\ Keeps(A, B) /\ B.top = A.top /\ B.on \subseteq A.on
              /\ B.comp \subseteq A.comp /\ B.const \subseteq A.const

(* ... or a variable gets its value, that of an object.                    *)
Defines(A, v, B) ==
  /\ v \in A.undef
  /\ B.top = A.top /\ B.undef \subseteq A.undef \ {v} /\ B.live \subseteq A.live \cup {v}
  /\ B.obj \subseteq A.obj \cup {v} /\ B.reach \subseteq A.reach
  /\ B.on \subseteq A.on /\ B.comp \subseteq A.comp /\ B.const \subseteq A.const

(* Step s goes from A to B.                                                *)
After(A, s, B) ==
  \/ s.do = "use"  /\ s.reads \subseteq A.live /\ Same(A, B) /\ B.reach \subseteq A.reach
  \/ s.do = "find" /\ Same(A, B) /\ B.reach \subseteq A.reach
  \/ s.do = "grow" /\ Rooted(A) /\ Same(A, B) /\ B.reach \subseteq A.reach
  \/ s.do = "new"  /\ Rooted(A) /\ s.reads \subseteq A.live \cap A.obj /\ s.args[2] \in Kinds
                   /\ Defines(A, s.args[1], B)
  \/ s.do = "take" /\ Defines(A, s.args[1], B)
  \/ s.do = "push" /\ s.args[1] \in A.live /\ A.top < StackMax
                   /\ Keeps(A, B) /\ B.top = A.top + 1 /\ B.reach = {}
                   /\ B.on \subseteq A.on \cup {<<s.args[1], A.top + 1>>}
                   /\ B.comp \subseteq A.comp /\ B.const \subseteq A.const
  \/ s.do = "pop"  /\ A.top > 0 /\ Keeps(A, B) /\ B.top = A.top - 1 /\ B.reach = {}
                   /\ B.on \subseteq {x \in A.on : x[2] < A.top}
                   /\ B.comp \subseteq A.comp /\ B.const \subseteq A.const
  \/ s.do = "put"  /\ s.args[1] \in A.live /\ A.top > 0 /\ Same(A, B) /\ B.reach = {} /\ B.on = {}
  \/ s.do = "link" /\ s.args[1] \in A.live \cap A.obj /\ s.args[2] \in A.live
                   /\ Keeps(A, B) /\ B.top = A.top /\ B.reach \subseteq A.reach
                   /\ B.on \subseteq A.on /\ B.comp \subseteq A.comp
                   /\ B.const \subseteq A.const \cup
                        (IF s.args[1] \in NamesIn(A.comp) THEN {s.args[2]} ELSE {})
  \/ s.do = "capture" /\ s.args[1] \in A.live \cap A.obj /\ s.args[2] \in A.live \cap A.obj
                      /\ Same(A, B) /\ B.reach = {} /\ B.const = {}
  \/ s.do = "global" /\ s.args[1] \in A.live /\ s.args[2] \in A.live /\ Same(A, B) /\ B.reach = {}
  \/ s.do = "init" /\ s.args[1] \in A.live /\ Same(A, B) /\ B.reach = {}
  \/ s.do = "open" /\ s.args[1] \in A.live \cap A.obj /\ s.args[2] \in 1 .. A.top
                   /\ Same(A, B) /\ B.reach = {}
  \/ s.do = "call" /\ s.args[1] \in A.live /\ s.args[2] \in 1 .. StackMax
                   /\ Same(A, B) /\ B.reach = {}
  \/ s.do = "enter" /\ s.args[1] \in A.live \cap A.obj
                    /\ Same(A, B) /\ B.reach = {} /\ B.comp = {}
  \/ s.do = "leave" /\ (\E v : <<v, 1>> \in A.comp)
                    /\ Keeps(A, B) /\ B.top = A.top /\ B.reach = {} /\ B.on \subseteq A.on
                    /\ B.comp \subseteq {<<x[1], x[2] - 1>> : x \in {y \in A.comp : y[2] > 1}}
                    /\ B.const = {}

(* Found, or found again: the six steps of the allocation are skipped.     *)
Rest(t, n) == SubSeq(t, n + 1, Len(t))

Goes(t, A, G) ==
  /\ Head(t).do # "again" => \E B : After(A, Head(t), B) /\ <<Rest(t, 1), B>> \in G
  /\ Head(t).do \in {"find", "again"} =>
       \E B : Defines(A, Head(t).args[1], B) /\ <<Rest(t, 6), B>> \in G
  /\ Head(t).do = "again" => Head(t).args[2] \in A.live \cap A.obj

(* From A on, the steps t are safe: there is a set of such pairs in which  *)
(* each leads to another.                                                  *)
Chained(G) ==
  \A e \in G :
    /\ IsList(e[1])
    /\ \A i \in 1 .. Len(e[1]) : e[1][i].reads \subseteq e[2].live \cup e[2].undef
    /\ e[1] # <<>> => Goes(e[1], e[2], G)

Safe(t, A) == \E G : <<t, A>> \in G /\ Chained(G)

Reads(t, A) == \A i \in 1 .. Len(t) : t[i].reads \subseteq A.live \cup A.undef

LEMMA SafeIs ==
  ASSUME NEW t, NEW A, Safe(t, A)
  PROVE  /\ IsList(t) /\ Reads(t, A)
         /\ t # <<>> =>
              /\ Head(t).do # "again" => \E B : After(A, Head(t), B) /\ Safe(Rest(t, 1), B)
              /\ Head(t).do \in {"find", "again"} =>
                   \E B : Defines(A, Head(t).args[1], B) /\ Safe(Rest(t, 6), B)
              /\ Head(t).do = "again" => Head(t).args[2] \in A.live \cap A.obj
<1>1. PICK G : <<t, A>> \in G /\ Chained(G)
  BY DEF Safe
<1>2. IsList(t) /\ Reads(t, A) /\ (t # <<>> => Goes(t, A, G))
  BY <1>1 DEF Chained, Reads
<1>3. \A u, B : <<u, B>> \in G => Safe(u, B)
  BY <1>1 DEF Safe
<1>4. ASSUME t # <<>>
      PROVE  /\ Head(t).do # "again" => \E B : After(A, Head(t), B) /\ Safe(Rest(t, 1), B)
             /\ Head(t).do \in {"find", "again"} =>
                  \E B : Defines(A, Head(t).args[1], B) /\ Safe(Rest(t, 6), B)
             /\ Head(t).do = "again" => Head(t).args[2] \in A.live \cap A.obj
  <2>1. Goes(t, A, G)
    BY <1>2, <1>4
  <2>2. ASSUME Head(t).do # "again"
        PROVE  \E B : After(A, Head(t), B) /\ Safe(Rest(t, 1), B)
    <3>1. PICK B : After(A, Head(t), B) /\ <<Rest(t, 1), B>> \in G
      BY <2>1, <2>2 DEF Goes
    <3>2. QED
      BY <1>3, <3>1
  <2>3. ASSUME Head(t).do \in {"find", "again"}
        PROVE  \E B : Defines(A, Head(t).args[1], B) /\ Safe(Rest(t, 6), B)
    <3>1. PICK B : Defines(A, Head(t).args[1], B) /\ <<Rest(t, 6), B>> \in G
      BY <2>1, <2>3 DEF Goes
    <3>2. QED
      BY <1>3, <3>1
  <2>4. QED
    BY <2>1, <2>2, <2>3 DEF Goes
<1>5. QED
  BY <1>2, <1>4

LEMMA SafeEnd == \A A : Safe(<<>>, A)
<1> SUFFICES ASSUME NEW A PROVE Safe(<<>>, A)
  OBVIOUS
<1>1. Chained({<<<<>>, A>>})
  BY NoSteps DEF Chained
<1>2. QED
  BY <1>1 DEF Safe

LEMMA GoesMore ==
  ASSUME NEW t, NEW A, NEW F, NEW H, Goes(t, A, F), F \subseteq H
  PROVE  Goes(t, A, H)
<1>1. ASSUME Head(t).do # "again"
      PROVE  \E B : After(A, Head(t), B) /\ <<Rest(t, 1), B>> \in H
  <2>1. PICK B : After(A, Head(t), B) /\ <<Rest(t, 1), B>> \in F
    BY <1>1 DEF Goes
  <2>2. QED
    BY <2>1
<1>2. ASSUME Head(t).do \in {"find", "again"}
      PROVE  \E B : Defines(A, Head(t).args[1], B) /\ <<Rest(t, 6), B>> \in H
  <2>1. PICK B : Defines(A, Head(t).args[1], B) /\ <<Rest(t, 6), B>> \in F
    BY <1>2 DEF Goes
  <2>2. QED
    BY <2>1
<1>3. Head(t).do = "again" => Head(t).args[2] \in A.live \cap A.obj
  BY DEF Goes
<1>4. QED
  BY <1>1, <1>2, <1>3 DEF Goes

(* A set of chained pairs may be put to another.                           *)
LEMMA ChainedTogether ==
  ASSUME NEW G, NEW H, Chained(G), Chained(H)
  PROVE  Chained(G \cup H)
<1>1. \A t, A, F : Goes(t, A, F) /\ F \subseteq G \cup H => Goes(t, A, G \cup H)
  BY GoesMore
<1>2. QED
  BY <1>1 DEF Chained

LEMMA ChainedMore ==
  ASSUME NEW G, Chained(G), NEW t, NEW A, IsList(t), Reads(t, A), t # <<>>, Goes(t, A, G)
  PROVE  Safe(t, A)
<1> DEFINE H == G \cup {<<t, A>>}
<1>1. \A u, B : Goes(u, B, G) => Goes(u, B, H)
  BY GoesMore
<1>2. ASSUME NEW e \in H
      PROVE  /\ IsList(e[1])
             /\ \A i \in 1 .. Len(e[1]) : e[1][i].reads \subseteq e[2].live \cup e[2].undef
             /\ e[1] # <<>> => Goes(e[1], e[2], H)
  <2>1. CASE e \in G
    <3>1. /\ IsList(e[1])
          /\ \A i \in 1 .. Len(e[1]) : e[1][i].reads \subseteq e[2].live \cup e[2].undef
          /\ e[1] # <<>> => Goes(e[1], e[2], G)
      BY <2>1 DEF Chained
    <3>2. QED
      BY <3>1, <1>1
  <2>2. CASE e = <<t, A>>
    <3>1. e[1] = t /\ e[2] = A
      BY <2>2
    <3>2. QED
      BY <3>1, <1>1 DEF Reads
  <2>3. QED
    BY <2>1, <2>2
<1>3. Chained(H)
  BY <1>2 DEF Chained
<1>4. QED
  BY <1>3 DEF Safe

LEMMA ReadsMore ==
  ASSUME NEW s, NEW r, NEW A, NEW B, IsList(r), Reads(r, B),
         s.reads \subseteq A.live \cup A.undef,
         B.live \cup B.undef \subseteq A.live \cup A.undef
  PROVE  Reads(Cons(s, r), A)
<1> DEFINE t == Cons(s, r)
<1> SUFFICES ASSUME NEW i \in 1 .. Len(t)
             PROVE  t[i].reads \subseteq A.live \cup A.undef
  BY DEF Reads
<1>1. /\ IsList(t) /\ Head(t) = s /\ t # <<>> /\ SubSeq(t, 2, Len(t)) = r
      /\ Len(r) \in Nat /\ Len(t) = Len(r) + 1
  BY Peel
<1>2. PICK S : t \in Seq(S)
  BY <1>1 DEF IsList
<1> HIDE DEF t
<1>3. CASE i = 1
  BY <1>1, <1>2, <1>3
<1>4. CASE i # 1
  <2>1. i - 1 \in 1 .. Len(r)
    BY <1>1, <1>4
  <2>2. \A j \in 2 .. Len(t) : t[j] \in S
    BY <1>1, <1>2, ElementOfSeq
  <2>3. \A j \in 1 .. Len(t) - 2 + 1 : SubSeq(t, 2, Len(t))[j] = t[2 + j - 1]
    BY <1>1, <2>2, SubSeqProperties
  <2>4. r[i - 1] = t[i]
    BY <1>1, <2>1, <2>3
  <2>5. r[i - 1].reads \subseteq B.live \cup B.undef
    BY <2>1 DEF Reads
  <2>6. QED
    BY <2>4, <2>5
<1>5. QED
  BY <1>3, <1>4

LEMMA SafeCons ==
  ASSUME NEW s, NEW r, NEW A, NEW B, Safe(r, B), After(A, s, B),
         s.do \notin {"find", "again"}, s.reads \subseteq A.live \cup A.undef,
         B.live \cup B.undef \subseteq A.live \cup A.undef
  PROVE  Safe(Cons(s, r), A)
<1> DEFINE t == Cons(s, r)
<1>1. PICK G : <<r, B>> \in G /\ Chained(G)
  BY DEF Safe
<1>2. IsList(r) /\ Reads(r, B)
  BY SafeIs
<1>3. /\ IsList(t) /\ Head(t) = s /\ t # <<>> /\ Rest(t, 1) = r /\ Reads(t, A)
  BY <1>2, Peel, ReadsMore DEF Rest
<1> HIDE DEF t
<1>4. Goes(t, A, G)
  BY <1>1, <1>3 DEF Goes
<1>5. Safe(t, A)
  BY <1>1, <1>3, <1>4, ChainedMore
<1>6. QED
  BY <1>5 DEF t

(* The lists that operations share.                                        *)
LEMMA StepIs == \A do, reads, args : /\ Step(do, reads, args).do = do
                                     /\ Step(do, reads, args).reads = reads
                                     /\ Step(do, reads, args).args = args
BY DEF Step

(* In between, an annotation.                                              *)
Known(height, undef, live, obj, reach, on, comp, const) ==
  [top |-> height, undef |-> undef, live |-> live, obj |-> obj, reach |-> reach,
   on |-> on, comp |-> comp, const |-> const]

LEMMA KnownIs ==
  ASSUME NEW h, NEW u, NEW l, NEW o, NEW r, NEW s, NEW c, NEW k
  PROVE  LET A == Known(h, u, l, o, r, s, c, k)
         IN  /\ A.top = h /\ A.undef = u /\ A.live = l /\ A.obj = o
             /\ A.reach = r /\ A.on = s /\ A.comp = c /\ A.const = k
BY DEF Known

-------------------------------------------------------------------------------
(* Each step keeps the state well formed, and what is known afterwards.    *)

LEMMA MoveSafe ==
  ASSUME Limits, NEW A, NEW B, WellFormed, Holds(A), After(A, Head(todo), B), StackStep
  PROVE  WellFormed' /\ Holds(B)'
<1> DEFINE v == Arg(1)
<1>0. /\ UNCHANGED <<objects, refs, globals, init, open, compilers, var>>
      /\ Alive' = Alive
  BY DEF StackStep, Alive
<1>1. ASSUME Act("push"), top' = top + 1, stack' = [stack EXCEPT ![top + 1] = Val(1)],
             UNCHANGED frames
      PROVE  WellFormed' /\ Holds(B)'
  <2>1. /\ v \in A.live /\ A.top < StackMax /\ Keeps(A, B) /\ B.top = A.top + 1 /\ B.reach = {}
        /\ B.on \subseteq A.on \cup {<<v, A.top + 1>>}
        /\ B.comp \subseteq A.comp /\ B.const \subseteq A.const
    BY <1>1 DEF After, Act, Arg
  <2>2. var[v] \in Alive /\ v \in DOMAIN var /\ top = A.top /\ top + 1 \in 1 .. StackMax
    BY <2>1 DEF Holds, WellFormed, Limits
  <2>3. WellFormed'
    BY <1>0, <1>1, <2>2 DEF WellFormed, Val, Place, Alive
  <2>4. \A x \in B.on : x[1] \in DOMAIN var /\ x[2] \in 1 .. top + 1 /\ stack'[x[2]] = var[x[1]]
    BY <1>1, <2>1, <2>2 DEF Holds, WellFormed, Val
  <2>5. Holds(B)'
    BY <1>0, <1>1, <2>1, <2>2, <2>4 DEF Holds, Keeps, Fixed
  <2>6. QED
    BY <2>3, <2>5
<1>2. ASSUME Act("pop"), top' = top - 1, UNCHANGED <<stack, frames>>
      PROVE  WellFormed' /\ Holds(B)'
  <2>1. /\ A.top > 0 /\ Keeps(A, B) /\ B.top = A.top - 1 /\ B.reach = {}
        /\ B.on \subseteq {x \in A.on : x[2] < A.top}
        /\ B.comp \subseteq A.comp /\ B.const \subseteq A.const
    BY <1>2 DEF After, Act
  <2>2. top = A.top /\ top - 1 \in 0 .. StackMax
    BY <2>1 DEF Holds, WellFormed, Limits
  <2>3. WellFormed'
    <3>1. \A i \in 1 .. top - 1 : i \in 1 .. top
      BY <2>2, <1>0 DEF WellFormed, Limits
    <3>2. \A i \in 1 .. top' : stack'[i] \in Alive'
      BY <1>0, <1>2, <3>1 DEF WellFormed
    <3>3. QED
      BY <1>0, <1>2, <2>2, <3>2, SMTT(40) DEF WellFormed
  <2>4. \A x \in B.on : x[1] \in DOMAIN var /\ x[2] \in 1 .. top - 1 /\ stack[x[2]] = var[x[1]]
    BY <2>1, <2>2 DEF Holds, WellFormed
  <2>5. Holds(B)'
    BY <1>0, <1>2, <2>1, <2>2, <2>4 DEF Holds, Keeps, Fixed
  <2>6. QED
    BY <2>3, <2>5
<1>3. ASSUME Act("put"), stack' = [stack EXCEPT ![top] = Val(1)], UNCHANGED <<top, frames>>
      PROVE  WellFormed' /\ Holds(B)'
  <2>1. v \in A.live /\ A.top > 0 /\ Same(A, B) /\ B.reach = {} /\ B.on = {}
    BY <1>3 DEF After, Act, Arg
  <2>2. var[v] \in Alive /\ top = A.top /\ top \in 1 .. StackMax
    BY <2>1 DEF Holds, WellFormed, Limits
  <2>3. WellFormed'
    BY <1>0, <1>3, <2>2 DEF WellFormed, Val, Place, Alive
  <2>4. Holds(B)'
    BY <1>0, <1>3, <2>1, <2>2 DEF Holds, Same, Keeps, Fixed
  <2>5. QED
    BY <2>3, <2>4
<1>4. ASSUME Act("call"), UNCHANGED <<stack, top>>,
             frames' = Append(frames, [closure |-> Val(1), slot |-> Arg(2)])
      PROVE  WellFormed' /\ Holds(B)'
  <2>1. v \in A.live /\ Arg(2) \in 1 .. StackMax /\ Same(A, B) /\ B.reach = {}
    BY <1>4 DEF After, Act, Arg
  <2>2. var[v] \in Alive
    BY <2>1 DEF Holds
  <2> DEFINE f == [closure |-> Val(1), slot |-> Arg(2)]
  <2>3. f.closure \in Alive /\ f.slot \in 1 .. StackMax
    BY <2>1, <2>2 DEF Val
  <2>4. (\E S : frames' \in Seq(S)) /\ \A i \in DOMAIN frames' : frames'[i].closure \in Alive /\ frames'[i].slot \in 1 .. StackMax
    <3>1. PICK S : frames \in Seq(S)
      BY DEF WellFormed
    <3>2. frames \in Seq(S \cup {f})
      BY <3>1, SeqMonotonic
    <3>3. frames' = Append(frames, f)
      BY <1>4
    <3> HIDE DEF f
    <3>4. /\ frames' \in Seq(S \cup {f}) /\ Len(frames') = Len(frames) + 1
          /\ \A i \in 1 .. Len(frames) : frames'[i] = frames[i]
          /\ frames'[Len(frames) + 1] = f
      BY <3>2, <3>3, AppendProperties
    <3>5. DOMAIN frames = 1 .. Len(frames) /\ DOMAIN frames' = 1 .. Len(frames') /\ Len(frames) \in Nat
      BY <3>2, <3>4, LenProperties
    <3>6. \A i \in DOMAIN frames' : i \in DOMAIN frames \/ i = Len(frames) + 1
      BY <3>4, <3>5
    <3>7. \A i \in DOMAIN frames : frames[i].closure \in Alive /\ frames[i].slot \in 1 .. StackMax
      BY DEF WellFormed
    <3>8. QED
      BY <2>3, <3>4, <3>5, <3>6, <3>7
  <2>5. WellFormed'
    BY <1>0, <1>4, <2>4 DEF WellFormed
  <2>6. Holds(B)'
    BY <1>0, <1>4, <2>1 DEF Holds, Same, Keeps, Fixed
  <2>7. QED
    BY <2>5, <2>6
<1>5. QED
  BY <1>1, <1>2, <1>3, <1>4 DEF StackStep

(* More references and the same roots: no less is reachable.               *)
LEMMA ReachGrows ==
  ASSUME refs \subseteq refs', open \subseteq open', UNCHANGED <<stack, RootSet>>
  PROVE  Reach \subseteq Reach'
<1>1. Edges \subseteq Edges'
  BY DEF Edges
<1>2. Reach' = Least(RootSet', Edges')
  BY DEF Reach, Least
<1>3. QED
  BY <1>1, <1>2, LeastGrows DEF Reach

LEMMA SameRoots ==
  ASSUME UNCHANGED roots
  PROVE  UNCHANGED RootSet
BY DEF roots, RootSet, Values

LEMMA NilIsNone == Nil \notin Objects
<1>1. ASSUME NEW k \in Kinds
      PROVE  Nil \notin {<<k, i>> : i \in 1 .. Room[k]}
  <2>1. k # "nil"
    BY DEF Kinds
  <2>2. QED
    BY <2>1 DEF Nil
<1>2. QED
  BY <1>1 DEF Objects

LEMMA StoreSafe ==
  ASSUME Limits, NEW A, NEW B, WellFormed, Holds(A), After(A, Head(todo), B), Store
  PROVE  WellFormed' /\ Holds(B)'
<1> DEFINE v == Arg(1)
           w == Arg(2)
<1>0. /\ UNCHANGED <<objects, stack, top, frames, compilers, var>>
      /\ Alive' = Alive
  BY DEF Store, Alive
<1>1. ASSUME Act("link"), refs' = refs \cup ({Val(1)} \X To(Val(2))), UNCHANGED <<globals, init, open>>
      PROVE  WellFormed' /\ Holds(B)'
  <2>1. /\ v \in A.live \cap A.obj /\ w \in A.live
        /\ Keeps(A, B) /\ B.top = A.top /\ B.reach \subseteq A.reach
        /\ B.on \subseteq A.on /\ B.comp \subseteq A.comp
        /\ B.const \subseteq A.const \cup (IF v \in NamesIn(A.comp) THEN {w} ELSE {})
    BY <1>1 DEF After, Act, Arg
  <2>2. var[v] \in objects /\ var[w] \in Alive
    BY <2>1 DEF Holds, Alive
  <2>3. refs' \subseteq objects \X objects /\ refs \subseteq refs'
    BY <1>1, <2>2 DEF WellFormed, Val, To, Alive
  <2>4. WellFormed'
    BY <1>0, <1>1, <2>3 DEF WellFormed
  <2>5. Reach \subseteq Reach'
    BY <1>0, <1>1, <2>3, ReachGrows, SameRoots DEF roots
  <2>6. \A p : Fixed(p) => Fixed(p)'
    BY <1>0, <2>3 DEF Fixed
  <2>7. ASSUME v \in NamesIn(A.comp), NEW p, p = var[w]
        PROVE  Fixed(p)'
    <3>1. PICK x \in A.comp : x[1] = v
      BY <2>7 DEF NamesIn
    <3>2. x[2] \in DOMAIN compilers /\ compilers[x[2]] = var[v]
      BY <3>1 DEF Holds
    <3>3. p = Nil \/ <<var[v], p>> \in refs'
      BY <1>1, <2>7 DEF Val, To
    <3>4. QED
      BY <1>0, <3>2, <3>3 DEF Fixed
  <2>8. \A u \in B.const : u \in DOMAIN var /\ Fixed(var[u])'
    BY <1>0, <2>1, <2>6, <2>7 DEF Holds
  <2>9. \A u \in B.reach : u \in DOMAIN var /\ var[u] \in Reach' \cup {Nil}
    BY <2>1, <2>5 DEF Holds
  <2>10. Holds(B)'
    BY <1>0, <2>1, <2>8, <2>9 DEF Holds, Keeps, Fixed
  <2>11. QED
    BY <2>4, <2>10
<1>2. ASSUME Act("capture"), UNCHANGED <<globals, init, open>>,
             NEW old, refs' = (refs \ ({Val(1)} \X old)) \cup {<<Val(1), Val(2)>>}
      PROVE  WellFormed' /\ Holds(B)'
  <2>1. /\ v \in A.live \cap A.obj /\ w \in A.live \cap A.obj
        /\ Same(A, B) /\ B.reach = {} /\ B.const = {}
    BY <1>2 DEF After, Act, Arg
  <2>2. var[v] \in objects /\ var[w] \in objects
    BY <2>1 DEF Holds, Alive
  <2>3. refs' \subseteq objects \X objects
    BY <1>2, <2>2 DEF WellFormed, Val
  <2>4. WellFormed'
    BY <1>0, <1>2, <2>3 DEF WellFormed
  <2>5. Holds(B)'
    BY <1>0, <1>2, <2>1 DEF Holds, Same, Keeps
  <2>6. QED
    BY <2>4, <2>5
<1>3. ASSUME Act("global"), UNCHANGED <<refs, init, open>>,
             globals' = {g \in globals : g[1] # Val(1)} \cup {<<Val(1), Val(2)>>}
      PROVE  WellFormed' /\ Holds(B)'
  <2>1. v \in A.live /\ w \in A.live /\ Same(A, B) /\ B.reach = {}
    BY <1>3 DEF After, Act, Arg
  <2>2. var[v] \in Alive /\ var[w] \in Alive
    BY <2>1 DEF Holds
  <2>3. globals' \subseteq Alive \X Alive
    BY <1>3, <2>2 DEF WellFormed, Val
  <2>4. WellFormed'
    BY <1>0, <1>3, <2>3 DEF WellFormed
  <2>5. Holds(B)'
    BY <1>0, <1>3, <2>1 DEF Holds, Same, Keeps, Fixed
  <2>6. QED
    BY <2>4, <2>5
<1>4. ASSUME Act("init"), init' = Val(1), UNCHANGED <<refs, globals, open>>
      PROVE  WellFormed' /\ Holds(B)'
  <2>1. v \in A.live /\ Same(A, B) /\ B.reach = {}
    BY <1>4 DEF After, Act, Arg
  <2>2. var[v] \in Alive
    BY <2>1 DEF Holds
  <2>3. WellFormed'
    BY <1>0, <1>4, <2>2 DEF WellFormed, Val
  <2>4. Holds(B)'
    BY <1>0, <1>4, <2>1 DEF Holds, Same, Keeps, Fixed
  <2>5. QED
    BY <2>3, <2>4
<1>5. ASSUME Act("open"), open' = open \cup {<<Val(1), Arg(2)>>}, UNCHANGED <<refs, globals, init>>
      PROVE  WellFormed' /\ Holds(B)'
  <2>1. /\ v \in A.live \cap A.obj /\ w \in 1 .. A.top /\ Same(A, B) /\ B.reach = {}
    BY <1>5 DEF After, Act, Arg
  <2>2. var[v] \in objects /\ w \in 1 .. top /\ w \in 1 .. StackMax
    BY <2>1 DEF Holds, Alive, WellFormed, Limits
  <2>3. open' \subseteq objects \X (1 .. StackMax) /\ \A u \in open' : stack[u[2]] \in Alive
    BY <1>5, <2>2 DEF WellFormed, Val
  <2>4. WellFormed'
    BY <1>0, <1>5, <2>3 DEF WellFormed
  <2>5. Holds(B)'
    BY <1>0, <1>5, <2>1 DEF Holds, Same, Keeps, Fixed
  <2>6. QED
    BY <2>4, <2>5
<1>6. QED
  BY <1>1, <1>2, <1>3, <1>4, <1>5 DEF Store

LEMMA CompileSafe ==
  ASSUME Limits, NEW A, NEW B, WellFormed, Holds(A), After(A, Head(todo), B), Compile
  PROVE  WellFormed' /\ Holds(B)'
<1> DEFINE v == Arg(1)
<1>0. /\ UNCHANGED <<objects, refs, stack, top, frames, globals, init, open, var>>
      /\ Alive' = Alive
  BY DEF Compile, Alive
<1>c. /\ compilers \in Seq(Objects) /\ DOMAIN compilers = 1 .. Len(compilers) /\ Len(compilers) \in Nat
  <2>1. compilers \in Seq(Objects)
    BY DEF WellFormed
  <2>2. QED
    BY <2>1, LenProperties
<1>1. ASSUME Act("enter"), compilers' = <<Val(1)>> \o compilers
      PROVE  WellFormed' /\ Holds(B)'
  <2>1. v \in A.live \cap A.obj /\ Same(A, B) /\ B.reach = {} /\ B.comp = {}
    BY <1>1 DEF After, Act, Arg
  <2>2. var[v] \in objects /\ var[v] \in Objects
    BY <2>1 DEF Holds, Alive, WellFormed
  <2> DEFINE s == <<var[v]>>
  <2>3. s \in Seq(Objects) /\ Len(s) = 1 /\ s[1] = var[v]
    BY <2>2
  <2>4. compilers' = s \o compilers
    BY <1>1 DEF Val
  <2> HIDE DEF s
  <2>5. /\ compilers' \in Seq(Objects) /\ Len(compilers') = Len(compilers) + 1
        /\ \A i \in 1 .. Len(compilers) + 1 :
             compilers'[i] = IF i <= 1 THEN s[i] ELSE compilers[i - 1]
    BY <1>c, <2>3, <2>4, ConcatProperties
  <2>6. DOMAIN compilers' = 1 .. Len(compilers) + 1
    BY <2>5, LenProperties
  <2>7. \A i \in DOMAIN compilers' : compilers'[i] \in objects
    <3>1. \A i \in 1 .. Len(compilers) : compilers[i] \in objects
      BY <1>c DEF WellFormed
    <3>2. \A i \in 1 .. Len(compilers) + 1 : i = 1 \/ (~ (i <= 1) /\ i - 1 \in 1 .. Len(compilers))
      BY <1>c
    <3>3. QED
      BY <2>2, <2>3, <2>5, <2>6, <3>1, <3>2
  <2>8. WellFormed'
    BY <1>0, <2>5, <2>7 DEF WellFormed
  <2>9. \A p : Fixed(p) => Fixed(p)'
    <3>1. SUFFICES ASSUME NEW p, NEW n \in DOMAIN compilers, <<compilers[n], p>> \in refs
                   PROVE  Fixed(p)'
      BY <1>0 DEF Fixed
    <3>2. n + 1 \in 1 .. Len(compilers) + 1 /\ ~ (n + 1 <= 1) /\ (n + 1) - 1 = n
      BY <1>c
    <3>3. n + 1 \in DOMAIN compilers' /\ compilers'[n + 1] = compilers[n]
      BY <2>5, <2>6, <3>2
    <3>4. QED
      BY <1>0, <3>1, <3>3 DEF Fixed
  <2>10. Holds(B)'
    BY <1>0, <2>1, <2>9 DEF Holds, Same, Keeps
  <2>11. QED
    BY <2>8, <2>10
<1>2. ASSUME Act("leave"), compilers' = Tail(compilers)
      PROVE  WellFormed' /\ Holds(B)'
  <2>1. /\ \E u : <<u, 1>> \in A.comp
        /\ Keeps(A, B) /\ B.top = A.top /\ B.reach = {} /\ B.on \subseteq A.on
        /\ B.comp \subseteq {<<x[1], x[2] - 1>> : x \in {y \in A.comp : y[2] > 1}}
        /\ B.const = {}
    BY <1>2 DEF After, Act, Arg
  <2>2. 1 \in DOMAIN compilers
    BY <2>1 DEF Holds
  <2>3. compilers # <<>>
    BY <1>c, <2>2, EmptySeq
  <2>4. /\ compilers' \in Seq(Objects) /\ Len(compilers') = Len(compilers) - 1
        /\ \A i \in 1 .. Len(compilers') : compilers'[i] = compilers[i + 1]
    BY <1>2, <1>c, <2>3, HeadTailProperties
  <2>5. DOMAIN compilers' = 1 .. Len(compilers) - 1
    BY <2>4, LenProperties
  <2>6. \A i \in DOMAIN compilers' : i + 1 \in DOMAIN compilers /\ compilers'[i] = compilers[i + 1]
    BY <1>c, <2>4, <2>5
  <2>7. WellFormed'
    BY <1>0, <2>4, <2>6 DEF WellFormed
  <2>8. ASSUME NEW x \in B.comp
        PROVE  x[1] \in DOMAIN var /\ x[2] \in DOMAIN compilers' /\ compilers'[x[2]] = var[x[1]]
    <3>1. PICK y \in A.comp : y[2] > 1 /\ x = <<y[1], y[2] - 1>>
      BY <2>1, <2>8
    <3>2. y[1] \in DOMAIN var /\ y[2] \in 1 .. Len(compilers) /\ compilers[y[2]] = var[y[1]]
      BY <1>c, <3>1 DEF Holds
    <3>3. y[2] - 1 \in DOMAIN compilers' /\ (y[2] - 1) + 1 = y[2]
      BY <1>c, <2>5, <3>1, <3>2
    <3>4. QED
      BY <2>6, <3>1, <3>2, <3>3
  <2>9. Holds(B)'
    BY <1>0, <2>1, <2>8 DEF Holds, Keeps
  <2>10. QED
    BY <2>7, <2>9
<1>3. QED
  BY <1>1, <1>2 DEF Compile

LEMMA QuietSafe ==
  ASSUME NEW A, NEW B, WellFormed, Holds(A), UNCHANGED <<objects, refs, roots, var>>,
         Same(A, B), B.reach \subseteq A.reach
  PROVE  WellFormed' /\ Holds(B)'
<1>1. UNCHANGED <<objects, refs, stack, top, frames, globals, init, open, compilers, var>>
  BY DEF roots
<1>2. UNCHANGED <<Alive, RootSet, Edges>> /\ Reach' = Reach
  <2>1. UNCHANGED <<Alive, RootSet, Edges>>
    BY <1>1 DEF Alive, RootSet, Values, Edges
  <2>2. Reach' = Least(RootSet', Edges')
    BY DEF Reach, Least
  <2>3. QED
    BY <2>1, <2>2 DEF Reach
<1>3. WellFormed'
  BY <1>1, <1>2 DEF WellFormed
<1>4. Holds(B)'
  BY <1>1, <1>2 DEF Holds, Same, Keeps, Fixed
<1>5. QED
  BY <1>3, <1>4

(* An object for a variable that had none.                                 *)
LEMMA DefinesSafe ==
  ASSUME NEW A, NEW B, NEW v, NEW o, WellFormed, Holds(A), Defines(A, v, B),
         Assign(v, o), o \in objects', o # Nil, UNCHANGED roots,
         objects \subseteq objects', objects' \subseteq Objects, refs \subseteq refs',
         refs' \subseteq objects' \X objects'
  PROVE  WellFormed' /\ Holds(B)'
<1>1. UNCHANGED <<stack, top, frames, globals, init, open, compilers>> /\ Alive \subseteq Alive'
  BY DEF roots, Alive
<1>2. WellFormed'
  BY <1>1 DEF WellFormed
<1>3. Reach \subseteq Reach'
  BY <1>1, ReachGrows, SameRoots
<1>4. /\ DOMAIN var' = DOMAIN var \cup {v} /\ var'[v] = o
      /\ \A u \in DOMAIN var : u # v => var'[u] = var[u]
  BY DEF Assign
<1>5. /\ v \in A.undef
      /\ B.top = A.top /\ B.undef \subseteq A.undef \ {v} /\ B.live \subseteq A.live \cup {v}
      /\ B.obj \subseteq A.obj \cup {v} /\ B.reach \subseteq A.reach
      /\ B.on \subseteq A.on /\ B.comp \subseteq A.comp /\ B.const \subseteq A.const
  BY DEF Defines
<1>6. v \notin DOMAIN var /\ \A u \in DOMAIN var : var'[u] = var[u]
  BY <1>4, <1>5 DEF Holds
<1>7. o \in Alive'
  BY DEF Alive
<1>8. \A p : Fixed(p) => Fixed(p)'
  BY <1>1 DEF Fixed
<1>9. /\ \A u \in B.undef : u \notin DOMAIN var'
      /\ \A u \in B.live  : u \in DOMAIN var' /\ var'[u] \in Alive'
      /\ \A u \in B.obj   : u \in DOMAIN var' /\ var'[u] # Nil
  BY <1>1, <1>4, <1>5, <1>6, <1>7 DEF Holds
<1>10. \A u \in B.reach : u \in DOMAIN var' /\ var'[u] \in Reach' \cup {Nil}
  BY <1>3, <1>4, <1>5, <1>6 DEF Holds
<1>11. /\ \A x \in B.on   : x[1] \in DOMAIN var' /\ x[2] \in 1 .. top /\ stack[x[2]] = var'[x[1]]
       /\ \A x \in B.comp : x[1] \in DOMAIN var' /\ x[2] \in DOMAIN compilers
                                                /\ compilers[x[2]] = var'[x[1]]
  BY <1>4, <1>5, <1>6 DEF Holds
<1>12. \A u \in B.const : u \in DOMAIN var' /\ \A p : p = var'[u] => Fixed(p)'
  <2>1. SUFFICES ASSUME NEW u \in B.const, NEW p, p = var'[u]
                 PROVE  u \in DOMAIN var' /\ Fixed(p)'
    BY <1>4, <1>5 DEF Holds
  <2>2. u \in DOMAIN var /\ Fixed(var[u]) /\ p = var[u]
    BY <1>5, <1>6, <2>1 DEF Holds
  <2>3. QED
    BY <1>4, <1>8, <2>2
<1>13. Holds(B)'
  <2>1. \A u \in B.const : u \in DOMAIN var' /\ Fixed(var[u])'
    BY <1>12 DEF Fixed
  <2>2. QED
    BY <1>1, <1>5, <1>9, <1>10, <1>11, <2>1 DEF Holds, Fixed
<1>14. QED
  BY <1>2, <1>13

LEMMA LeastNumber ==
  ASSUME NEW n \in Nat, NEW S \in SUBSET (1 .. n), S # {}
  PROVE  Min(S) \in S
<1> DEFINE Upto(i) == 1 .. i
           T == {Upto(i) : i \in S}
<1>1. IsWellFoundedOn(StrictSubsetOrdering(1 .. n), SUBSET (1 .. n))
  <2>1. IsFiniteSet(1 .. n)
    BY FS_Interval
  <2>2. QED
    BY <2>1, FS_StrictSubsetOrderingWellFounded, FS_FiniteSubsetsOfFinite
<1>2. T \subseteq SUBSET (1 .. n) /\ T # {}
  <2>1. PICK i : i \in S
    OBVIOUS
  <2>2. Upto(i) \in T
    BY <2>1
  <2>3. \A j \in S : Upto(j) \subseteq 1 .. n
    OBVIOUS
  <2>4. QED
    BY <2>2, <2>3
<1>3. PICK x \in T : \A y \in T : ~ (<<y, x>> \in StrictSubsetOrdering(1 .. n))
  <2> HIDE DEF T
  <2>1. QED
    BY <1>1, <1>2, WFMin
<1>4. PICK m \in S : x = Upto(m)
  BY <1>3
<1>5. ASSUME NEW i \in S, ~ (m =< i)
      PROVE  FALSE
  <2>1. Upto(i) \subseteq Upto(m) /\ Upto(i) # Upto(m) /\ Upto(m) \subseteq 1 .. n
    <3>1. m \in Upto(m) /\ m \notin Upto(i)
      BY <1>5
    <3>2. QED
      BY <1>5, <3>1
  <2>2. Upto(i) \in T
    OBVIOUS
  <2>3. <<Upto(i), Upto(m)>> \in StrictSubsetOrdering(1 .. n)
    <3> HIDE DEF Upto
    <3>1. QED
      BY <2>1 DEF StrictSubsetOrdering
  <2>4. QED
    BY <1>3, <1>4, <2>2, <2>3
<1>6. m \in S /\ \A i \in S : m =< i
  BY <1>5
<1>7. QED
  BY <1>6 DEF Min

LEMMA AllocateSafe ==
  ASSUME Limits, NEW A, NEW B, WellFormed, Holds(A), After(A, Head(todo), B), Allocate,
         ~ UNCHANGED rooting
  PROVE  WellFormed' /\ Holds(B)' /\ Done(1)
<1> DEFINE free == {i \in 1 .. Room[Arg(2)] : <<Arg(2), i>> \notin objects}
           o    == <<Arg(2), Min(free)>>
<1>1. /\ free # {} /\ objects' = objects \cup {o}
      /\ refs' = refs \cup {<<o, var[u]>> : u \in Head(todo).reads}
      /\ Assign(Arg(1), o) /\ Done(1) /\ UNCHANGED roots
  BY DEF Allocate
<1>2. /\ Head(todo).reads \subseteq A.live \cap A.obj /\ Arg(2) \in Kinds
      /\ Defines(A, Arg(1), B)
  BY DEF Allocate, After, Act, Arg
<1>3. Min(free) \in free
  <2>1. Room[Arg(2)] \in Nat
    BY <1>2 DEF Limits
  <2>2. QED
    BY <1>1, <2>1, LeastNumber
<1>4. o \in Objects
  <2> DEFINE Of == {<<Arg(2), i>> : i \in 1 .. Room[Arg(2)]}
  <2>1. Min(free) \in 1 .. Room[Arg(2)]
    BY <1>3
  <2>2. o \in Of
    BY <2>1
  <2>3. Of \subseteq Objects
    BY <1>2 DEF Objects
  <2>4. QED
    BY <2>2, <2>3
<1>5. \A u \in Head(todo).reads : var[u] \in objects
  BY <1>2 DEF Holds, Alive
<1>6. refs' \subseteq objects' \X objects' /\ refs \subseteq refs' /\ objects \subseteq objects'
  BY <1>1, <1>5, SMTT(40) DEF WellFormed
<1>7. objects' \subseteq Objects /\ o \in objects' /\ o # Nil
  BY <1>1, <1>4, NilIsNone DEF WellFormed
<1> HIDE DEF o, free
<1>9. \A a, p : p = o /\ a = Arg(1) => WellFormed' /\ Holds(B)'
  <2>1. SUFFICES ASSUME NEW a, NEW p, p = o, a = Arg(1)
                 PROVE  WellFormed' /\ Holds(B)'
    OBVIOUS
  <2>2. Assign(a, p) /\ p \in objects' /\ p # Nil /\ Defines(A, a, B)
    BY <1>1, <1>2, <1>7, <2>1
  <2>3. QED
    BY <1>1, <1>6, <1>7, <2>1, <2>2, DefinesSafe
<1>10. QED
  BY <1>1, <1>9

(* What is reachable survives a collection, and is reachable after it.     *)
LEMMA CollectSafe ==
  ASSUME Limits, NEW A, WellFormed, Holds(A), Rooted(A), Collect
  PROVE  WellFormed' /\ Holds(A)'
<1>1. /\ objects' = objects \cap Reachable
      /\ refs' = {r \in refs : r[1] \in Reachable}
      /\ UNCHANGED <<stack, top, frames, globals, init, open, compilers, var>>
      /\ UNCHANGED RootSet
  BY SameRoots DEF Collect, roots
<1>2. Reachable = Reach \ {Nil} /\ Reach \subseteq Alive /\ Placed(RootSet, Edges)
  BY ReachableIs, ReachAlive
<1>3. /\ Reach \in SUBSET Place /\ RootSet \subseteq Reach /\ Under(Reach, Edges)
  BY <1>2, LeastIs DEF Reach
<1>4. Alive' = Reach \cup {Nil}
  BY <1>1, <1>2 DEF Alive
<1>5. Nil \notin objects
  BY NilIsNone DEF WellFormed
<1>6. objects' \subseteq Objects /\ refs' \subseteq objects' \X objects'
  <2>1. ASSUME NEW r \in refs, r[1] \in Reachable
        PROVE  r[1] \in objects' /\ r[2] \in objects'
    <3>1. r[1] \in objects /\ r[2] \in objects
      BY DEF WellFormed
    <3>2. r[2] \in Reach
      BY <1>2, <1>3, <2>1 DEF Under, Edges
    <3>3. QED
      BY <1>1, <1>2, <1>5, <2>1, <3>1, <3>2
  <2>2. QED
    BY <1>1, <2>1 DEF WellFormed
<1>7. \A u \in open : u[1] \in objects' /\ stack[u[2]] \in Reach
  <2>1. SUFFICES ASSUME NEW u \in open
                 PROVE  u[1] \in objects' /\ stack[u[2]] \in Reach
    OBVIOUS
  <2>2. u[1] \in RootSet
    BY DEF RootSet
  <2>3. u[1] \in objects /\ u[1] \in Reach
    BY <1>3, <2>2 DEF WellFormed
  <2>4. <<u[1], stack[u[2]]>> \in Edges
    BY DEF Edges
  <2>5. stack[u[2]] \in Reach
    BY <1>3, <2>3, <2>4 DEF Under
  <2>6. QED
    BY <1>1, <1>2, <1>5, <2>3, <2>5
<1>8. \A i \in 1 .. top : stack[i] \in Reach
  BY <1>3 DEF RootSet, Values
<1>9. \A i \in DOMAIN frames : frames[i].closure \in Reach
  BY <1>3 DEF RootSet, Range
<1>10. \A i \in DOMAIN compilers : compilers[i] \in Reach /\ compilers[i] \in objects'
  <2>1. \A i \in DOMAIN compilers : compilers[i] \in RootSet
    BY DEF RootSet, Range
  <2>2. \A i \in DOMAIN compilers : compilers[i] \in objects
    BY DEF WellFormed
  <2>3. QED
    BY <1>1, <1>2, <1>3, <1>5, <2>1, <2>2
<1>11. globals \subseteq Reach \X Reach
  <2>1. SUFFICES ASSUME NEW g \in globals
                 PROVE  g \in Reach \X Reach
    OBVIOUS
  <2>2. g[1] \in RootSet /\ g[2] \in RootSet
    <3> DEFINE G == UNION {{h[1], h[2]} : h \in globals}
    <3>1. g[1] \in G /\ g[2] \in G
      OBVIOUS
    <3>2. G \subseteq RootSet
      BY DEF RootSet
    <3>3. QED
      BY <3>1, <3>2
  <2>3. g \in Alive \X Alive
    BY DEF WellFormed
  <2>4. QED
    BY <1>3, <2>2, <2>3
<1>12. init \in Reach
  BY <1>3 DEF RootSet
<1>13. WellFormed'
  BY <1>1, <1>4, <1>6, <1>7, <1>8, <1>9, <1>10, <1>11, <1>12 DEF WellFormed
<1>14. Reach \subseteq Reach'
  <2> DEFINE C == Least(RootSet, Edges')
  <2>1. Reach' = C
    BY <1>1 DEF Reach, Least
  <2>2. Edges' \subseteq Edges
    BY <1>1 DEF Edges
  <2>3. C \subseteq Reach
    BY <2>2, LeastGrows DEF Reach
  <2>4. C \in SUBSET Place /\ RootSet \subseteq C /\ Under(C, Edges')
    <3>1. Placed(RootSet, Edges')
      BY <1>2, <2>2 DEF Placed
    <3>2. QED
      BY <3>1, LeastIs
  <2> HIDE DEF C
  <2>5. Under(C, Edges)
    <3>1. SUFFICES ASSUME NEW e \in Edges, e[1] \in C
                   PROVE  e[2] \in C
      BY DEF Under
    <3>2. e[1] \in objects /\ e[1] \in Reachable
      BY <1>2, <1>5, <2>3, <3>1, AliveEdges
    <3>3. e \in Edges'
      BY <1>1, <3>2 DEF Edges
    <3>4. QED
      BY <2>4, <3>1, <3>3 DEF Under
  <2>6. Reach \subseteq C
    BY <2>4, <2>5, LeastWithin DEF Reach
  <2>7. QED
    BY <2>1, <2>6
<1>15. \A p : Fixed(p) => p = Nil \/ (p \in Reach /\ \E n \in DOMAIN compilers : <<compilers[n], p>> \in refs')
  <2>1. SUFFICES ASSUME NEW p, NEW n \in DOMAIN compilers, <<compilers[n], p>> \in refs, p # Nil
                 PROVE  p \in Reach /\ <<compilers[n], p>> \in refs'
    BY DEF Fixed
  <2>2. compilers[n] \in Reachable
    BY <1>1, <1>10
  <2>3. <<compilers[n], p>> \in Edges
    BY <2>1 DEF Edges
  <2>4. QED
    BY <1>1, <1>2, <1>3, <2>1, <2>2, <2>3 DEF Under
<1>16. \A v \in A.live : v \in DOMAIN var /\ var[v] \in Reach \cup {Nil}
  <2>1. SUFFICES ASSUME NEW v \in A.live
                 PROVE  v \in DOMAIN var /\ var[v] \in Reach \cup {Nil}
    OBVIOUS
  <2>2. CASE v \in A.reach
    BY <2>2 DEF Holds
  <2>3. CASE v \in NamesIn(A.on)
    BY <1>8, <2>3 DEF Holds, NamesIn
  <2>4. CASE v \in NamesIn(A.comp)
    BY <1>10, <2>4 DEF Holds, NamesIn
  <2>5. CASE v \in A.const
    BY <1>15, <2>5 DEF Holds
  <2>6. QED
    BY <2>2, <2>3, <2>4, <2>5 DEF Rooted
<1>17. Holds(A)'
  BY <1>1, <1>4, <1>14, <1>15, <1>16 DEF Holds, Fixed
<1>18. QED
  BY <1>13, <1>17

(* What a capture takes over exists, whatever was captured before it.      *)
LEMMA UpvaluesExist ==
  ASSUME WellFormed, NEW source
  PROVE  Upvalues(source) \subseteq objects
<1>1. {u[1] : u \in {x \in open : x[2] = source}} \subseteq objects
  BY DEF WellFormed
<1>2. ASSUME NEW o \in Held(Children(Frame.closure), "upvalue")
      PROVE  o \in objects
  <2>1. o \in Alive
    <3>1. CASE \E r \in refs : o = r[2]
      BY <3>1 DEF WellFormed, Alive
    <3>2. CASE \E u \in open : o = stack[u[2]]
      BY <3>2 DEF WellFormed
    <3>3. QED
      BY <1>2, <3>1, <3>2 DEF Held, Children
  <2>2. o # Nil
    BY <1>2 DEF Held, Nil
  <2>3. QED
    BY <2>1, <2>2 DEF Alive
<1>3. QED
  BY <1>1, <1>2 DEF Upvalues

(* The inductive invariant: the steps that are left are safe from here.    *)
IInv == WellFormed /\ \E A : Safe(todo, A) /\ Holds(A)

LEMMA StatementSafe ==
  ASSUME Limits, IInv, Statement
  PROVE  IInv'
<1>1. PICK A : Safe(todo, A) /\ Holds(A)
  BY DEF IInv
<1>2. WellFormed
  BY DEF IInv
<1>3. ASSUME NEW B, WellFormed', Holds(B)', Safe(todo', B)
      PROVE  IInv'
  BY <1>3 DEF IInv
<1>4. /\ todo # <<>> /\ Head(todo).do # "again"
        => \E B : After(A, Head(todo), B) /\ Safe(Rest(todo, 1), B)
      /\ todo # <<>> /\ Head(todo).do \in {"find", "again"}
        => \E B : Defines(A, Arg(1), B) /\ Safe(Rest(todo, 6), B)
      /\ todo # <<>> /\ Head(todo).do = "again" => Arg(2) \in A.live \cap A.obj
  BY <1>1, SafeIs DEF Arg
<1>5. CASE StackStep \/ Store \/ Compile
  <2>1. todo # <<>> /\ Head(todo).do # "again" /\ todo' = Rest(todo, 1)
    BY <1>5 DEF StackStep, Store, Compile, Act, Done, Rest
  <2>2. PICK B : After(A, Head(todo), B) /\ Safe(Rest(todo, 1), B)
    BY <1>4, <2>1
  <2>3. WellFormed' /\ Holds(B)'
    BY <1>1, <1>2, <1>5, <2>2, MoveSafe, StoreSafe, CompileSafe
  <2>4. QED
    BY <1>3, <2>1, <2>2, <2>3
<1>6. CASE Allocate
  <2>1. todo # <<>> /\ Head(todo).do # "again"
    BY <1>6 DEF Allocate, Act
  <2>2. PICK B : After(A, Head(todo), B) /\ Safe(Rest(todo, 1), B)
    BY <1>4, <2>1
  <2>3. CASE UNCHANGED rooting
    <3>1. UNCHANGED <<objects, refs, roots, var>> /\ todo' = todo
      BY <2>3 DEF rooting
    <3>2. Same(A, A)
      BY DEF Same, Keeps
    <3>3. QED
      BY <1>1, <1>2, <1>3, <3>1, <3>2, QuietSafe
  <2>4. CASE ~ UNCHANGED rooting
    <3>1. WellFormed' /\ Holds(B)' /\ Done(1)
      BY <1>1, <1>2, <1>6, <2>2, <2>4, AllocateSafe
    <3>2. QED
      BY <1>3, <2>2, <3>1 DEF Done, Rest
  <2>5. QED
    BY <2>3, <2>4
<1>7. CASE Advance
  <2>0. UNCHANGED <<objects, refs, roots>>
    BY <1>7 DEF Advance
  <2>1. CASE (Act("grow") \/ Act("use") \/ Act("find")) /\ Done(1) /\ UNCHANGED var
    <3>1. todo # <<>> /\ Head(todo).do \in {"grow", "use", "find"} /\ todo' = Rest(todo, 1)
      BY <2>1 DEF Act, Done, Rest
    <3>2. PICK B : After(A, Head(todo), B) /\ Safe(Rest(todo, 1), B)
      BY <1>4, <3>1
    <3>3. Same(A, B) /\ B.reach \subseteq A.reach
      BY <3>1, <3>2 DEF After
    <3>4. QED
      BY <1>1, <1>2, <1>3, <2>0, <2>1, <3>1, <3>2, <3>3, QuietSafe
  <2>2. ASSUME Act("find") \/ Act("again"), Done(6),
               NEW o \in objects, Assign(Arg(1), o)
        PROVE  IInv'
    <3>1. todo # <<>> /\ Head(todo).do \in {"find", "again"} /\ todo' = Rest(todo, 6)
      BY <2>2 DEF Act, Done, Rest
    <3>2. PICK B : Defines(A, Arg(1), B) /\ Safe(Rest(todo, 6), B)
      BY <1>4, <3>1
    <3>3. /\ objects' = objects /\ refs' = refs /\ UNCHANGED roots /\ objects \subseteq Objects
          /\ refs \subseteq objects \X objects
      BY <1>2, <2>0 DEF WellFormed
    <3>4. o # Nil
      BY <3>3, NilIsNone
    <3>5. \A a : a = Arg(1) => WellFormed' /\ Holds(B)'
      BY <1>1, <1>2, <2>2, <3>2, <3>3, <3>4, DefinesSafe
    <3>6. QED
      BY <1>3, <3>1, <3>2, <3>5
  <2>3. CASE Act("find") /\ Done(6) /\ \E o \in Held(objects, "string") : Assign(Arg(1), o)
    BY <2>2, <2>3 DEF Held
  <2>4. CASE /\ Act("again")
             /\ IF Val(2) \in objects THEN Done(6) /\ Assign(Arg(1), Val(2)) ELSE Done(1) /\ UNCHANGED var
    <3>1. Val(2) \in objects
      <4>1. Arg(2) \in A.live \cap A.obj
        BY <1>4, <2>4 DEF Act
      <4>2. QED
        BY <1>1, <4>1 DEF Holds, Val, Alive
    <3>2. QED
      BY <2>2, <2>4, <3>1
  <2>5. ASSUME Act("take"), Done(1), NEW o \in Upvalues(Arg(2)), Assign(Arg(1), o)
        PROVE  IInv'
    <3>1. todo # <<>> /\ Head(todo).do = "take" /\ todo' = Rest(todo, 1)
      BY <2>5 DEF Act, Done, Rest
    <3>2. PICK B : Defines(A, Arg(1), B) /\ Safe(Rest(todo, 1), B)
      BY <1>4, <3>1 DEF After, Arg
    <3>3. /\ objects' = objects /\ refs' = refs /\ UNCHANGED roots /\ objects \subseteq Objects
          /\ refs \subseteq objects \X objects
      BY <1>2, <2>0 DEF WellFormed
    <3>4. o \in objects
      BY <1>2, UpvaluesExist
    <3>5. o # Nil
      BY <3>3, <3>4, NilIsNone
    <3>6. \A a : a = Arg(1) => WellFormed' /\ Holds(B)'
      BY <1>1, <1>2, <2>5, <3>2, <3>3, <3>4, <3>5, DefinesSafe
    <3>7. QED
      BY <1>3, <3>1, <3>2, <3>6
  <2>6. QED
    BY <1>7, <2>1, <2>3, <2>4, <2>5 DEF Advance
<1>8. QED
  BY <1>5, <1>6, <1>7 DEF Statement

LEMMA CollectingSafe ==
  ASSUME Limits, IInv, Collect
  PROVE  IInv'
<1>1. PICK A : Safe(todo, A) /\ Holds(A)
  BY DEF IInv
<1>2. todo # <<>> /\ Head(todo).do \in {"grow", "new"} /\ todo' = todo
  BY DEF Collect, Act
<1>3. \E B : After(A, Head(todo), B)
  BY <1>1, <1>2, SafeIs
<1>4. Rooted(A)
  BY <1>2, <1>3 DEF After
<1>5. WellFormed' /\ Holds(A)'
  BY <1>1, <1>4, CollectSafe DEF IInv
<1>6. QED
  BY <1>1, <1>2, <1>5 DEF IInv

(* An operation begins with what it finds in the state.                    *)
Fits(A, v) ==
  /\ A.top = top /\ A.undef \cap DOMAIN v = {} /\ A.const = {}
  /\ \A x \in A.live  : x \in DOMAIN v /\ v[x] \in Alive
  /\ \A x \in A.obj   : x \in DOMAIN v /\ v[x] # Nil
  /\ \A x \in A.reach : x \in DOMAIN v /\ v[x] \in Reach
  /\ \A x \in A.on    : x[1] \in DOMAIN v /\ x[2] \in 1 .. top /\ stack[x[2]] = v[x[1]]
  /\ \A x \in A.comp  : x[1] \in DOMAIN v /\ x[2] \in DOMAIN compilers
                                           /\ compilers[x[2]] = v[x[1]]

LEMMA StartSafe ==
  ASSUME NEW A, NEW v, NEW steps, WellFormed, Start(v, steps), Safe(steps, A), Fits(A, v)
  PROVE  IInv'
<1>1. /\ UNCHANGED <<objects, refs, stack, top, frames, globals, init, open, compilers>>
      /\ var' = v /\ todo' = steps
  BY DEF Start, roots
<1>2. UNCHANGED <<Alive, RootSet, Edges>> /\ Reach' = Reach
  <2>1. UNCHANGED <<Alive, RootSet, Edges>>
    BY <1>1 DEF Alive, RootSet, Values, Edges
  <2>2. Reach' = Least(RootSet', Edges')
    BY DEF Reach, Least
  <2>3. QED
    BY <2>1, <2>2 DEF Reach
<1>3. WellFormed'
  BY <1>1, <1>2 DEF WellFormed
<1>4. Holds(A)'
  BY <1>1, <1>2 DEF Holds, Fits
<1>5. QED
  BY <1>1, <1>3, <1>4 DEF IInv

-------------------------------------------------------------------------------
(* The lists of the operations.                                            *)
LEMMA ListOf ==
  /\ \A a : <<a>> = Cons(a, <<>>)
  /\ \A a, b : <<a, b>> = Cons(a, Cons(b, <<>>))
  /\ \A a, b, c : <<a, b, c>> = Cons(a, Cons(b, Cons(c, <<>>)))
  /\ \A a, b, c, d : <<a, b, c, d>> = Cons(a, Cons(b, Cons(c, Cons(d, <<>>))))
<1>1. \A a : <<a>> \o <<>> = <<a>>
  BY One, Ending
<1>2. \A a, b : <<a, b>> \o <<>> = <<a, b>>
  BY Lists, Ending
<1>3. \A a, b, c : <<a, b, c>> \o <<>> = <<a, b, c>>
  BY Lists, Ending
<1>4. \A a, b, c, d : <<a, b, c, d>> \o <<>> = <<a, b, c, d>>
  BY Lists, Ending
<1>5. \A a : <<a>> = Cons(a, <<>>)
  BY <1>1, Zenon DEF Cons
<1>6. \A a, b : <<a, b>> = Cons(a, Cons(b, <<>>))
  <2>1. SUFFICES ASSUME NEW a, NEW b
                 PROVE  <<a, b>> = Cons(a, Cons(b, <<>>))
    OBVIOUS
  <2>2. <<a, b>> \o <<>> = Cons(a, Cons(b, <<>>))
    <3> DEFINE e == <<>>
    <3>1. IsList(e)
      BY NoSteps
    <3> HIDE DEF e
    <3>2. <<a, b>> \o e = Cons(a, Cons(b, e))
      BY <3>1, Peel2
    <3>3. QED
      BY <3>2, Zenon DEF e
  <2>3. <<a, b>> \o <<>> = <<a, b>>
    BY <1>2, Zenon
  <2>4. QED
    BY <2>2, <2>3, Zenon
<1>7. \A a, b, c : <<a, b, c>> = Cons(a, Cons(b, Cons(c, <<>>)))
  <2>1. SUFFICES ASSUME NEW a, NEW b, NEW c
                 PROVE  <<a, b, c>> = Cons(a, Cons(b, Cons(c, <<>>)))
    OBVIOUS
  <2>2. <<a, b, c>> \o <<>> = Cons(a, Cons(b, Cons(c, <<>>)))
    <3> DEFINE e == <<>>
    <3>1. IsList(e)
      BY NoSteps
    <3> HIDE DEF e
    <3>2. <<a, b, c>> \o e = Cons(a, Cons(b, Cons(c, e)))
      BY <3>1, Peel3
    <3>3. QED
      BY <3>2, Zenon DEF e
  <2>3. <<a, b, c>> \o <<>> = <<a, b, c>>
    BY <1>3, Zenon
  <2>4. QED
    BY <2>2, <2>3, Zenon
<1>8. \A a, b, c, d : <<a, b, c, d>> = Cons(a, Cons(b, Cons(c, Cons(d, <<>>))))
  <2>1. SUFFICES ASSUME NEW a, NEW b, NEW c, NEW d
                 PROVE  <<a, b, c, d>> = Cons(a, Cons(b, Cons(c, Cons(d, <<>>))))
    OBVIOUS
  <2>2. <<a, b, c, d>> \o <<>> = Cons(a, Cons(b, Cons(c, Cons(d, <<>>))))
    <3> DEFINE e == <<>>
    <3>1. IsList(e)
      BY NoSteps
    <3> HIDE DEF e
    <3>2. <<a, b, c, d>> \o e = Cons(a, Cons(b, Cons(c, Cons(d, e))))
      BY <3>1, Peel4
    <3>3. QED
      BY <3>2, Zenon DEF e
  <2>3. <<a, b, c, d>> \o <<>> = <<a, b, c, d>>
    BY <1>4, Zenon
  <2>4. QED
    BY <2>2, <2>3, Zenon
<1>9. QED
  BY <1>5, <1>6, <1>7, <1>8, Zenon

LEMMA ConsIs ==
  /\ \A a, b : <<a, b>> = Cons(a, <<b>>)
  /\ \A a, b, c : <<a, b, c>> = Cons(a, <<b, c>>)
  /\ \A a, b, c, d : <<a, b, c, d>> = Cons(a, <<b, c, d>>)
BY Split2, Split3, Split4, Zenon DEF Cons

LEMMA Cons3 ==
  ASSUME NEW a, NEW b, NEW c
  PROVE  <<a, b, c>> = Cons(a, Cons(b, <<c>>))
<1>1. <<a, b, c>> = Cons(a, <<b, c>>)
  BY ConsIs, ZenonT(40)
<1>2. <<b, c>> = Cons(b, <<c>>)
  BY ConsIs, Zenon
<1>3. QED
  BY <1>1, <1>2, Zenon

LEMMA Cons4 ==
  ASSUME NEW a, NEW b, NEW c, NEW d
  PROVE  <<a, b, c, d>> = Cons(a, Cons(b, Cons(c, <<d>>)))
<1>1. <<a, b, c, d>> = Cons(a, <<b, c, d>>)
  BY Split4, Zenon DEF Cons
<1>2. <<b, c, d>> = Cons(b, Cons(c, <<d>>))
  BY Cons3, Zenon
<1>3. QED
  BY <1>1, <1>2, Zenon

(* Two ways on: the search finds the string, or goes on with q.            *)
LEMMA SafeChoice ==
  ASSUME NEW s, NEW q, NEW r, NEW A, NEW B, IsList(q), Len(q) = 5, Safe(r, B),
         s.reads = {}, Defines(A, s.args[1], B), Reads(q \o r, A),
         \/ /\ s.do = "find"
            /\ \E C : Safe(q \o r, C) /\ After(A, s, C)
         \/ s.do = "again" /\ s.args[2] \in A.live \cap A.obj
  PROVE  Safe(Cons(s, q \o r), A)
<1> DEFINE u == q \o r
           t == Cons(s, u)
<1>1. IsList(r)
  BY SafeIs
<1>2. IsList(u)
  BY <1>1, JoinedLists
<1>3. IsList(t) /\ Head(t) = s /\ t # <<>> /\ Rest(t, 1) = u
  <2> HIDE DEF u
  <2>1. QED
    BY <1>2, Peel DEF Rest
<1>4. Reads(t, A)
  BY <1>2, ReadsMore
<1>5. Rest(t, 6) = r
  <2> DEFINE p == <<s>>
  <2>1. IsList(p) /\ Len(p) = 1
    BY One, Zenon
  <2>2. t = p \o (q \o r)
    BY Zenon DEF Cons
  <2> HIDE DEF p
  <2>3. t = (p \o q) \o r
    BY <1>1, <2>1, <2>2, JoinAssociates, SMTT(40)
  <2>4. IsList(p \o q) /\ Len(p \o q) = 6
    <3>1. IsList(p \o q) /\ Len(p \o q) = Len(p) + Len(q)
      BY <2>1, JoinedLists
    <3>2. QED
      BY <2>1, <3>1
  <2> HIDE DEF t
  <2>5. QED
    BY <1>1, <2>3, <2>4, JoinedLists DEF Rest
<1>6. PICK G : <<r, B>> \in G /\ Chained(G)
  BY DEF Safe
<1> HIDE DEF t
<1>7. ASSUME s.do = "find"
      PROVE  Safe(t, A)
  <2>1. PICK C : Safe(q \o r, C) /\ After(A, s, C)
    BY <1>7
  <2>2. PICK H : <<q \o r, C>> \in H /\ Chained(H)
    BY <2>1 DEF Safe
  <2>3. Chained(G \cup H)
    BY <1>6, <2>2, ChainedTogether
  <2>4. Goes(t, A, G \cup H)
    BY <1>3, <1>5, <1>6, <1>7, <2>1, <2>2 DEF Goes
  <2>5. QED
    BY <1>3, <1>4, <2>3, <2>4, ChainedMore
<1>8. ASSUME s.do = "again", s.args[2] \in A.live \cap A.obj
      PROVE  Safe(t, A)
  <2>1. Goes(t, A, G)
    BY <1>3, <1>5, <1>6, <1>8 DEF Goes
  <2>2. QED
    BY <1>3, <1>4, <1>6, <2>1, ChainedMore
<1>9. QED
  BY <1>7, <1>8 DEF t

LEMMA SafeGrow ==
  ASSUME NEW r, NEW A, NEW B, Safe(r, B), Rooted(A), Same(A, B), B.reach \subseteq A.reach
  PROVE  Safe(Cons(Grow, r), A)
<1>1. Grow.do = "grow" /\ Grow.reads = {}
  BY StepIs DEF Grow
<1>2. After(A, Grow, B)
  BY <1>1 DEF After
<1>3. QED
  BY <1>1, <1>2, SafeCons DEF Same, Keeps

LEMMA SafeNew ==
  ASSUME NEW r, NEW A, NEW B, NEW v, NEW kind \in Kinds, NEW S, Safe(r, B), Rooted(A),
         S \subseteq A.live \cap A.obj, Defines(A, v, B)
  PROVE  Safe(Cons(Make(v, kind, S), r), A)
<1> DEFINE s == Make(v, kind, S)
<1>1. s.do = "new" /\ s.reads = S /\ s.args[1] = v /\ s.args[2] = kind
  BY StepIs DEF Make
<1> HIDE DEF s
<1>2. After(A, s, B)
  BY <1>1 DEF After
<1>3. B.live \cup B.undef \subseteq A.live \cup A.undef
  BY DEF Defines
<1>4. Safe(Cons(s, r), A)
  BY <1>1, <1>2, <1>3, SafeCons
<1>5. QED
  BY <1>4 DEF s

LEMMA SafeUse ==
  ASSUME NEW r, NEW A, NEW B, NEW S, Safe(r, B), S \subseteq A.live, Same(A, B),
         B.reach \subseteq A.reach
  PROVE  Safe(Cons(Use(S), r), A)
<1>1. Use(S).do = "use" /\ Use(S).reads = S
  BY StepIs DEF Use
<1>2. After(A, Use(S), B)
  BY <1>1 DEF After
<1>3. QED
  BY <1>1, <1>2, SafeCons DEF Same, Keeps

LEMMA SafePush ==
  ASSUME NEW r, NEW A, NEW B, NEW v, Safe(r, B), v \in A.live, A.top < StackMax,
         Keeps(A, B), B.top = A.top + 1, B.reach = {},
         B.on \subseteq A.on \cup {<<v, A.top + 1>>},
         B.comp \subseteq A.comp, B.const \subseteq A.const
  PROVE  Safe(Cons(Push(v), r), A)
<1> DEFINE s == Push(v)
<1>1. s.do = "push" /\ s.reads = {v} /\ s.args[1] = v
  BY StepIs DEF Push
<1> HIDE DEF s
<1>2. After(A, s, B)
  BY <1>1 DEF After
<1>3. Safe(Cons(s, r), A)
  BY <1>1, <1>2, SafeCons DEF Keeps
<1>4. QED
  BY <1>3 DEF s

LEMMA SafePop ==
  ASSUME NEW r, NEW A, NEW B, Safe(r, B), A.top > 0,
         Keeps(A, B), B.top = A.top - 1, B.reach = {},
         B.on \subseteq {x \in A.on : x[2] < A.top},
         B.comp \subseteq A.comp, B.const \subseteq A.const
  PROVE  Safe(Cons(Pop, r), A)
<1>1. Pop.do = "pop" /\ Pop.reads = {}
  BY StepIs DEF Pop
<1>2. After(A, Pop, B)
  BY <1>1 DEF After
<1>3. QED
  BY <1>1, <1>2, SafeCons DEF Keeps

LEMMA SafePut ==
  ASSUME NEW r, NEW A, NEW B, NEW v, Safe(r, B), v \in A.live, A.top > 0, Same(A, B),
         B.reach = {}, B.on = {}
  PROVE  Safe(Cons(Put(v), r), A)
<1> DEFINE s == Put(v)
<1>1. s.do = "put" /\ s.reads = {v} /\ s.args[1] = v
  BY StepIs DEF Put
<1> HIDE DEF s
<1>2. After(A, s, B)
  BY <1>1 DEF After
<1>3. Safe(Cons(s, r), A)
  BY <1>1, <1>2, SafeCons DEF Same, Keeps
<1>4. QED
  BY <1>3 DEF s

LEMMA SafeLink ==
  ASSUME NEW r, NEW A, NEW B, NEW v, NEW w, Safe(r, B), v \in A.live \cap A.obj, w \in A.live,
         Keeps(A, B), B.top = A.top, B.reach \subseteq A.reach, B.on \subseteq A.on,
         B.comp \subseteq A.comp,
         B.const \subseteq A.const \cup (IF v \in NamesIn(A.comp) THEN {w} ELSE {})
  PROVE  Safe(Cons(Link(v, w), r), A)
<1> DEFINE s == Link(v, w)
<1>1. s.do = "link" /\ s.reads = {v, w} /\ s.args[1] = v /\ s.args[2] = w
  BY StepIs DEF Link
<1> HIDE DEF s
<1>2. After(A, s, B)
  BY <1>1 DEF After
<1>3. Safe(Cons(s, r), A)
  BY <1>1, <1>2, SafeCons DEF Keeps
<1>4. QED
  BY <1>3 DEF s

LEMMA SafeStore ==
  ASSUME NEW r, NEW A, NEW B, NEW v, Safe(r, B), Same(A, B), B.reach = {}
  PROVE  /\ v \in A.live => Safe(Cons(InitName(v), r), A)
         /\ \A w : v \in A.live /\ w \in A.live => Safe(Cons(Global(v, w), r), A)
         /\ \A slot : v \in A.live \cap A.obj /\ slot \in 1 .. A.top
                       => Safe(Cons(Open(v, slot), r), A)
         /\ \A slot : v \in A.live /\ slot \in 1 .. StackMax
                       => Safe(Cons(Call(v, slot), r), A)
         /\ v \in A.live \cap A.obj /\ B.comp = {} => Safe(Cons(Enter(v), r), A)
         /\ \A w, S : v \in A.live \cap A.obj /\ w \in A.live \cap A.obj /\ B.const = {}
                      => Safe(Cons(Capture(v, w, S), r), A)
<1>0. B.live \cup B.undef \subseteq A.live \cup A.undef
  BY DEF Same, Keeps
<1>1. ASSUME v \in A.live PROVE Safe(Cons(InitName(v), r), A)
  <2> DEFINE s == InitName(v)
  <2>1. s.do = "init" /\ s.reads = {v} /\ s.args[1] = v
    BY StepIs DEF InitName
  <2> HIDE DEF s
  <2>2. After(A, s, B)
    BY <1>1, <2>1 DEF After
  <2>3. Safe(Cons(s, r), A)
    BY <1>0, <1>1, <2>1, <2>2, SafeCons
  <2>4. QED
    BY <2>3 DEF s
<1>2. ASSUME NEW w, v \in A.live, w \in A.live PROVE Safe(Cons(Global(v, w), r), A)
  <2> DEFINE s == Global(v, w)
  <2>1. s.do = "global" /\ s.reads = {v, w} /\ s.args[1] = v /\ s.args[2] = w
    BY StepIs DEF Global
  <2> HIDE DEF s
  <2>2. After(A, s, B)
    BY <1>2, <2>1 DEF After
  <2>3. Safe(Cons(s, r), A)
    BY <1>0, <1>2, <2>1, <2>2, SafeCons
  <2>4. QED
    BY <2>3 DEF s
<1>3. ASSUME NEW slot, v \in A.live \cap A.obj, slot \in 1 .. A.top
      PROVE  Safe(Cons(Open(v, slot), r), A)
  <2> DEFINE s == Open(v, slot)
  <2>1. s.do = "open" /\ s.reads = {v} /\ s.args[1] = v /\ s.args[2] = slot
    BY StepIs DEF Open
  <2> HIDE DEF s
  <2>2. After(A, s, B)
    BY <1>3, <2>1 DEF After
  <2>3. Safe(Cons(s, r), A)
    BY <1>0, <1>3, <2>1, <2>2, SafeCons
  <2>4. QED
    BY <2>3 DEF s
<1>4. ASSUME NEW slot, v \in A.live, slot \in 1 .. StackMax
      PROVE  Safe(Cons(Call(v, slot), r), A)
  <2> DEFINE s == Call(v, slot)
  <2>1. s.do = "call" /\ s.reads = {v} /\ s.args[1] = v /\ s.args[2] = slot
    BY StepIs DEF Call
  <2> HIDE DEF s
  <2>2. After(A, s, B)
    BY <1>4, <2>1 DEF After
  <2>3. Safe(Cons(s, r), A)
    BY <1>0, <1>4, <2>1, <2>2, SafeCons
  <2>4. QED
    BY <2>3 DEF s
<1>5. ASSUME v \in A.live \cap A.obj, B.comp = {} PROVE Safe(Cons(Enter(v), r), A)
  <2> DEFINE s == Enter(v)
  <2>1. s.do = "enter" /\ s.reads = {v} /\ s.args[1] = v
    BY StepIs DEF Enter
  <2> HIDE DEF s
  <2>2. After(A, s, B)
    BY <1>5, <2>1 DEF After
  <2>3. Safe(Cons(s, r), A)
    BY <1>0, <1>5, <2>1, <2>2, SafeCons
  <2>4. QED
    BY <2>3 DEF s
<1>6. ASSUME NEW w, NEW S, v \in A.live \cap A.obj, w \in A.live \cap A.obj, B.const = {}
      PROVE  Safe(Cons(Capture(v, w, S), r), A)
  <2> DEFINE s == Capture(v, w, S)
  <2>1. s.do = "capture" /\ s.reads = {v, w} /\ s.args[1] = v /\ s.args[2] = w
    BY StepIs DEF Capture
  <2> HIDE DEF s
  <2>2. After(A, s, B)
    BY <1>6, <2>1 DEF After
  <2>3. Safe(Cons(s, r), A)
    BY <1>0, <1>6, <2>1, <2>2, SafeCons
  <2>4. QED
    BY <2>3 DEF s
<1>7. QED
  BY <1>1, <1>2, <1>3, <1>4, <1>5, <1>6

LEMMA SafeLeave ==
  ASSUME NEW r, NEW A, NEW B, NEW v, Safe(r, B), <<v, 1>> \in A.comp,
         Keeps(A, B), B.top = A.top, B.reach = {}, B.on \subseteq A.on,
         B.comp \subseteq {<<x[1], x[2] - 1>> : x \in {y \in A.comp : y[2] > 1}},
         B.const = {}
  PROVE  Safe(Cons(Leave, r), A)
<1>1. Leave.do = "leave" /\ Leave.reads = {}
  BY StepIs DEF Leave
<1>2. After(A, Leave, B)
  BY <1>1 DEF After
<1>3. QED
  BY <1>1, <1>2, SafeCons DEF Keeps

(* StringObj_construct.                                                    *)
LEMMA AllocationIs ==
  ASSUME NEW v, NEW r, IsList(r)
  PROVE  /\ IsList(Allocation(v)) /\ Len(Allocation(v)) = 5
         /\ Allocation(v) \o r
              = Cons(Grow, Cons(Make(v, "string", {}), Cons(Push(v), Cons(Grow, Cons(Pop, r)))))
         /\ IsList(Allocation(v) \o r)
<1> DEFINE a == Grow
           b == Make(v, "string", {})
           c == Push(v)
           d == Pop
<1>1. Allocation(v) = <<a, b, c, a, d>>
  BY Zenon DEF Allocation
<1> HIDE DEF a, b, c, d
<1>2. IsList(Allocation(v)) /\ Len(Allocation(v)) = 5
  BY <1>1, Lists
<1>3. Allocation(v) \o r = Cons(a, Cons(b, Cons(c, Cons(a, Cons(d, r)))))
  <2>1. <<a, b, c, a, d>> \o r = Cons(a, Cons(b, Cons(c, Cons(a, Cons(d, r)))))
    BY Peel5
  <2>2. QED
    BY <1>1, <2>1, Zenon
<1>4. QED
  BY <1>2, <1>3, JoinedLists DEF a, b, c, d

LEMMA SafeAllocation ==
  ASSUME NEW A, NEW B, NEW v, NEW r, Safe(r, B), Defines(A, v, B), A.top < StackMax,
         B.live \subseteq {v} \cup NamesIn(B.on) \cup NamesIn(B.comp) \cup B.const,
         B.reach = {}, \A x \in B.on : x[2] < A.top + 1, A.top \in Nat
  PROVE  /\ Reads(Allocation(v) \o r, A)
         /\ \E C : /\ Safe(Allocation(v) \o r, C)
                  /\ Same(A, C) /\ C.reach = {}
<1> DEFINE n  == A.top
           A1 == Known(n, B.undef \cup {v}, B.live \ {v}, B.obj \ {v}, {}, B.on, B.comp, B.const)
           A2 == Known(n, B.undef, B.live \cup {v}, B.obj, {}, B.on, B.comp, B.const)
           A3 == Known(n + 1, B.undef, B.live \cup {v}, B.obj, {},
                       B.on \cup {<<v, n + 1>>}, B.comp, B.const)
           r1 == Cons(Pop, r)
           r2 == Cons(Grow, r1)
           r3 == Cons(Push(v), r2)
           r4 == Cons(Make(v, "string", {}), r3)
           r5 == Cons(Grow, r4)
<1>0. IsList(r) /\ Reads(r, B)
  BY SafeIs
<1>1. /\ v \in A.undef /\ B.top = n /\ B.undef \subseteq A.undef \ {v}
      /\ B.live \subseteq A.live \cup {v} /\ B.obj \subseteq A.obj \cup {v}
      /\ B.on \subseteq A.on /\ B.comp \subseteq A.comp /\ B.const \subseteq A.const
  BY DEF Defines
<1>2. /\ A1.top = n /\ A1.undef = B.undef \cup {v} /\ A1.live = B.live \ {v}
      /\ A1.obj = B.obj \ {v} /\ A1.reach = {} /\ A1.on = B.on /\ A1.comp = B.comp
      /\ A1.const = B.const
  BY KnownIs
<1>3. /\ A2.top = n /\ A2.undef = B.undef /\ A2.live = B.live \cup {v}
      /\ A2.obj = B.obj /\ A2.reach = {} /\ A2.on = B.on /\ A2.comp = B.comp
      /\ A2.const = B.const
  BY KnownIs
<1>4. /\ A3.top = n + 1 /\ A3.undef = B.undef /\ A3.live = B.live \cup {v}
      /\ A3.obj = B.obj /\ A3.reach = {} /\ A3.on = B.on \cup {<<v, n + 1>>}
      /\ A3.comp = B.comp /\ A3.const = B.const
  BY KnownIs
<1> HIDE DEF A1, A2, A3, n
<1>n. n \in Nat /\ n < StackMax /\ (n + 1) - 1 = n /\ n + 1 > 0
  BY DEF n
<1>5. Safe(r1, A3)
  <2>1. B.on \subseteq {x \in A3.on : x[2] < A3.top}
    BY <1>4 DEF n
  <2>2. Keeps(A3, B)
    BY <1>4 DEF Keeps
  <2>3. QED
    BY <1>1, <1>4, <1>n, <2>1, <2>2, SafePop
<1>6. Rooted(A3) /\ Rooted(A1)
  <2>1. NamesIn(B.on) \cup {v} \subseteq NamesIn(A3.on)
    <3>1. <<v, n + 1>>[1] = v /\ <<v, n + 1>> \in A3.on
      BY <1>4
    <3>2. v \in NamesIn(A3.on)
      BY <3>1, Zenon DEF NamesIn
    <3>3. B.on \subseteq A3.on
      BY <1>4
    <3>4. NamesIn(B.on) \subseteq NamesIn(A3.on)
      BY <3>3 DEF NamesIn
    <3>5. QED
      BY <3>2, <3>4
  <2>2. QED
    BY <1>2, <1>4, <2>1 DEF Rooted
<1>7. Safe(r2, A3)
  <2>1. Same(A3, A3)
    BY DEF Same, Keeps
  <2> HIDE DEF r1
  <2>2. QED
    BY <1>5, <1>6, <2>1, SafeGrow
<1>8. Safe(r3, A2)
  <2>1. Keeps(A2, A3)
    BY <1>3, <1>4 DEF Keeps
  <2> HIDE DEF r2
  <2>2. QED
    BY <1>3, <1>4, <1>7, <1>n, <2>1, SafePush
<1>9. Safe(r4, A1)
  <2>1. Defines(A1, v, A2)
    BY <1>1, <1>2, <1>3 DEF Defines
  <2>2. "string" \in Kinds
    BY DEF Kinds
  <2> HIDE DEF r3
  <2>3. QED
    BY <1>6, <1>8, <2>1, <2>2, SafeNew
<1>10. Safe(r5, A1)
  <2>1. Same(A1, A1)
    BY DEF Same, Keeps
  <2> HIDE DEF r4
  <2>2. QED
    BY <1>6, <1>9, <2>1, SafeGrow
<1>11. Same(A, A1)
  BY <1>1, <1>2 DEF Same, Keeps, n
<1>12. Allocation(v) \o r = r5
  BY <1>0, AllocationIs, Zenon
<1>13. Reads(r5, A)
  <2>1. Reads(r5, A1)
    BY <1>10, SafeIs
  <2>2. A1.live \cup A1.undef \subseteq A.live \cup A.undef
    BY <1>11 DEF Same, Keeps
  <2> HIDE DEF r5
  <2>3. QED
    BY <2>1, <2>2 DEF Reads
<1> HIDE DEF r5
<1>14. QED
  BY <1>2, <1>10, <1>11, <1>12, <1>13

LEMMA SafeConstruct ==
  ASSUME NEW A, NEW B, NEW v, NEW r, Safe(r, B), Defines(A, v, B), A.top < StackMax,
         B.live \subseteq {v} \cup NamesIn(B.on) \cup NamesIn(B.comp) \cup B.const,
         B.reach = {}, \A x \in B.on : x[2] < A.top + 1, A.top \in Nat
  PROVE  Safe(ConstructString(v) \o r, A)
<1> DEFINE s == Step("find", {}, <<v>>)
           q == Allocation(v)
           p == <<s>>
<1>1. IsList(r) /\ IsList(q) /\ Len(q) = 5
  BY SafeIs, AllocationIs
<1>2. s.do = "find" /\ s.reads = {} /\ s.args[1] = v
  BY StepIs
<1>3. PICK C : Safe(q \o r, C) /\ Same(A, C) /\ C.reach = {}
  BY SafeAllocation
<1>4. Reads(q \o r, A)
  BY SafeAllocation
<1>5. ConstructString(v) = p \o q
  BY Zenon DEF ConstructString
<1>6. IsList(p)
  BY One, Zenon
<1>7. Cons(s, q \o r) = p \o (q \o r)
  BY Zenon DEF Cons
<1> HIDE DEF s, q, p
<1>8. Safe(Cons(s, q \o r), A)
  <2>1. After(A, s, C)
    BY <1>2, <1>3 DEF After
  <2>2. QED
    BY <1>1, <1>2, <1>3, <1>4, <2>1, SafeChoice
<1>9. ConstructString(v) \o r = Cons(s, q \o r)
  BY <1>1, <1>5, <1>6, <1>7, JoinAssociates, SMTT(40)
<1>10. QED
  BY <1>8, <1>9

(* The same once more: the string w is there, and found.                   *)
LEMMA SafeAgain ==
  ASSUME NEW A, NEW B, NEW v, NEW w, NEW r, Safe(r, B), Defines(A, v, B),
         w \in A.live \cap A.obj
  PROVE  Safe(Again(v, w) \o r, A)
<1> DEFINE s == Step("again", {}, <<v, w>>)
           q == Allocation(v)
           p == <<s>>
<1>1. IsList(r) /\ Reads(r, B) /\ IsList(q) /\ Len(q) = 5
  BY SafeIs, AllocationIs
<1>2. s.do = "again" /\ s.reads = {} /\ s.args[1] = v /\ s.args[2] = w
  BY StepIs
<1>3. Reads(q \o r, A)
  <2> DEFINE r1 == Cons(Pop, r)
             r2 == Cons(Grow, r1)
             r3 == Cons(Push(v), r2)
             r4 == Cons(Make(v, "string", {}), r3)
             r5 == Cons(Grow, r4)
  <2>1. /\ Pop.reads = {} /\ Grow.reads = {} /\ Push(v).reads = {v}
        /\ Make(v, "string", {}).reads = {}
    BY StepIs DEF Pop, Grow, Push, Make
  <2>2. v \in A.undef /\ B.live \cup B.undef \subseteq A.live \cup A.undef
    BY DEF Defines
  <2>3. Reads(r1, A) /\ IsList(r1)
    BY <1>1, <2>1, <2>2, ReadsMore, Peel
  <2> HIDE DEF r1
  <2>4. Reads(r2, A) /\ IsList(r2)
    BY <2>1, <2>3, ReadsMore, Peel
  <2> HIDE DEF r2
  <2>5. Reads(r3, A) /\ IsList(r3)
    BY <2>1, <2>2, <2>4, ReadsMore, Peel
  <2> HIDE DEF r3
  <2>6. Reads(r4, A) /\ IsList(r4)
    BY <2>1, <2>5, ReadsMore, Peel
  <2> HIDE DEF r4
  <2>7. Reads(r5, A)
    BY <2>1, <2>6, ReadsMore, Peel
  <2>8. q \o r = r5
    BY <1>1, AllocationIs, Zenon DEF r1, r2, r3, r4
  <2>9. QED
    BY <2>7, <2>8, Zenon
<1>5. Again(v, w) = p \o q
  BY Zenon DEF Again
<1>6. IsList(p)
  BY One, Zenon
<1>7. Cons(s, q \o r) = p \o (q \o r)
  BY Zenon DEF Cons
<1> HIDE DEF s, q, p
<1>8. Safe(Cons(s, q \o r), A)
  BY <1>1, <1>2, <1>3, SafeChoice
<1>9. Again(v, w) \o r = Cons(s, q \o r)
  BY <1>1, <1>5, <1>6, <1>7, JoinAssociates
<1>10. QED
  BY <1>8, <1>9

(* chunk_add_const: f is the function of a Compiler, v becomes a constant. *)
LEMMA SafeAddConst ==
  ASSUME NEW A, NEW B, NEW f, NEW v, NEW r, Safe(r, B), A.top < StackMax, A.top \in Nat,
         f \in A.live \cap A.obj \cap NamesIn(A.comp), v \in A.live,
         Keeps(A, B), B.top = A.top, B.reach = {}, B.on \subseteq A.on,
         \A x \in B.on : x[2] < A.top + 1, B.comp \subseteq A.comp,
         B.const \subseteq A.const \cup {v},
         B.live \subseteq {v} \cup NamesIn(A.on) \cup NamesIn(A.comp) \cup A.const
  PROVE  Safe(AddConst(f, v) \o r, A)
<1> DEFINE n  == A.top
           l  == B.live \cup {f, v}
           A1 == Known(n + 1, B.undef, l, B.obj \cup {f}, {},
                       A.on \cup {<<v, n + 1>>}, A.comp, A.const)
           A2 == Known(n + 1, B.undef, l, B.obj \cup {f}, {},
                       A.on \cup {<<v, n + 1>>}, A.comp, A.const \cup {v})
           r1 == Cons(Pop, r)
           r2 == Cons(Link(f, v), r1)
           r3 == Cons(Grow, r2)
           r4 == Cons(Push(v), r3)
<1>0. IsList(r)
  BY SafeIs
<1>1. /\ A1.top = n + 1 /\ A1.undef = B.undef /\ A1.live = l /\ A1.obj = B.obj \cup {f}
      /\ A1.reach = {} /\ A1.on = A.on \cup {<<v, n + 1>>} /\ A1.comp = A.comp
      /\ A1.const = A.const
  BY KnownIs
<1>2. /\ A2.top = n + 1 /\ A2.undef = B.undef /\ A2.live = l /\ A2.obj = B.obj \cup {f}
      /\ A2.reach = {} /\ A2.on = A.on \cup {<<v, n + 1>>} /\ A2.comp = A.comp
      /\ A2.const = A.const \cup {v}
  BY KnownIs
<1>n. A.top = n /\ n \in Nat /\ n < StackMax /\ (n + 1) - 1 = n /\ n + 1 > 0
  OBVIOUS
<1>l. f \in l /\ v \in l /\ l = B.live \cup {f, v}
  OBVIOUS
<1> HIDE DEF A1, A2, n, l
<1>3. Safe(r1, A2)
  <2>1. B.on \subseteq {x \in A2.on : x[2] < A2.top}
    BY <1>2, <1>n
  <2>2. Keeps(A2, B)
    BY <1>2, <1>l DEF Keeps
  <2>3. QED
    BY <1>2, <1>n, <2>1, <2>2, SafePop
<1>4. Safe(r2, A1)
  <2>1. Keeps(A1, A2)
    BY <1>1, <1>2 DEF Keeps
  <2>2. A2.const \subseteq A1.const \cup (IF f \in NamesIn(A1.comp) THEN {v} ELSE {})
    BY <1>1, <1>2
  <2> HIDE DEF r1
  <2>3. QED
    BY <1>1, <1>2, <1>3, <1>l, <2>1, <2>2, SafeLink
<1>5. Safe(r3, A1)
  <2>1. Rooted(A1)
    <3>1. <<v, n + 1>>[1] = v /\ <<v, n + 1>> \in A1.on
      BY <1>1
    <3>2. v \in NamesIn(A1.on)
      BY <3>1, Zenon DEF NamesIn
    <3>3. A.on \subseteq A1.on
      BY <1>1
    <3>4. NamesIn(A.on) \subseteq NamesIn(A1.on)
      BY <3>3 DEF NamesIn
    <3>5. QED
      BY <1>1, <1>l, <3>2, <3>4 DEF Rooted
  <2>2. Same(A1, A1)
    BY DEF Same, Keeps
  <2> HIDE DEF r2
  <2>3. QED
    BY <1>4, <2>1, <2>2, SafeGrow
<1>6. Safe(r4, A)
  <2>1. Keeps(A, A1)
    BY <1>1, <1>l DEF Keeps
  <2> HIDE DEF r3
  <2>2. QED
    BY <1>1, <1>5, <1>n, <2>1, SafePush
<1>7. AddConst(f, v) \o r = r4
  <2> DEFINE a == Push(v)
             b == Grow
             c == Link(f, v)
             d == Pop
  <2>1. AddConst(f, v) = <<a, b, c, d>>
    BY Zenon DEF AddConst
  <2>2. r4 = Cons(a, Cons(b, Cons(c, Cons(d, r))))
    BY Zenon
  <2> HIDE DEF a, b, c, d, r4
  <2>3. <<a, b, c, d>> \o r = Cons(a, Cons(b, Cons(c, Cons(d, r))))
    BY <1>0, Peel4
  <2>4. QED
    BY <2>1, <2>2, <2>3, Zenon
<1> HIDE DEF r4
<1>8. QED
  BY <1>6, <1>7

LEMMA ConstructList ==
  \A f, v : /\ IsList(ConstructString(v)) /\ IsList(AddConst(f, v)) /\ IsList(Identifier(v))
            /\ IsList(Again(f, v))
<1>1. SUFFICES ASSUME NEW f, NEW v
               PROVE  /\ IsList(ConstructString(v)) /\ IsList(AddConst(f, v)) /\ IsList(Identifier(v))
                      /\ IsList(Again(f, v))
  OBVIOUS
<1>2. \A w : IsList(Allocation(w))
  BY NoSteps, AllocationIs
<1>3. IsList(AddConst(f, v))
  BY Lists, Zenon DEF AddConst
<1>4. \A s, w : IsList(<<s>> \o Allocation(w))
  <2>1. SUFFICES ASSUME NEW s, NEW w
                 PROVE  IsList(<<s>> \o Allocation(w))
    OBVIOUS
  <2> DEFINE p == <<s>>
  <2>2. IsList(p)
    BY One, Zenon
  <2> HIDE DEF p
  <2>3. IsList(p \o Allocation(w))
    BY <1>2, <2>2, JoinedLists
  <2>4. QED
    BY <2>3 DEF p
<1>5. IsList(ConstructString(v)) /\ IsList(Again(f, v))
  BY <1>4, Zenon DEF ConstructString, Again
<1>6. \A w : IsList(AddConst(w, v))
  BY Lists, Zenon DEF AddConst
<1>7. IsList(ConstructString(v) \o AddConst("current", v))
  BY <1>5, <1>6, JoinedLists
<1>8. QED
  BY <1>3, <1>5, <1>7 DEF Identifier

(* identifier_constant, for the function of the current Compiler.          *)
LEMMA SafeIdentifier ==
  ASSUME NEW n \in Nat, n < StackMax, NEW u, NEW v, NEW r, v \notin u, v # "current",
         Safe(r, Known(n, u, {"current", v}, {"current", v}, {}, {}, {<<"current", 1>>}, {v}))
  PROVE  Safe(Identifier(v) \o r,
              Known(n, u \cup {v}, {"current"}, {"current"}, {}, {}, {<<"current", 1>>}, {}))
<1> DEFINE c == {<<"current", 1>>}
           A == Known(n, u \cup {v}, {"current"}, {"current"}, {}, {}, c, {})
           B == Known(n, u, {"current", v}, {"current", v}, {}, {}, c, {})
           C == Known(n, u, {"current", v}, {"current", v}, {}, {}, c, {v})
           q == AddConst("current", v)
<1>1. /\ A.top = n /\ A.undef = u \cup {v} /\ A.live = {"current"} /\ A.obj = {"current"}
      /\ A.reach = {} /\ A.on = {} /\ A.comp = c /\ A.const = {}
  BY KnownIs
<1>2. /\ B.top = n /\ B.undef = u /\ B.live = {"current", v} /\ B.obj = {"current", v}
      /\ B.reach = {} /\ B.on = {} /\ B.comp = c /\ B.const = {}
  BY KnownIs
<1>3. /\ C.top = n /\ C.undef = u /\ C.live = {"current", v} /\ C.obj = {"current", v}
      /\ C.reach = {} /\ C.on = {} /\ C.comp = c /\ C.const = {v}
  BY KnownIs
<1>4. NamesIn(c) = {"current"}
  BY DEF NamesIn
<1>5. Safe(r, C)
  OBVIOUS
<1> HIDE DEF A, B, C, c
<1>6. Safe(q \o r, B)
  <2>1. Keeps(B, C)
    BY <1>2, <1>3 DEF Keeps
  <2>2. QED
    BY <1>2, <1>3, <1>4, <1>5, <2>1, SafeAddConst
<1>7. Safe(ConstructString(v) \o (q \o r), A)
  <2>1. Defines(A, v, B)
    BY <1>1, <1>2 DEF Defines
  <2> HIDE DEF q
  <2>2. QED
    BY <1>1, <1>2, <1>4, <1>6, <2>1, SafeConstruct
<1>8. ConstructString(v) \o (q \o r) = Identifier(v) \o r
  <2>1. IsList(ConstructString(v)) /\ IsList(q) /\ IsList(r)
    BY <1>5, SafeIs, ConstructList
  <2>2. Identifier(v) = ConstructString(v) \o q
    BY Zenon DEF Identifier
  <2> HIDE DEF q
  <2>3. QED
    BY <2>1, <2>2, JoinAssociates
<1>9. QED
  BY <1>7, <1>8 DEF A, c

-------------------------------------------------------------------------------
(* What the operations find in the state.                                  *)
LEMMA HeldIs ==
  ASSUME NEW S, NEW kind, NEW o \in Held(S, kind), kind # "nil"
  PROVE  o \in S /\ o # Nil
BY DEF Held, Nil

LEMMA ChildrenReach ==
  ASSUME WellFormed, NEW o \in Reach
  PROVE  Children(o) \subseteq Reach
<1>1. Under(Reach, Edges)
  BY ReachAlive, LeastIs DEF Reach
<1>2. QED
  BY <1>1, UnderChildren

LEMMA RootReach ==
  ASSUME WellFormed
  PROVE  RootSet \subseteq Reach /\ Reach \subseteq Alive
BY ReachAlive, LeastIs DEF Reach

LEMMA FrameIs ==
  ASSUME WellFormed, Running
  PROVE  /\ Frame.closure \in Reach /\ Frame.slot \in 1 .. StackMax
         /\ Code \subseteq Reach /\ Children(Frame.closure) \subseteq Reach
<1>1. PICK S : frames \in Seq(S)
  BY DEF WellFormed
<1>2. frames # <<>>
  BY DEF Running
<1>3. Len(frames) \in DOMAIN frames /\ Frame = frames[Len(frames)]
  <2>1. Len(frames) \in Nat /\ Len(frames) # 0 /\ DOMAIN frames = 1 .. Len(frames)
    BY <1>1, <1>2, EmptySeq, LenProperties
  <2>2. QED
    BY <2>1 DEF Frame, Last
<1>4. Frame \in Range(frames)
  BY <1>3 DEF Range
<1>5. Frame.closure \in RootSet
  BY <1>4 DEF RootSet
<1>6. Frame.closure \in Reach /\ Children(Frame.closure) \subseteq Reach
  BY <1>5, RootReach, ChildrenReach
<1>7. \A f \in Held(Children(Frame.closure), "function") : Children(f) \subseteq Reach
  BY <1>6, ChildrenReach DEF Held
<1>8. Code \subseteq Reach
  BY <1>7 DEF Code
<1>9. Frame.slot \in 1 .. StackMax
  BY <1>3 DEF WellFormed
<1>10. QED
  BY <1>6, <1>8, <1>9

LEMMA PeekIs ==
  ASSUME WellFormed, Limits, NEW n \in Nat, n < top
  PROVE  /\ Peek(n) = stack[top - n] /\ top - n \in 1 .. top
         /\ Peek(n) \in Alive /\ Peek(n) \in Reach
         /\ \A kind : Is(Peek(n), kind) /\ kind # "nil" => Peek(n) # Nil
<1>1. top - n \in 1 .. top
  BY DEF WellFormed, Limits
<1>2. Peek(n) = stack[top - n] /\ Peek(n) \in Values
  BY <1>1 DEF Peek, Values
<1>3. Peek(n) \in RootSet
  BY <1>2 DEF RootSet
<1>4. QED
  BY <1>1, <1>2, <1>3, RootReach DEF Is, Nil

(* The lists of the instructions, from the height n of the stack.          *)
Nothing(n) == Known(n, {}, {}, {}, {}, {}, {}, {})

LEMMA SafePushOnly ==
  ASSUME NEW n \in Nat, n < StackMax, NEW v
  PROVE  Safe(<<Push(v)>>, Known(n, {}, {v}, {}, {}, {}, {}, {}))
<1> DEFINE A == Known(n, {}, {v}, {}, {}, {}, {}, {})
           e == <<>>
<1>1. Safe(e, Nothing(n + 1))
  BY SafeEnd
<1> HIDE DEF e
<1>2. Safe(Cons(Push(v), e), A)
  BY <1>1, KnownIs, SafePush DEF Keeps, Nothing
<1>3. <<Push(v)>> = Cons(Push(v), e)
  BY ListOf, Zenon DEF e
<1>4. QED
  BY <1>2, <1>3, Zenon

LEMMA SafePopOnly ==
  ASSUME NEW n \in Nat, n > 0
  PROVE  Safe(<<Pop>>, Nothing(n))
<1> DEFINE e == <<>>
<1>1. Safe(e, Nothing(n - 1))
  BY SafeEnd
<1> HIDE DEF e
<1>2. Safe(Cons(Pop, e), Nothing(n))
  BY <1>1, KnownIs, SafePop DEF Keeps, Nothing
<1>3. <<Pop>> = Cons(Pop, e)
  BY ListOf, Zenon DEF e
<1>4. QED
  BY <1>2, <1>3, Zenon

(* The result v of an instruction takes the place of its operands.         *)
LEMMA SafePopPush ==
  ASSUME NEW n \in Nat, n > 0, n <= StackMax, StackMax \in Nat, NEW v
  PROVE  Safe(<<Pop, Push(v)>>, Known(n, {}, {v}, {}, {}, {}, {}, {}))
<1> DEFINE A == Known(n, {}, {v}, {}, {}, {}, {}, {})
           B == Known(n - 1, {}, {v}, {}, {}, {}, {}, {})
           e == <<Push(v)>>
<1>1. Safe(e, B)
  BY SafePushOnly
<1>2. IsList(e)
  BY <1>1, SafeIs
<1> HIDE DEF e
<1>3. Safe(Cons(Pop, e), A)
  BY <1>1, KnownIs, SafePop DEF Keeps
<1>4. <<Pop, Push(v)>> = Cons(Pop, e)
  BY ConsIs, Zenon DEF e
<1>5. QED
  BY <1>3, <1>4, Zenon

LEMMA SafePopPopPush ==
  ASSUME NEW n \in Nat, n > 1, n <= StackMax, StackMax \in Nat, NEW v
  PROVE  Safe(<<Pop, Pop, Push(v)>>, Known(n, {}, {v}, {}, {}, {}, {}, {}))
<1> DEFINE A == Known(n, {}, {v}, {}, {}, {}, {}, {})
           B == Known(n - 1, {}, {v}, {}, {}, {}, {}, {})
           e == <<Pop, Push(v)>>
<1>1. Safe(e, B)
  BY SafePopPush
<1> HIDE DEF e
<1>2. Safe(Cons(Pop, e), A)
  BY <1>1, KnownIs, SafePop DEF Keeps
<1>3. <<Pop, Pop, Push(v)>> = Cons(Pop, e)
  BY ConsIs, Zenon DEF e
<1>4. QED
  BY <1>2, <1>3, Zenon

LEMMA SafeAdd ==
  ASSUME NEW n \in Nat, n > 1, n < StackMax, StackMax \in Nat
  PROVE  Safe(<<Grow, Use({"left", "right"})>> \o ConstructString("result") \o <<Pop, Pop, Push("result")>>,
              Known(n, {"result"}, {"left", "right"}, {}, {},
                    {<<"left", n - 1>>, <<"right", n>>}, {}, {}))
<1> DEFINE S  == {"left", "right"}
           A  == Known(n, {"result"}, S, {}, {}, {<<"left", n - 1>>, <<"right", n>>}, {}, {})
           A1 == Known(n, {"result"}, {}, {}, {}, {}, {}, {})
           A2 == Known(n, {}, {"result"}, {}, {}, {}, {}, {})
           e  == <<Pop, Pop, Push("result")>>
           f  == ConstructString("result")
           p  == <<Grow, Use(S)>>
<1>1. Safe(e, A2)
  BY SafePopPopPush
<1>2. IsList(e) /\ IsList(f) /\ IsList(p)
  BY <1>1, SafeIs, ConstructList, Lists, Zenon
<1>3. Safe(f \o e, A1)
  <2>1. Defines(A1, "result", A2)
    BY KnownIs DEF Defines
  <2> HIDE DEF e
  <2>2. QED
    BY <1>1, <2>1, KnownIs, SafeConstruct
<1> DEFINE r == f \o e
<1>4. IsList(r)
  BY <1>3, SafeIs
<1>5. Safe(Cons(Use(S), r), A)
  <2>1. Same(A, A1)
    BY KnownIs DEF Same, Keeps
  <2> HIDE DEF r
  <2>2. QED
    BY <1>3, <2>1, KnownIs, SafeUse DEF r
<1>6. Safe(Cons(Grow, Cons(Use(S), r)), A)
  <2> DEFINE t == Cons(Use(S), r)
  <2> DEFINE T == {<<"left", n - 1>>, <<"right", n>>}
  <2>1. NamesIn(T) = S
    BY DEF NamesIn
  <2>2. Rooted(A)
    <3> HIDE DEF S, T
    <3>1. A.live = S /\ A.on = T
      BY KnownIs DEF T
    <3> HIDE DEF A
    <3>2. QED
      BY <2>1, <3>1 DEF Rooted
  <2>3. Same(A, A)
    BY DEF Same, Keeps
  <2>4. Safe(t, A)
    BY <1>5
  <2> HIDE DEF t, A
  <2>5. Safe(Cons(Grow, t), A)
    BY <2>2, <2>3, <2>4, SafeGrow
  <2>6. QED
    BY <2>5 DEF t
<1>7. p \o r = Cons(Grow, Cons(Use(S), r))
  <2> DEFINE u == Use(S)
  <2> HIDE DEF r, u
  <2>1. <<Grow, u>> \o r = Cons(Grow, Cons(u, r))
    BY <1>4, Peel2
  <2>2. QED
    BY <2>1, Zenon DEF u
<1> HIDE DEF p, f, e
<1>8. (p \o f) \o e = p \o r
  BY <1>2, JoinAssociates
<1>9. Safe((p \o f) \o e, A)
  BY <1>6, <1>7, <1>8, Zenon
<1>10. QED
  BY <1>9, Zenon DEF p, f, e

LEMMA SafeSetGlobal ==
  ASSUME NEW n \in Nat, n > 0, NEW rest \in {<<Pop>>, <<>>}
  PROVE  Safe(<<Grow, Global("identifier", "value")>> \o rest,
              Known(n, {}, {"identifier", "value"}, {}, {"identifier", "value"}, {}, {}, {}))
<1> DEFINE S == {"identifier", "value"}
           A == Known(n, {}, S, {}, S, {}, {}, {})
           g == Global("identifier", "value")
<1>1. Safe(rest, Nothing(n)) /\ IsList(rest)
  <2>1. Safe(<<Pop>>, Nothing(n)) /\ Safe(<<>>, Nothing(n))
    BY SafePopOnly, SafeEnd, Zenon
  <2>2. Safe(rest, Nothing(n))
    BY <2>1, Zenon
  <2>3. QED
    BY <2>2, SafeIs
<1>2. Safe(Cons(g, rest), A)
  <2>1. Same(A, Nothing(n))
    BY KnownIs DEF Same, Keeps, Nothing
  <2>2. Nothing(n).reach = {} /\ A.live = S
    BY KnownIs DEF Nothing
  <2> HIDE DEF A
  <2>3. QED
    BY <1>1, <2>1, <2>2, SafeStore
<1>3. Safe(Cons(Grow, Cons(g, rest)), A)
  <2> DEFINE t == Cons(g, rest)
  <2>1. Rooted(A) /\ Same(A, A)
    BY KnownIs DEF Rooted, Same, Keeps
  <2>2. Safe(t, A)
    BY <1>2
  <2> HIDE DEF t, A
  <2>3. Safe(Cons(Grow, t), A)
    BY <2>1, <2>2, SafeGrow
  <2>4. QED
    BY <2>3 DEF t
<1>4. <<Grow, g>> \o rest = Cons(Grow, Cons(g, rest))
  <2> HIDE DEF g
  <2>1. QED
    BY <1>1, Peel2
<1>5. QED
  BY <1>3, <1>4, Zenon

(* A closure captures: it is on the stack, and the upvalue is taken over or*)
(* made.                                                                   *)
Taken(n, U) == Known(n, U, {"closure"}, {"closure"}, {}, {<<"closure", n>>}, {}, {})

LEMMA CapturingIs ==
  ASSUME NEW v, NEW source, NEW S, NEW r, IsList(r)
  PROVE  /\ IsList(Capturing(v, source, S))
         /\ Upvalues(source) = {} =>
              Capturing(v, source, S) \o r
                = Cons(Make(v, "upvalue", {}),
                       Cons(Open(v, source), Cons(Capture("closure", v, S), r)))
         /\ Upvalues(source) # {} =>
              Capturing(v, source, S) \o r
                = Cons(Take(v, source), Cons(Capture("closure", v, S), r))
<1> DEFINE a == Make(v, "upvalue", {})
           b == Open(v, source)
           d == Take(v, source)
           e == Capture("closure", v, S)
           p == IF Upvalues(source) = {} THEN <<a, b>> ELSE <<d>>
           q == <<e>>
<1>1. Capturing(v, source, S) = p \o q
  BY Zenon DEF Capturing
<1> HIDE DEF a, b, d, e
<1>2. IsList(<<a, b>>) /\ IsList(<<d>>) /\ IsList(q)
  BY One, Lists, Zenon
<1>3. IsList(p)
  BY <1>2, Zenon
<1>4. q \o r = Cons(e, r)
  BY Zenon DEF Cons
<1>5. p \o Cons(e, r) = IF Upvalues(source) = {} THEN Cons(a, Cons(b, Cons(e, r))) ELSE Cons(d, Cons(e, r))
  <2> DEFINE x == Cons(e, r)
  <2>1. IsList(x)
    BY Peel
  <2> HIDE DEF x
  <2>2. <<a, b>> \o x = Cons(a, Cons(b, x))
    BY <2>1, Peel2
  <2>3. <<d>> \o x = Cons(d, x)
    BY Zenon DEF Cons
  <2>4. QED
    BY <2>2, <2>3, Zenon DEF x
<1> HIDE DEF p, q
<1>6. IsList(p \o q) /\ (p \o q) \o r = p \o (q \o r)
  BY <1>2, <1>3, JoinedLists, JoinAssociates
<1>7. QED
  BY <1>1, <1>4, <1>5, <1>6, Zenon DEF a, b, d, e

LEMMA TakingIs ==
  ASSUME NEW v, NEW source, NEW S, NEW r, IsList(r), Upvalues(source) # {}
  PROVE  Capturing(v, source, S) \o r = Cons(Take(v, source), Cons(Capture("closure", v, S), r))
<1> DEFINE x == Capturing(v, source, S) \o r
           y == Cons(Take(v, source), Cons(Capture("closure", v, S), r))
<1>1. Upvalues(source) # {} => x = y
  BY CapturingIs
<1>2. QED
  BY <1>1

LEMMA SafeCapturing ==
  ASSUME NEW n \in Nat, NEW v, v # "closure", NEW U, v \in U, NEW source, NEW before, NEW r,
         Upvalues(source) = {} => source \in 1 .. n, Safe(r, Taken(n, U \ {v}))
  PROVE  Safe(Capturing(v, source, before) \o r, Taken(n, U))
<1> DEFINE T == {"closure", v}
           A == Taken(n, U)
           B == Known(n, U \ {v}, T, T, {}, {<<"closure", n>>}, {}, {})
           C == Taken(n, U \ {v})
           c == Cons(Capture("closure", v, before), r)
           o == Cons(Open(v, source), c)
<1>1. /\ C.reach = {} /\ C.const = {} /\ Same(B, C) /\ Same(B, B) /\ B.reach = {} /\ B.top = n
      /\ "closure" \in B.live \cap B.obj /\ v \in B.live \cap B.obj
  BY KnownIs DEF Taken, Same, Keeps
<1>2. Defines(A, v, B) /\ A.live = {"closure"} /\ A.on = {<<"closure", n>>}
  BY KnownIs DEF Taken, Defines
<1>3. Rooted(A)
  <2> HIDE DEF A
  <2>1. "closure" \in NamesIn(A.on)
    BY <1>2 DEF NamesIn
  <2>2. QED
    BY <1>2, <2>1 DEF Rooted
<1>4. Safe(c, B)
  <2> HIDE DEF B, C
  <2>1. Safe(r, C)
    BY DEF C
  <2>2. QED
    BY <1>1, <2>1, SafeStore
<1>5. ASSUME Upvalues(source) = {}
      PROVE  Safe(Cons(Make(v, "upvalue", {}), o), A)
  <2>1. Safe(o, B)
    <3> HIDE DEF B, c
    <3>1. QED
      BY <1>1, <1>4, <1>5, SafeStore
  <2>2. "upvalue" \in Kinds
    BY DEF Kinds
  <2> HIDE DEF A, B, o
  <2>3. QED
    BY <1>2, <1>3, <2>1, <2>2, SafeNew
<1>6. Safe(Cons(Take(v, source), c), A)
  <2> DEFINE s == Take(v, source)
  <2>1. s.do = "take" /\ s.reads = {} /\ s.args[1] = v
    BY StepIs DEF Take
  <2>2. B.live \cup B.undef \subseteq A.live \cup A.undef
    BY <1>2 DEF Defines
  <2> HIDE DEF s, A, B, c
  <2>3. After(A, s, B)
    BY <1>2, <2>1 DEF After
  <2>4. Safe(Cons(s, c), A)
    BY <1>4, <2>1, <2>2, <2>3, SafeCons
  <2>5. QED
    BY <2>4 DEF s
<1>7. IsList(r)
  BY SafeIs
<1>8. /\ Upvalues(source) = {} => Capturing(v, source, before) \o r = Cons(Make(v, "upvalue", {}), o)
      /\ Upvalues(source) # {} => Capturing(v, source, before) \o r = Cons(Take(v, source), c)
  <2> HIDE DEF T, A, B, C, o, c
  <2>1. Upvalues(source) = {} =>
          Capturing(v, source, before) \o r
            = Cons(Make(v, "upvalue", {}),
                   Cons(Open(v, source), Cons(Capture("closure", v, before), r)))
    BY <1>7, CapturingIs
  <2>2. ASSUME Upvalues(source) # {}
        PROVE  Capturing(v, source, before) \o r
                 = Cons(Take(v, source), Cons(Capture("closure", v, before), r))
    BY <1>7, <2>2, TakingIs
  <2>3. QED
    BY <2>1, <2>2, Zenon DEF o, c
<1> HIDE DEF A, o, c
<1>9. Safe(Capturing(v, source, before) \o r, A)
  BY <1>5, <1>6, <1>8
<1>10. QED
  BY <1>9 DEF A

(* Captures that are safe once the closure has been pushed.                *)
LEMMA SafeClosure ==
  ASSUME NEW n \in Nat, n < StackMax, NEW U, NEW r, Safe(r, Taken(n + 1, U))
  PROVE  Safe(<<Push("closure")>> \o r, Known(n, U, {"closure"}, {"closure"}, {}, {}, {}, {}))
<1> DEFINE A == Known(n, U, {"closure"}, {"closure"}, {}, {}, {}, {})
           B == Taken(n + 1, U)
<1>1. /\ "closure" \in A.live /\ A.top = n /\ Keeps(A, B) /\ B.top = n + 1 /\ B.reach = {}
      /\ A.on = {} /\ B.on = {<<"closure", n + 1>>} /\ A.comp = {} /\ B.comp = {}
      /\ A.const = {} /\ B.const = {}
  BY KnownIs DEF Taken, Keeps
<1>2. Safe(r, B)
  OBVIOUS
<1> HIDE DEF A, B
<1>3. Safe(Cons(Push("closure"), r), A)
  BY <1>1, <1>2, SafePush
<1>4. <<Push("closure")>> \o r = Cons(Push("closure"), r)
  BY Zenon DEF Cons
<1>5. QED
  BY <1>3, <1>4, Zenon DEF A

LEMMA SafeClass ==
  ASSUME NEW n \in Nat, n < StackMax
  PROVE  Safe(<<Make("class", "class", {}), Use({"name"}), Push("class")>>,
              Known(n, {"class"}, {"name"}, {"name"}, {"name"}, {}, {}, {}))
<1> DEFINE A == Known(n, {"class"}, {"name"}, {"name"}, {"name"}, {}, {}, {})
           B == Known(n, {}, {"name", "class"}, {}, {}, {}, {}, {})
           C == Known(n, {}, {"class"}, {}, {}, {}, {}, {})
           e == <<Push("class")>>
           a == Make("class", "class", {})
           b == Use({"name"})
           r == Cons(b, e)
<1>1. Safe(e, C)
  BY SafePushOnly
<1> HIDE DEF e
<1>2. Safe(r, B)
  BY <1>1, KnownIs, SafeUse DEF Same, Keeps
<1>3. Defines(A, "class", B) /\ Rooted(A)
  BY KnownIs DEF Defines, Rooted
<1>4. Safe(Cons(a, r), A)
  <2>1. "class" \in Kinds
    BY DEF Kinds
  <2> HIDE DEF r, A, B
  <2>2. QED
    BY <1>2, <1>3, <2>1, SafeNew
<1>5. <<a, b, Push("class")>> = Cons(a, r)
  BY Cons3, Zenon DEF e
<1>6. QED
  BY <1>4, <1>5, Zenon

LEMMA SafeMethod ==
  ASSUME NEW n \in Nat, n > 0
  PROVE  Safe(<<Grow, Link("class", "name"), Link("class", "method"), Pop>>,
              Known(n, {}, {"class", "name", "method"}, {"class"},
                    {"class", "name", "method"}, {}, {}, {}))
<1> DEFINE S == {"class", "name", "method"}
           A == Known(n, {}, S, {"class"}, S, {}, {}, {})
           e == <<Pop>>
           a == Link("class", "name")
           b == Link("class", "method")
           r == Cons(b, e)
           q == Cons(a, r)
<1>1. Safe(e, Nothing(n))
  BY SafePopOnly
<1> HIDE DEF e
<1>2. /\ Keeps(A, Nothing(n)) /\ Nothing(n).top = A.top /\ Nothing(n).reach \subseteq A.reach
      /\ Nothing(n).on \subseteq A.on /\ Nothing(n).comp \subseteq A.comp
      /\ Nothing(n).const = {} /\ Keeps(A, A) /\ Same(A, A) /\ Rooted(A)
      /\ "class" \in A.live \cap A.obj /\ "name" \in A.live /\ "method" \in A.live
  BY KnownIs DEF Keeps, Same, Nothing, Rooted
<1> HIDE DEF A
<1>3. Safe(r, A)
  BY <1>1, <1>2, SafeLink
<1>4. Safe(q, A)
  <2> HIDE DEF r
  <2>1. QED
    BY <1>2, <1>3, SafeLink
<1>5. Safe(Cons(Grow, q), A)
  <2> HIDE DEF q
  <2>1. QED
    BY <1>2, <1>4, SafeGrow
<1>6. <<Grow, a, b, Pop>> = Cons(Grow, q)
  BY Cons4, Zenon DEF e
<1>7. QED
  BY <1>5, <1>6, Zenon DEF A

LEMMA SafeSetProperty ==
  ASSUME NEW n \in Nat, n > 1, n <= StackMax, StackMax \in Nat
  PROVE  Safe(<<Grow, Link("instance", "name"), Link("instance", "value"),
                Pop, Pop, Push("value")>>,
              Known(n, {}, {"instance", "name", "value"}, {"instance"},
                    {"instance", "name", "value"}, {}, {}, {}))
<1> DEFINE S == {"instance", "name", "value"}
           A == Known(n, {}, S, {"instance"}, S, {}, {}, {})
           B == Known(n, {}, {"value"}, {}, {}, {}, {}, {})
           c == Pop
           d == Push("value")
           e == <<c, c, d>>
           a == Link("instance", "name")
           b == Link("instance", "value")
           r == Cons(b, e)
           q == Cons(a, r)
<1>1. Safe(e, B)
  BY SafePopPopPush
<1>2. /\ Keeps(A, B) /\ B.top = A.top /\ B.reach \subseteq A.reach
      /\ B.on \subseteq A.on /\ B.comp \subseteq A.comp
      /\ B.const = {} /\ Keeps(A, A) /\ Same(A, A) /\ Rooted(A)
      /\ "instance" \in A.live \cap A.obj /\ "name" \in A.live /\ "value" \in A.live
  BY KnownIs DEF Keeps, Same, Rooted
<1> HIDE DEF A, B
<1>3. Safe(r, A)
  <2> HIDE DEF e
  <2>1. QED
    BY <1>1, <1>2, SafeLink
<1>4. Safe(q, A)
  <2> HIDE DEF r
  <2>1. QED
    BY <1>2, <1>3, SafeLink
<1>5. Safe(Cons(Grow, q), A)
  <2> HIDE DEF q
  <2>1. QED
    BY <1>2, <1>4, SafeGrow
<1>6. <<Grow, a, b, c, c, d>> = Cons(Grow, q)
  <2> DEFINE f == Grow
  <2> HIDE DEF a, b, c, d, f
  <2>1. <<f, a, b, c, c, d>> = Cons(f, <<a, b, c, c, d>>)
    BY Split6, Zenon DEF Cons
  <2>2. <<a, b, c, c, d>> = Cons(a, <<b, c, c, d>>)
    BY Split5, Zenon DEF Cons
  <2>3. <<b, c, c, d>> = Cons(b, <<c, c, d>>)
    BY Split4, Zenon DEF Cons
  <2>4. QED
    BY <2>1, <2>2, <2>3, Zenon DEF f
<1>7. QED
  BY <1>5, <1>6, Zenon DEF A

(* A bound method, made of the two reachable objects v and w.              *)
LEMMA SafeBound ==
  ASSUME NEW n \in Nat, n <= StackMax, StackMax \in Nat, NEW v, NEW w, v # "bound", w # "bound"
  PROVE  LET A == Known(n, {"bound"}, {v, w}, {v, w}, {v, w}, {}, {}, {})
         IN  /\ n > 0 => Safe(<<Make("bound", "bound", {v, w}), Pop, Push("bound")>>, A)
             /\ n > 1 => Safe(<<Make("bound", "bound", {v, w}), Pop, Pop, Push("bound")>>, A)
<1> DEFINE A == Known(n, {"bound"}, {v, w}, {v, w}, {v, w}, {}, {}, {})
           B == Known(n, {}, {"bound"}, {}, {}, {}, {}, {})
           a == Make("bound", "bound", {v, w})
<1>1. /\ Defines(A, "bound", B) /\ Rooted(A) /\ {v, w} \subseteq A.live \cap A.obj
  BY KnownIs DEF Defines, Rooted
<1>2. "bound" \in Kinds
  BY DEF Kinds
<1>3. ASSUME NEW e, Safe(e, B)
      PROVE  Safe(Cons(a, e), A)
  <2> HIDE DEF A, B
  <2>1. QED
    BY <1>1, <1>2, <1>3, SafeNew
<1>4. ASSUME n > 0
      PROVE  Safe(<<a, Pop, Push("bound")>>, A)
  <2> DEFINE e == <<Pop, Push("bound")>>
  <2>1. Safe(e, B)
    BY <1>4, SafePopPush
  <2>2. Safe(Cons(a, e), A)
    <3> HIDE DEF e, A, B, a
    <3>1. QED
      BY <1>3, <2>1
  <2>3. <<a, Pop, Push("bound")>> = Cons(a, e)
    BY ConsIs, ZenonT(40)
  <2>4. QED
    BY <2>2, <2>3, Zenon
<1>5. ASSUME n > 1
      PROVE  Safe(<<a, Pop, Pop, Push("bound")>>, A)
  <2> DEFINE e == <<Pop, Pop, Push("bound")>>
  <2>1. Safe(e, B)
    BY <1>5, SafePopPopPush
  <2>2. Safe(Cons(a, e), A)
    <3> HIDE DEF e, A, B, a
    <3>1. QED
      BY <1>3, <2>1
  <2>3. <<a, Pop, Pop, Push("bound")>> = Cons(a, e)
    BY Split4, Zenon DEF Cons
  <2>4. QED
    BY <2>2, <2>3, Zenon
<1>6. QED
  BY <1>4, <1>5, Zenon

(* Calls, of what is in slot n of the stack.                               *)
LEMMA SafeCall ==
  ASSUME NEW n \in 1 .. StackMax, StackMax \in Nat, NEW v, NEW u, NEW l, NEW o, NEW r, v \in l
  PROVE  Safe(<<Call(v, n)>>, Known(n, u, l, o, r, {}, {}, {}))
<1> DEFINE A == Known(n, u, l, o, r, {}, {}, {})
           e == <<>>
           g == Call(v, n)
<1>1. Safe(e, Nothing(n))
  BY SafeEnd
<1> HIDE DEF e
<1>2. Same(A, Nothing(n)) /\ Nothing(n).reach = {} /\ v \in A.live
  BY KnownIs DEF Same, Keeps, Nothing
<1> HIDE DEF A
<1>3. Safe(Cons(g, e), A)
  BY <1>1, <1>2, SafeStore
<1>4. <<g>> = Cons(g, e)
  BY ListOf, Zenon DEF e
<1>5. QED
  BY <1>3, <1>4, Zenon DEF A

LEMMA SafePutOnly ==
  ASSUME NEW n \in 1 .. StackMax, StackMax \in Nat, NEW v, NEW l, NEW o, v \in l
  PROVE  Safe(<<Put(v)>>, Known(n, {}, l, o, {}, {}, {}, {}))
<1> DEFINE A == Known(n, {}, l, o, {}, {}, {}, {})
           e == <<>>
           g == Put(v)
<1>1. Safe(e, Nothing(n))
  BY SafeEnd
<1> HIDE DEF e
<1>2. /\ Same(A, Nothing(n)) /\ Nothing(n).reach = {} /\ Nothing(n).on = {}
      /\ v \in A.live /\ A.top > 0
  BY KnownIs DEF Same, Keeps, Nothing
<1> HIDE DEF A
<1>3. Safe(Cons(g, e), A)
  BY <1>1, <1>2, SafePut
<1>4. <<g>> = Cons(g, e)
  BY ListOf, Zenon DEF e
<1>5. QED
  BY <1>3, <1>4, Zenon DEF A

LEMMA SafeCallPut ==
  ASSUME NEW n \in 1 .. StackMax, StackMax \in Nat, NEW v, NEW w, NEW l, NEW o, {v, w} \subseteq l
  PROVE  Safe(<<Call(v, n), Put(w)>>, Known(n, {}, l, o, {}, {}, {}, {}))
<1> DEFINE A == Known(n, {}, l, o, {}, {}, {}, {})
           e == <<Put(w)>>
           g == Call(v, n)
<1>1. Safe(e, A)
  BY SafePutOnly
<1>2. Same(A, A) /\ A.reach = {} /\ v \in A.live
  BY KnownIs DEF Same, Keeps
<1> HIDE DEF A, e
<1>3. Safe(Cons(g, e), A)
  BY <1>1, <1>2, SafeStore
<1>4. <<g, Put(w)>> = Cons(g, e)
  BY ConsIs, Zenon DEF e
<1>5. QED
  BY <1>3, <1>4, Zenon DEF A

(* A call of a class, without init and with it.                            *)
LEMMA SafeInstance ==
  ASSUME NEW n \in 1 .. StackMax, StackMax \in Nat
  PROVE  /\ Safe(<<Make("instance", "instance", {"class"}), Put("instance")>>,
                 Known(n, {"instance"}, {"class"}, {"class"}, {"class"}, {}, {}, {}))
         /\ Safe(<<Make("instance", "instance", {"class"}), Call("init", n), Put("instance")>>,
                 Known(n, {"instance"}, {"class", "init"}, {"class", "init"}, {"class", "init"},
                       {}, {}, {}))
<1> DEFINE a == Make("instance", "instance", {"class"})
<1>0. "instance" \in Kinds
  BY DEF Kinds
<1>1. Safe(<<a, Put("instance")>>,
           Known(n, {"instance"}, {"class"}, {"class"}, {"class"}, {}, {}, {}))
  <2> DEFINE A == Known(n, {"instance"}, {"class"}, {"class"}, {"class"}, {}, {}, {})
             B == Known(n, {}, {"instance"}, {}, {}, {}, {}, {})
             e == <<Put("instance")>>
  <2>1. Safe(e, B)
    BY SafePutOnly
  <2>2. Defines(A, "instance", B) /\ Rooted(A) /\ {"class"} \subseteq A.live \cap A.obj
    BY KnownIs DEF Defines, Rooted
  <2> HIDE DEF A, B, e
  <2>3. Safe(Cons(a, e), A)
    BY <1>0, <2>1, <2>2, SafeNew
  <2>4. <<a, Put("instance")>> = Cons(a, e)
    BY ConsIs, Zenon DEF e
  <2>5. QED
    BY <2>3, <2>4, Zenon DEF A
<1>2. Safe(<<a, Call("init", n), Put("instance")>>,
           Known(n, {"instance"}, {"class", "init"}, {"class", "init"}, {"class", "init"}, {}, {}, {}))
  <2> DEFINE S == {"class", "init"}
             A == Known(n, {"instance"}, S, S, S, {}, {}, {})
             B == Known(n, {}, {"instance", "init"}, {}, {}, {}, {}, {})
             e == <<Call("init", n), Put("instance")>>
  <2>1. Safe(e, B)
    BY SafeCallPut
  <2>2. Defines(A, "instance", B) /\ Rooted(A) /\ {"class"} \subseteq A.live \cap A.obj
    BY KnownIs DEF Defines, Rooted
  <2> HIDE DEF A, B, e
  <2>3. Safe(Cons(a, e), A)
    BY <1>0, <2>1, <2>2, SafeNew
  <2>4. <<a, Call("init", n), Put("instance")>> = Cons(a, e)
    BY ConsIs, Zenon DEF e
  <2>5. QED
    BY <2>3, <2>4, Zenon DEF A
<1>3. QED
  BY <1>1, <1>2, Zenon

(* The lists of the compiler.                                              *)
LEMMA SafeEnter ==
  ASSUME NEW n, NEW u, NEW l, NEW o, NEW k, NEW c, "function" \in l \cap o
  PROVE  Safe(<<Enter("function")>>, Known(n, u, l, o, {}, {}, c, k))
<1> DEFINE A == Known(n, u, l, o, {}, {}, c, k)
           e == <<>>
           g == Enter("function")
<1>1. Safe(e, Nothing(n))
  BY SafeEnd
<1> HIDE DEF e
<1>2. /\ Same(A, Nothing(n)) /\ Nothing(n).reach = {} /\ Nothing(n).comp = {}
      /\ "function" \in A.live \cap A.obj
  BY KnownIs DEF Same, Keeps, Nothing
<1> HIDE DEF A
<1>3. Safe(Cons(g, e), A)
  BY <1>1, <1>2, SafeStore
<1>4. <<g>> = Cons(g, e)
  BY ListOf, Zenon DEF e
<1>5. QED
  BY <1>3, <1>4, Zenon DEF A

LEMMA SafeScript ==
  ASSUME NEW n
  PROVE  Safe(<<Make("function", "function", {}), Enter("function")>>,
              Known(n, {"function"}, {}, {}, {}, {}, {}, {}))
<1> DEFINE F == {"function"}
           A == Known(n, F, {}, {}, {}, {}, {}, {})
           B == Known(n, {}, F, F, {}, {}, {}, {})
           a == Make("function", "function", {})
           e == <<Enter("function")>>
<1>1. Safe(e, B)
  BY SafeEnter
<1>2. Defines(A, "function", B) /\ Rooted(A)
  BY KnownIs DEF Defines, Rooted
<1>3. "function" \in Kinds
  BY DEF Kinds
<1> HIDE DEF A, B, e
<1>4. Safe(Cons(a, e), A)
  BY <1>1, <1>2, <1>3, SafeNew
<1>5. <<a, Enter("function")>> = Cons(a, e)
  BY ConsIs, Zenon DEF e
<1>6. QED
  BY <1>4, <1>5, Zenon DEF A

LEMMA SafeGrowOnly ==
  ASSUME NEW A, Rooted(A)
  PROVE  Safe(<<Grow>>, A)
<1> DEFINE e == <<>>
<1>1. Safe(e, A) /\ Same(A, A)
  BY SafeEnd DEF Same, Keeps
<1> HIDE DEF e
<1>2. Safe(Cons(Grow, e), A)
  BY <1>1, SafeGrow
<1>3. <<Grow>> = Cons(Grow, e)
  BY ListOf, Zenon DEF e
<1>4. QED
  BY <1>2, <1>3, Zenon

LEMMA SafeConstant ==
  ASSUME NEW n \in Nat, n < StackMax
  PROVE  Safe(Identifier("value") \o <<Grow>>,
              Known(n, {"value"}, {"current"}, {"current"}, {}, {}, {<<"current", 1>>}, {}))
<1> DEFINE S == {"current", "value"}
           c == {<<"current", 1>>}
           A == Known(n, {}, S, S, {}, {}, c, {"value"})
           e == <<Grow>>
<1>1. Safe(e, A)
  <2>1. NamesIn(c) = {"current"}
    BY DEF NamesIn
  <2> HIDE DEF c
  <2>2. A.live = S /\ A.comp = c /\ A.const = {"value"}
    BY KnownIs
  <2> HIDE DEF A
  <2>3. Rooted(A)
    BY <2>1, <2>2 DEF Rooted
  <2>4. QED
    BY <2>3, SafeGrowOnly
<1> HIDE DEF e
<1>2. Safe(Identifier("value") \o e, Known(n, {} \cup {"value"}, {"current"}, {"current"}, {}, {}, c, {}))
  BY <1>1, SafeIdentifier
<1>3. {} \cup {"value"} = {"value"}
  OBVIOUS
<1>4. QED
  BY <1>2, <1>3, Zenon DEF e

Regrouped(i, p, g, e) == ((i \o p) \o g) \o e = i \o (p \o (g \o e))

LEMMA JoinThree ==
  ASSUME NEW i, NEW p, NEW g, NEW e, IsList(i), IsList(p), IsList(g), IsList(e)
  PROVE  Regrouped(i, p, g, e)
<1> DEFINE w == i \o p
           y == g \o e
<1>1. IsList(w) /\ IsList(y)
  BY JoinedLists
<1>2. w \o y = i \o (p \o y)
  <2> HIDE DEF y
  <2>1. QED
    BY <1>1, JoinAssociates, SMTT(40)
<1>3. (w \o g) \o e = w \o (g \o e)
  <2> HIDE DEF w, y
  <2>1. QED
    BY <1>1, JoinAssociates, SMTT(40)
<1>4. QED
  BY <1>2, <1>3 DEF Regrouped

LEMMA SafeBeginFunction ==
  ASSUME NEW n \in Nat, n < StackMax
  PROVE  Safe(Identifier("identifier")
                \o <<Make("function", "function", {})>> \o Again("name", "identifier")
                \o <<Link("function", "name"), Enter("function")>>,
              Known(n, {"identifier", "function", "name"}, {"current"}, {"current"}, {}, {},
                    {<<"current", 1>>}, {}))
<1> DEFINE S  == {"current", "identifier"}
           T  == {"function", "identifier"}
           F  == {"function", "name"}
           c  == {<<"current", 1>>}
           A1 == Known(n, F, S, S, {}, {}, c, {"identifier"})
           A2 == Known(n, {"name"}, T, T, {}, {}, {}, {})
           A3 == Known(n, {}, F, F, {}, {}, {}, {})
           a  == Make("function", "function", {})
           b  == Link("function", "name")
           d  == Enter("function")
           i  == Identifier("identifier")
           p  == <<a>>
           g  == Again("name", "identifier")
           e  == <<b, d>>
<1>1. Safe(e, A3)
  <2> DEFINE t == <<d>>
  <2>1. Safe(t, A3)
    BY SafeEnter
  <2>2. /\ Keeps(A3, A3) /\ A3.const = {} /\ "function" \in A3.live \cap A3.obj
        /\ "name" \in A3.live
    BY KnownIs DEF Keeps
  <2> HIDE DEF t, A3
  <2>3. Safe(Cons(b, t), A3)
    BY <2>1, <2>2, SafeLink
  <2>4. <<b, d>> = Cons(b, t)
    BY ConsIs, Zenon DEF t
  <2>5. QED
    BY <2>3, <2>4, Zenon
<1>2. Safe(g \o e, A2)
  <2>1. Defines(A2, "name", A3) /\ "identifier" \in A2.live \cap A2.obj
    BY KnownIs DEF Defines
  <2> HIDE DEF A2, A3, e
  <2>2. QED
    BY <1>1, <2>1, SafeAgain
<1> DEFINE q == g \o e
<1>3. Safe(Cons(a, q), A1)
  <2>1. Defines(A1, "function", A2)
    BY KnownIs DEF Defines
  <2>2. A1.live = S /\ A1.comp = c /\ A1.const = {"identifier"}
    BY KnownIs
  <2>3. NamesIn(c) = {"current"}
    BY DEF NamesIn
  <2>4. "function" \in Kinds /\ Safe(q, A2)
    BY <1>2 DEF Kinds
  <2> HIDE DEF q, A1, A2, c
  <2>5. Rooted(A1)
    BY <2>2, <2>3 DEF Rooted
  <2>6. QED
    BY <2>1, <2>4, <2>5, SafeNew
<1> HIDE DEF i, g, e, b, d
<1>4. p \o q = Cons(a, q)
  BY Zenon DEF Cons
<1>5. Safe(p \o q, A1)
  BY <1>3, <1>4, Zenon
<1> HIDE DEF p
<1>6. Safe(i \o (p \o q), Known(n, F \cup {"identifier"}, {"current"}, {"current"}, {}, {}, c, {}))
  <2> DEFINE t == p \o q
  <2>1. Safe(t, A1)
    BY <1>5
  <2> HIDE DEF t
  <2>2. Safe(Identifier("identifier") \o t,
             Known(n, F \cup {"identifier"}, {"current"}, {"current"}, {}, {}, c, {}))
    BY <2>1, SafeIdentifier
  <2>3. QED
    BY <2>2 DEF t, i
<1>7. F \cup {"identifier"} = {"identifier", "function", "name"}
  OBVIOUS
<1>8. ((i \o p) \o g) \o e = i \o (p \o (g \o e))
  <2>1. IsList(i) /\ IsList(g)
    BY ConstructList DEF i, g
  <2>2. IsList(e) /\ IsList(p)
    BY <1>1, SafeIs, One, Zenon DEF p
  <2>3. Regrouped(i, p, g, e)
    BY <2>1, <2>2, JoinThree
  <2>4. QED
    BY <2>3, Zenon DEF Regrouped
<1> HIDE DEF a, F, c
<1>9. QED
  BY <1>6, <1>7, <1>8, Zenon DEF i, p, g, e, a, b, d, c

(* end_compiler: l are variables for the functions of Compilers c, of      *)
(* which d remain.                                                         *)
LEMMA SafeEndCompiler ==
  ASSUME NEW n \in Nat, n < StackMax, NEW l, NEW c, NEW d, NEW r, NEW m,
         "function" \in l, "closure" \notin l, l \subseteq NamesIn(c), <<"function", 1>> \in c,
         d \subseteq {<<x[1], x[2] - 1>> : x \in {y \in c : y[2] > 1}},
         m = l \cup {"closure"}, Safe(r, Known(n, {}, m, m, {}, {}, d, {}))
  PROVE  Safe(EndCompiler \o r, Known(n, {"closure"}, l, l, {}, {}, c, {}))
<1> DEFINE s  == {<<"closure", n + 1>>}
           A  == Known(n, {"closure"}, l, l, {}, {}, c, {})
           A1 == Known(n, {}, m, m, {}, {}, c, {})
           A2 == Known(n + 1, {}, m, m, {}, s, c, {})
           B  == Known(n, {}, m, m, {}, {}, d, {})
           k1 == Grow
           k2 == Make("closure", "closure", {})
           k3 == Push("closure")
           k4 == Link("closure", "function")
           k5 == Pop
           k6 == Leave
           r1 == Cons(k6, r)
           r2 == Cons(k5, r1)
           r3 == Cons(k1, r2)
           r4 == Cons(k4, r3)
           r5 == Cons(k3, r4)
           r6 == Cons(k2, r5)
           r7 == Cons(k1, r6)
<1>1. /\ A.top = n /\ A.undef = {"closure"} /\ A.live = l /\ A.obj = l /\ A.reach = {}
      /\ A.on = {} /\ A.comp = c /\ A.const = {}
  BY KnownIs
<1>2. /\ A1.top = n /\ A1.undef = {} /\ A1.live = m /\ A1.obj = m /\ A1.reach = {}
      /\ A1.on = {} /\ A1.comp = c /\ A1.const = {}
  BY KnownIs
<1>3. /\ A2.top = n + 1 /\ A2.undef = {} /\ A2.live = m /\ A2.obj = m /\ A2.reach = {}
      /\ A2.on = s /\ A2.comp = c /\ A2.const = {}
  BY KnownIs
<1>4. /\ B.top = n /\ B.undef = {} /\ B.live = m /\ B.obj = m /\ B.reach = {}
      /\ B.on = {} /\ B.comp = d /\ B.const = {}
  BY KnownIs
<1>5. Safe(r, B)
  OBVIOUS
<1>6. NamesIn(s) = {"closure"}
  BY DEF NamesIn
<1>7. s \subseteq {<<"closure", n + 1>>}
  OBVIOUS
<1> HIDE DEF A, A1, A2, B, s
<1>8. Safe(r1, A1)
  <2>1. Keeps(A1, B)
    BY <1>2, <1>4 DEF Keeps
  <2>2. QED
    BY <1>2, <1>4, <1>5, <2>1, SafeLeave
<1>9. Safe(r2, A2)
  <2>1. Keeps(A2, A1)
    BY <1>2, <1>3 DEF Keeps
  <2> HIDE DEF r1
  <2>2. QED
    BY <1>2, <1>3, <1>8, <2>1, SafePop
<1>10. Safe(r3, A2)
  <2>1. Rooted(A2) /\ Same(A2, A2)
    BY <1>3, <1>6 DEF Rooted, Same, Keeps
  <2> HIDE DEF r2
  <2>2. QED
    BY <1>9, <2>1, SafeGrow
<1>11. Safe(r4, A2)
  <2>1. Keeps(A2, A2) /\ "closure" \in A2.live \cap A2.obj /\ "function" \in A2.live
    BY <1>3 DEF Keeps
  <2> HIDE DEF r3
  <2>2. QED
    BY <1>3, <1>10, <2>1, SafeLink
<1>12. Safe(r5, A1)
  <2>1. Keeps(A1, A2) /\ "closure" \in A1.live
    BY <1>2, <1>3 DEF Keeps
  <2> HIDE DEF r4
  <2>2. QED
    BY <1>2, <1>3, <1>7, <1>11, <2>1, SafePush
<1>r. Rooted(A) /\ Same(A, A)
  BY <1>1 DEF Rooted, Same, Keeps
<1>13. Safe(r6, A)
  <2>1. Defines(A, "closure", A1) /\ "closure" \in Kinds
    BY <1>1, <1>2 DEF Defines, Kinds
  <2> HIDE DEF r5
  <2>2. QED
    BY <1>12, <1>r, <2>1, SafeNew
<1>14. Safe(r7, A)
  <2> HIDE DEF r6
  <2>1. QED
    BY <1>13, <1>r, SafeGrow
<1>15. EndCompiler \o r = r7
  <2>1. EndCompiler = <<k1, k2, k3, k4, k1, k5, k6>>
    BY Zenon DEF EndCompiler
  <2>2. IsList(r)
    BY <1>5, SafeIs
  <2> HIDE DEF k1, k2, k3, k4, k5, k6
  <2>3. <<k1, k2, k3, k4, k1, k5, k6>> \o r = r7
    BY <2>2, Peel7
  <2>4. QED
    BY <2>1, <2>3, Zenon
<1>16. QED
  BY <1>14, <1>15, Zenon DEF A

LEMMA SafeEndFunction ==
  ASSUME NEW n \in Nat, n < StackMax
  PROVE  Safe(EndCompiler \o <<Use({"closure"})>> \o AddConst("current", "closure") \o <<Grow>>,
              Known(n, {"closure"}, {"function", "current"}, {"function", "current"}, {}, {},
                    {<<"function", 1>>, <<"current", 2>>}, {}))
<1> DEFINE l  == {"function", "current"}
           m  == {"function", "current", "closure"}
           c  == {<<"function", 1>>, <<"current", 2>>}
           d  == {<<"current", 1>>}
           A1 == Known(n, {}, m, m, {}, {}, d, {})
           A2 == Known(n, {}, {}, {}, {}, {}, {}, {})
           a  == Use({"closure"})
           p  == <<a>>
           g  == AddConst("current", "closure")
           e  == <<Grow>>
<1>1. /\ A1.top = n /\ A1.undef = {} /\ A1.live = m /\ A1.obj = m /\ A1.reach = {}
      /\ A1.on = {} /\ A1.comp = d /\ A1.const = {}
  BY KnownIs
<1>2. /\ A2.top = n /\ A2.undef = {} /\ A2.live = {} /\ A2.obj = {} /\ A2.reach = {}
      /\ A2.on = {} /\ A2.comp = {} /\ A2.const = {}
  BY KnownIs
<1>3. Safe(e, A2)
  <2> HIDE DEF A2
  <2>1. Rooted(A2)
    BY <1>2 DEF Rooted
  <2>2. QED
    BY <2>1, SafeGrowOnly
<1>4. NamesIn(d) = {"current"}
  BY DEF NamesIn
<1>5. Safe(g \o e, A1)
  <2> HIDE DEF A1, A2, e, d
  <2>1. Keeps(A1, A2)
    BY <1>1, <1>2 DEF Keeps
  <2>2. QED
    BY <1>1, <1>2, <1>3, <1>4, <2>1, SafeAddConst
<1> DEFINE q == g \o e
<1>6. Safe(Cons(a, q), A1)
  <2>1. Safe(q, A1)
    BY <1>5
  <2> HIDE DEF q, A1, A2, d
  <2>2. Same(A1, A1) /\ {"closure"} \subseteq A1.live
    BY <1>1 DEF Same, Keeps
  <2>3. QED
    BY <2>1, <2>2, SafeUse
<1> HIDE DEF g, e
<1>7. p \o q = Cons(a, q)
  BY Zenon DEF Cons
<1>8. Safe(p \o q, A1)
  BY <1>6, <1>7, Zenon
<1> HIDE DEF p
<1> DEFINE t == p \o q
<1>9. Safe(EndCompiler \o t, Known(n, {"closure"}, l, l, {}, {}, c, {}))
  <2>1. m = l \cup {"closure"} /\ "function" \in l /\ "closure" \notin l
    OBVIOUS
  <2>2. NamesIn(c) = l /\ <<"function", 1>> \in c
    BY DEF NamesIn
  <2>3. d \subseteq {<<x[1], x[2] - 1>> : x \in {y \in c : y[2] > 1}}
    <3>1. <<"current", 2>> \in {y \in c : y[2] > 1}
      OBVIOUS
    <3>2. <<"current", 1>> = <<(<<"current", 2>>)[1], (<<"current", 2>>)[2] - 1>>
      OBVIOUS
    <3> DEFINE w == <<"current", 2>>
               Y == {y \in c : y[2] > 1}
    <3>3. w \in Y /\ <<"current", 1>> = <<w[1], w[2] - 1>>
      BY <3>1, <3>2
    <3> HIDE DEF w, Y
    <3>4. <<"current", 1>> \in {<<x[1], x[2] - 1>> : x \in Y}
      BY <3>3
    <3>5. QED
      BY <3>4 DEF Y
  <2>4. Safe(t, A1)
    BY <1>8
  <2> HIDE DEF t, l, c, m
  <2>5. Safe(t, Known(n, {}, m, m, {}, {}, d, {}))
    BY <2>4
  <2> HIDE DEF A1, d
  <2>6. l \subseteq NamesIn(c)
    BY <2>2
  <2>7. QED
    BY <2>1, <2>2, <2>3, <2>5, <2>6, SafeEndCompiler
<1>10. ((EndCompiler \o p) \o g) \o e = EndCompiler \o (p \o (g \o e))
  <2>1. IsList(EndCompiler) /\ IsList(p)
    BY One, Lists, Zenon DEF EndCompiler, p
  <2>2. IsList(g) /\ IsList(e)
    BY <1>3, SafeIs, ConstructList, Zenon DEF g
  <2>3. Regrouped(EndCompiler, p, g, e)
    BY <2>1, <2>2, JoinThree
  <2>4. QED
    BY <2>3, Zenon DEF Regrouped
<1> HIDE DEF l, c
<1>11. QED
  BY <1>9, <1>10, Zenon DEF p, g, e, l, c

LEMMA SafeEndScript ==
  ASSUME NEW n \in Nat, n < StackMax, StackMax \in Nat,
         NEW run \in {<<Push("closure"), Call("closure", n + 1)>>, <<>>}
  PROVE  Safe(EndCompiler \o run,
              Known(n, {"closure"}, {"function"}, {"function"}, {}, {}, {<<"function", 1>>}, {}))
<1> DEFINE l == {"function"}
           m == {"function", "closure"}
           c == {<<"function", 1>>}
           A == Known(n, {}, m, m, {}, {}, {}, {})
           B == Known(n + 1, {}, m, m, {}, {}, {}, {})
           g == Call("closure", n + 1)
           e == <<g>>
           a == Push("closure")
<1>1. Safe(e, B)
  BY SafeCall
<1>2. Safe(<<a, g>>, A)
  <2> HIDE DEF e
  <2>1. Safe(Cons(a, e), A)
    BY <1>1, KnownIs, SafePush DEF Keeps
  <2>2. <<a, g>> = Cons(a, e)
    BY ConsIs, Zenon DEF e
  <2>3. QED
    BY <2>1, <2>2, Zenon
<1>3. Safe(<<>>, A)
  BY SafeEnd
<1>4. Safe(run, A)
  BY <1>2, <1>3, Zenon
<1>5. m = l \cup {"closure"} /\ "function" \in l /\ "closure" \notin l
  OBVIOUS
<1>6. NamesIn(c) = l /\ <<"function", 1>> \in c
  BY DEF NamesIn
<1>7. {} \subseteq {<<x[1], x[2] - 1>> : x \in {y \in c : y[2] > 1}}
  OBVIOUS
<1>8. l \subseteq NamesIn(c) /\ Safe(run, Known(n, {}, m, m, {}, {}, {}, {}))
  BY <1>4, <1>6
<1> HIDE DEF l, m, c
<1>9. Safe(EndCompiler \o run, Known(n, {"closure"}, l, l, {}, {}, c, {}))
  BY <1>5, <1>6, <1>7, <1>8, SafeEndCompiler
<1>10. QED
  BY <1>9, Zenon DEF l, c

LEMMA SafePopPop ==
  ASSUME NEW n \in Nat, n > 1
  PROVE  Safe(<<Pop, Pop>>, Nothing(n))
<1> DEFINE e == <<Pop>>
<1>1. Safe(e, Nothing(n - 1))
  BY SafePopOnly
<1> HIDE DEF e
<1>2. Safe(Cons(Pop, e), Nothing(n))
  BY <1>1, KnownIs, SafePop DEF Keeps, Nothing
<1>3. <<Pop, Pop>> = Cons(Pop, e)
  BY ConsIs, Zenon DEF e
<1>4. QED
  BY <1>2, <1>3, Zenon

(* The native function of vm_init, and its name.                           *)
LEMMA SafeNative ==
  ASSUME NEW n \in Nat, n + 2 <= StackMax, StackMax \in Nat
  PROVE  Safe(<<Push("name"), Make("native", "native", {}), Push("native"), Grow,
                Global("name", "native"), Pop, Pop>>,
              Known(n, {"native"}, {"name"}, {"name"}, {}, {}, {}, {}))
<1> DEFINE V  == {"native"}
           N  == {"name"}
           S  == {"name", "native"}
           p  == {<<"name", n + 1>>}
           q  == {<<"name", n + 1>>, <<"native", n + 2>>}
           A  == Known(n, V, N, N, {}, {}, {}, {})
           A1 == Known(n + 1, V, N, N, {}, p, {}, {})
           A2 == Known(n + 1, {}, S, {}, {}, p, {}, {})
           A3 == Known(n + 2, {}, S, {}, {}, q, {}, {})
           B  == Nothing(n + 2)
           k1 == Push("name")
           k2 == Make("native", "native", {})
           k3 == Push("native")
           k4 == Grow
           k5 == Global("name", "native")
           k6 == Pop
           e  == <<k6, k6>>
           r1 == Cons(k5, e)
           r2 == Cons(k4, r1)
           r3 == Cons(k3, r2)
           r4 == Cons(k2, r3)
           r5 == Cons(k1, r4)
<1>1. /\ A.top = n /\ A.undef = V /\ A.live = N /\ A.obj = N /\ A.reach = {}
      /\ A.on = {} /\ A.comp = {} /\ A.const = {}
  BY KnownIs
<1>2. /\ A1.top = n + 1 /\ A1.undef = V /\ A1.live = N /\ A1.obj = N /\ A1.reach = {}
      /\ A1.on = p /\ A1.comp = {} /\ A1.const = {}
  BY KnownIs
<1>3. /\ A2.top = n + 1 /\ A2.undef = {} /\ A2.live = S /\ A2.obj = {} /\ A2.reach = {}
      /\ A2.on = p /\ A2.comp = {} /\ A2.const = {}
  BY KnownIs
<1>4. /\ A3.top = n + 2 /\ A3.undef = {} /\ A3.live = S /\ A3.obj = {} /\ A3.reach = {}
      /\ A3.on = q /\ A3.comp = {} /\ A3.const = {}
  BY KnownIs
<1>5. /\ B.top = n + 2 /\ B.undef = {} /\ B.live = {} /\ B.obj = {} /\ B.reach = {}
      /\ B.on = {} /\ B.comp = {} /\ B.const = {}
  BY KnownIs DEF Nothing
<1>6. Safe(e, B)
  BY SafePopPop
<1>7. NamesIn(p) = N /\ NamesIn(q) = S
  BY DEF NamesIn
<1>8. /\ p \subseteq {<<"name", n + 1>>}
      /\ q \subseteq p \cup {<<"native", (n + 1) + 1>>}
  OBVIOUS
<1> HIDE DEF A, A1, A2, A3, B, p, q, e
<1>9. Safe(r1, A3)
  <2>1. Same(A3, B) /\ "name" \in A3.live /\ "native" \in A3.live
    BY <1>4, <1>5 DEF Same, Keeps
  <2>2. QED
    BY <1>5, <1>6, <2>1, SafeStore
<1>10. Safe(r2, A3)
  <2>1. Rooted(A3) /\ Same(A3, A3)
    BY <1>4, <1>7 DEF Rooted, Same, Keeps
  <2> HIDE DEF r1
  <2>2. QED
    BY <1>9, <2>1, SafeGrow
<1>11. Safe(r3, A2)
  <2>1. Keeps(A2, A3) /\ "native" \in A2.live /\ (n + 1) + 1 = n + 2
    BY <1>3, <1>4 DEF Keeps
  <2> HIDE DEF r2
  <2>2. QED
    BY <1>3, <1>4, <1>8, <1>10, <2>1, SafePush
<1>12. Safe(r4, A1)
  <2>1. Defines(A1, "native", A2) /\ Rooted(A1) /\ "native" \in Kinds
    BY <1>2, <1>3, <1>7 DEF Defines, Rooted, Kinds
  <2> HIDE DEF r3
  <2>2. QED
    BY <1>11, <2>1, SafeNew
<1>13. Safe(r5, A)
  <2>1. Keeps(A, A1) /\ "name" \in A.live
    BY <1>1, <1>2 DEF Keeps
  <2> HIDE DEF r4
  <2>2. QED
    BY <1>1, <1>2, <1>8, <1>12, <2>1, SafePush
<1>14. <<k1, k2, k3, k4, k5, k6, k6>> = r5
  <2>1. e = <<k6, k6>>
    BY DEF e
  <2> HIDE DEF k1, k2, k3, k4, k5, k6
  <2>2. <<k1, k2, k3, k4, k5, k6, k6>> = Cons(k1, <<k2, k3, k4, k5, k6, k6>>)
    BY Split7, Zenon DEF Cons
  <2>3. <<k2, k3, k4, k5, k6, k6>> = Cons(k2, <<k3, k4, k5, k6, k6>>)
    BY Split6, Zenon DEF Cons
  <2>4. <<k3, k4, k5, k6, k6>> = Cons(k3, <<k4, k5, k6, k6>>)
    BY Split5, Zenon DEF Cons
  <2>5. <<k4, k5, k6, k6>> = Cons(k4, <<k5, k6, k6>>)
    BY Split4, Zenon DEF Cons
  <2>6. <<k5, k6, k6>> = Cons(k5, e)
    BY <2>1, Split3, Zenon DEF Cons
  <2>7. QED
    BY <2>2, <2>3, <2>4, <2>5, <2>6, Zenon
<1>15. QED
  BY <1>13, <1>14, Zenon DEF A

LEMMA SafeVmInit ==
  ASSUME NEW n \in Nat, n + 2 <= StackMax, StackMax \in Nat
  PROVE  Safe(ConstructString("init") \o <<InitName("init")>>
                \o ConstructString("name") \o <<Push("name"), Make("native", "native", {}),
                                          Push("native"), Grow,
                                          Global("name", "native"), Pop, Pop>>,
              Known(n, {"init", "name", "native"}, {}, {}, {}, {}, {}, {}))
<1> DEFINE A1 == Known(n, {"init", "name", "native"}, {}, {}, {}, {}, {}, {})
           A2 == Known(n, {"name", "native"}, {"init"}, {}, {}, {}, {}, {})
           A3 == Known(n, {"name", "native"}, {}, {}, {}, {}, {}, {})
           A4 == Known(n, {"native"}, {"name"}, {"name"}, {}, {}, {}, {})
           e  == <<Push("name"), Make("native", "native", {}), Push("native"), Grow,
                   Global("name", "native"), Pop, Pop>>
           a  == InitName("init")
           p  == <<a>>
           i  == ConstructString("init")
           g  == ConstructString("name")
           q  == g \o e
<1>1. Safe(e, A4)
  BY SafeNative
<1>2. Safe(q, A3)
  <2>1. Defines(A3, "name", A4)
    BY KnownIs DEF Defines
  <2>2. A4.live = {"name"} /\ A4.reach = {} /\ A4.on = {} /\ A3.top = n
    BY KnownIs
  <2> HIDE DEF e, A3, A4
  <2>3. QED
    BY <1>1, <2>1, <2>2, SafeConstruct
<1>3. Safe(Cons(a, q), A2)
  <2>1. Same(A2, A3) /\ A3.reach = {} /\ "init" \in A2.live
    BY KnownIs DEF Same, Keeps
  <2> HIDE DEF q, A2, A3
  <2>2. QED
    BY <1>2, <2>1, SafeStore
<1>4. Safe(p \o q, A2)
  <2>1. p \o q = Cons(a, q)
    BY Zenon DEF Cons
  <2>2. QED
    BY <1>3, <2>1, Zenon
<1>5. Safe(i \o (p \o q), A1)
  <2> DEFINE t == p \o q
  <2>1. Safe(t, A2)
    BY <1>4
  <2>2. Defines(A1, "init", A2)
    BY KnownIs DEF Defines
  <2>3. A2.live = {"init"} /\ A2.reach = {} /\ A2.on = {} /\ A1.top = n
    BY KnownIs
  <2> HIDE DEF t, A1, A2
  <2>4. Safe(i \o t, A1)
    BY <2>1, <2>2, <2>3, SafeConstruct
  <2>5. QED
    BY <2>4 DEF t
<1>6. ((i \o p) \o g) \o e = i \o (p \o (g \o e))
  <2>1. IsList(i) /\ IsList(g) /\ IsList(e) /\ IsList(p)
    BY <1>1, SafeIs, ConstructList, One, Zenon
  <2> HIDE DEF i, g, e, p
  <2>2. Regrouped(i, p, g, e)
    BY <2>1, JoinThree
  <2>3. QED
    BY <2>2, Zenon DEF Regrouped
<1>7. QED
  <2> HIDE DEF i, g, e, p, A1
  <2>1. Safe(((i \o p) \o g) \o e, A1)
    BY <1>5, <1>6, Zenon
  <2>2. QED
    BY <2>1, Zenon DEF i, g, e, p, A1

-------------------------------------------------------------------------------
(* Each operation begins where its list is safe.                           *)
LEMMA IInvIs ==
  IInv /\ Limits => WellFormed /\ top \in Nat /\ StackMax \in Nat /\ top <= StackMax
BY DEF IInv, WellFormed, Limits

LEMMA FitsReach ==
  ASSUME WellFormed, NEW v, NEW u, NEW l, NEW o, NEW r, l \subseteq DOMAIN v,
         u \cap DOMAIN v = {}, o \subseteq l, r \subseteq l,
         \A x \in l : v[x] \in Reach, \A x \in o : v[x] # Nil
  PROVE  Fits(Known(top, u, l, o, r, {}, {}, {}), v)
<1> DEFINE A == Known(top, u, l, o, r, {}, {}, {})
<1>1. /\ A.top = top /\ A.undef = u /\ A.live = l /\ A.obj = o /\ A.reach = r
      /\ A.on = {} /\ A.comp = {} /\ A.const = {}
  BY KnownIs
<1> HIDE DEF A
<1>2. \A x \in l : v[x] \in Alive
  BY RootReach
<1>3. Fits(A, v)
  BY <1>1, <1>2 DEF Fits
<1>4. QED
  BY <1>3 DEF A

LEMMA OpConstSafe ==
  ASSUME Limits, IInv, OpConst
  PROVE  IInv'
<1>0. WellFormed /\ Running /\ top \in Nat /\ top < StackMax
  BY IInvIs DEF OpConst, Working
<1>1. PICK c \in Names \cup {Nil} : Start([constant |-> c], <<Push("constant")>>)
  BY DEF OpConst
<1> DEFINE A == Known(top, {}, {"constant"}, {}, {}, {}, {}, {})
           v == [constant |-> c]
           steps == <<Push("constant")>>
<1>2. Safe(steps, A)
  BY <1>0, SafePushOnly
<1>3. c \in Alive
  BY <1>0, FrameIs, RootReach DEF Names, Held, Alive
<1>4. Fits(A, v)
  BY <1>3, KnownIs DEF Fits
<1> HIDE DEF A, v, steps
<1>5. Start(v, steps)
  BY <1>1 DEF v, steps
<1>6. QED
  BY <1>0, <1>2, <1>4, <1>5, StartSafe

LEMMA OpPopSafe ==
  ASSUME Limits, IInv, OpPop
  PROVE  IInv'
<1>0. WellFormed /\ Running /\ top \in Nat /\ top > 0 /\ Start(<<>>, <<Pop>>)
  BY IInvIs, FrameIs DEF OpPop
<1> DEFINE v == <<>>
           steps == <<Pop>>
<1>1. Safe(steps, Nothing(top))
  BY <1>0, SafePopOnly
<1>2. Fits(Nothing(top), v)
  BY KnownIs DEF Fits, Nothing
<1>3. Start(v, steps)
  BY <1>0
<1> HIDE DEF v, steps
<1>4. QED
  BY <1>0, <1>1, <1>2, <1>3, StartSafe

LEMMA OpAddSafe ==
  ASSUME Limits, IInv, OpAdd
  PROVE  IInv'
<1> DEFINE v == [left |-> Peek(1), right |-> Peek(0)]
           S == {"left", "right"}
           q == {<<"left", top - 1>>, <<"right", top>>}
           steps == <<Grow, Use({"left", "right"})>> \o ConstructString("result") \o <<Pop, Pop, Push("result")>>
           A == Known(top, {"result"}, S, {}, {}, q, {}, {})
<1>0. WellFormed /\ Running /\ top \in Nat /\ StackMax \in Nat /\ top > 1 /\ top < StackMax
  BY IInvIs, FrameIs DEF OpAdd, Working
<1>1. Start(v, steps)
  BY DEF OpAdd
<1>2. Safe(steps, A)
  BY <1>0, SafeAdd, Zenon
<1>3. /\ Peek(0) = stack[top] /\ Peek(1) = stack[top - 1] /\ Peek(0) \in Alive /\ Peek(1) \in Alive
      /\ top \in 1 .. top /\ top - 1 \in 1 .. top
  <2>1. Peek(0) = stack[top - 0] /\ Peek(0) \in Alive /\ top - 0 = top
    BY <1>0, PeekIs
  <2>2. Peek(1) = stack[top - 1] /\ Peek(1) \in Alive
    BY <1>0, PeekIs
  <2>3. QED
    BY <1>0, <2>1, <2>2
<1>4. /\ DOMAIN v = S /\ v["left"] = Peek(1) /\ v["right"] = Peek(0)
  OBVIOUS
<1>5. /\ A.top = top /\ A.undef = {"result"} /\ A.live = S /\ A.obj = {} /\ A.reach = {}
      /\ A.on = q /\ A.comp = {} /\ A.const = {}
  BY KnownIs
<1> HIDE DEF v, A, steps
<1>6. Fits(A, v)
  BY <1>3, <1>4, <1>5 DEF Fits
<1>7. QED
  BY <1>0, <1>1, <1>2, <1>6, StartSafe

LEMMA OpSetGlobalSafe ==
  ASSUME Limits, IInv, OpSetGlobal
  PROVE  IInv'
<1>1. PICK n \in Names, rest \in {<<Pop>>, <<>>} :
        Start([identifier |-> n, value |-> Peek(0)], <<Grow, Global("identifier", "value")>> \o rest)
  BY DEF OpSetGlobal
<1> DEFINE v == [identifier |-> n, value |-> Peek(0)]
           S == {"identifier", "value"}
           steps == <<Grow, Global("identifier", "value")>> \o rest
           A == Known(top, {}, S, {}, S, {}, {}, {})
<1>0. WellFormed /\ Running /\ top \in Nat /\ top > 0
  BY IInvIs, FrameIs DEF OpSetGlobal
<1>2. Safe(steps, A)
  BY <1>0, SafeSetGlobal
<1>3. n \in Reach /\ Peek(0) \in Reach
  BY <1>0, FrameIs, PeekIs DEF Names, Held
<1>4. DOMAIN v = S /\ v["identifier"] = n /\ v["value"] = Peek(0) /\ Start(v, steps)
  BY <1>1
<1> HIDE DEF v, steps
<1>5. Fits(A, v)
  BY <1>0, <1>3, <1>4, FitsReach
<1> HIDE DEF A
<1>6. QED
  BY <1>0, <1>2, <1>4, <1>5, StartSafe

LEMMA OpGetGlobalSafe ==
  ASSUME Limits, IInv, OpGetGlobal
  PROVE  IInv'
<1>1. PICK g \in globals : Start([value |-> g[2]], <<Push("value")>>)
  BY DEF OpGetGlobal
<1> DEFINE v == [value |-> g[2]]
           steps == <<Push("value")>>
           A == Known(top, {}, {"value"}, {}, {}, {}, {}, {})
<1>0. WellFormed /\ top \in Nat /\ top < StackMax
  BY IInvIs DEF OpGetGlobal, Working
<1>2. Safe(steps, A)
  BY <1>0, SafePushOnly
<1>3. g[2] \in Alive
  BY <1>0 DEF WellFormed
<1>4. Fits(A, v)
  BY <1>3, KnownIs DEF Fits
<1>5. Start(v, steps)
  BY <1>1
<1> HIDE DEF A, v, steps
<1>6. QED
  BY <1>0, <1>2, <1>4, <1>5, StartSafe

LEMMA OpClosureSafe ==
  ASSUME Limits, IInv, OpClosure
  PROVE  IInv'
<1> DEFINE p(s) == Capturing("first", s, {})
           q(s) == Capturing("second", s, {"first"})
           e    == <<Push("closure")>>
<1>0. WellFormed /\ Running /\ top \in Nat /\ top < StackMax /\ Frame.slot \in 1 .. StackMax
  BY IInvIs, FrameIs DEF OpClosure, Working
<1>c. PICK c \in Held(Code, "closure") :
        \/ Start([closure |-> c], e)
        \/ \E s \in Sources : Start([closure |-> c], e \o p(s))
        \/ \E s, r \in Sources :
             /\ s # r \/ s = Around
             /\ Start([closure |-> c], (e \o p(s)) \o q(r))
  BY DEF OpClosure
<1>r. c \in Reach /\ c # Nil
  BY <1>0, FrameIs, HeldIs
<1>s. \A s \in Sources : Upvalues(s) = {} => s \in 1 .. top + 1
  BY <1>0 DEF Sources
<1>1. ASSUME NEW U, "closure" \notin U, NEW steps, Start([closure |-> c], steps),
             Safe(steps, Known(top, U, {"closure"}, {"closure"}, {}, {}, {}, {}))
      PROVE  IInv'
  <2> DEFINE v == [closure |-> c]
             A == Known(top, U, {"closure"}, {"closure"}, {}, {}, {}, {})
  <2>1. Safe(steps, A)
    BY <1>1
  <2>2. DOMAIN v = {"closure"} /\ v["closure"] = c /\ Start(v, steps)
    BY <1>1
  <2> HIDE DEF v
  <2>3. Fits(A, v)
    BY <1>0, <1>1, <1>r, <2>2, FitsReach
  <2> HIDE DEF A
  <2>4. QED
    BY <1>0, <2>1, <2>2, <2>3, StartSafe
<1> DEFINE n == top + 1
<1>2. n \in Nat
  BY <1>0
<1>3. CASE Start([closure |-> c], e)
  <2>1. e \o <<>> = e
    BY One, Ending
  <2>2. Safe(<<>>, Taken(n, {}))
    BY SafeEnd
  <2>3. Safe(e \o <<>>, Known(top, {}, {"closure"}, {"closure"}, {}, {}, {}, {}))
    BY <1>0, <2>2, SafeClosure
  <2>4. QED
    BY <1>1, <1>3, <2>1, <2>3
<1>4. ASSUME NEW s \in Sources, Start([closure |-> c], e \o p(s))
      PROVE  IInv'
  <2> DEFINE x == p(s)
             U == {"first"}
  <2>1. IsList(x) /\ x \o <<>> = x
    <3>1. IsList(x)
      BY CapturingIs, NoSteps, Zenon
    <3> HIDE DEF x
    <3>2. QED
      BY <3>1, Ending
  <2>2. Safe(<<>>, Taken(n, U \ {"first"}))
    BY SafeEnd
  <2>3. Safe(x \o <<>>, Taken(n, U))
    <3> HIDE DEF n
    <3>1. Upvalues(s) = {} => s \in 1 .. n
      BY <1>s DEF n
    <3>2. QED
      BY <1>2, <2>2, <3>1, SafeCapturing
  <2> HIDE DEF x, U
  <2>4. Safe(e \o x, Known(top, U, {"closure"}, {"closure"}, {}, {}, {}, {}))
    BY <1>0, <2>1, <2>3, SafeClosure
  <2>5. QED
    BY <1>1, <1>4, <2>4 DEF x, U
<1>5. ASSUME NEW s \in Sources, NEW r \in Sources,
             Start([closure |-> c], (e \o p(s)) \o q(r))
      PROVE  IInv'
  <2> DEFINE x == p(s)
             y == q(r)
             U == {"first", "second"}
             V == {"second"}
  <2>1. IsList(x) /\ IsList(y) /\ IsList(e) /\ y \o <<>> = y
    <3>1. IsList(x) /\ IsList(y) /\ IsList(e)
      BY CapturingIs, NoSteps, One, Zenon
    <3> HIDE DEF x, y, e
    <3>2. QED
      BY <3>1, Ending
  <2>2. Safe(<<>>, Taken(n, V \ {"second"}))
    BY SafeEnd
  <2>3. Safe(y \o <<>>, Taken(n, V))
    <3> HIDE DEF n
    <3>1. Upvalues(r) = {} => r \in 1 .. n
      BY <1>s DEF n
    <3>2. QED
      BY <1>2, <2>2, <3>1, SafeCapturing
  <2>4. U \ {"first"} = V
    OBVIOUS
  <2>5. Safe(x \o y, Taken(n, U))
    <3> HIDE DEF n, y
    <3>1. Upvalues(s) = {} => s \in 1 .. n
      BY <1>s DEF n
    <3>2. Safe(y, Taken(n, U \ {"first"}))
      BY <2>1, <2>3, <2>4
    <3>3. QED
      BY <1>2, <3>1, <3>2, SafeCapturing
  <2>6. (e \o x) \o y = e \o (x \o y)
    <3> HIDE DEF x, y, e
    <3>1. QED
      BY <2>1, JoinAssociates
  <2> HIDE DEF x, y, U, V
  <2>7. Safe(e \o (x \o y), Known(top, U, {"closure"}, {"closure"}, {}, {}, {}, {}))
    BY <1>0, <2>5, SafeClosure
  <2>8. Start([closure |-> c], (e \o x) \o y)
    BY <1>5 DEF x, y
  <2>9. "closure" \notin U
    BY DEF U
  <2> HIDE DEF e
  <2>10. QED
    BY <1>1, <2>6, <2>7, <2>8, <2>9
<1>6. QED
  BY <1>c, <1>3, <1>4, <1>5

LEMMA OpClassSafe ==
  ASSUME Limits, IInv, OpClass
  PROVE  IInv'
<1>1. PICK n \in Names : Start([name |-> n], <<Make("class", "class", {}), Use({"name"}), Push("class")>>)
  BY DEF OpClass
<1> DEFINE v == [name |-> n]
           S == {"name"}
           steps == <<Make("class", "class", {}), Use({"name"}), Push("class")>>
           A == Known(top, {"class"}, S, S, S, {}, {}, {})
<1>0. WellFormed /\ Running /\ top \in Nat /\ top < StackMax
  BY IInvIs DEF OpClass, Working
<1>2. Safe(steps, A)
  BY <1>0, SafeClass
<1>3. n \in Reach /\ n # Nil
  BY <1>0, FrameIs, HeldIs DEF Names
<1>4. DOMAIN v = S /\ v["name"] = n /\ Start(v, steps)
  BY <1>1
<1> HIDE DEF v, steps
<1>5. Fits(A, v)
  BY <1>0, <1>3, <1>4, FitsReach
<1> HIDE DEF A
<1>6. QED
  BY <1>0, <1>2, <1>4, <1>5, StartSafe

(* What most operations need: their C variables hold what is reachable.    *)
LEMMA StartReach ==
  ASSUME Limits, WellFormed, NEW v, NEW steps, NEW u, NEW l, NEW o, NEW r,
         Safe(steps, Known(top, u, l, o, r, {}, {}, {})), Start(v, steps),
         DOMAIN v = l, u \cap l = {}, o \subseteq l, r \subseteq l,
         \A x \in l : v[x] \in Reach, \A x \in o : v[x] # Nil
  PROVE  IInv'
<1> DEFINE A == Known(top, u, l, o, r, {}, {}, {})
<1>1. Fits(A, v)
  BY FitsReach
<1> HIDE DEF A
<1>2. Safe(steps, A)
  BY DEF A
<1>3. QED
  BY <1>1, <1>2, StartSafe

LEMMA OpMethodSafe ==
  ASSUME Limits, IInv, OpMethod
  PROVE  IInv'
<1>0. WellFormed /\ Running /\ top \in Nat /\ top > 1 /\ Is(Peek(1), "class")
  BY IInvIs, FrameIs DEF OpMethod
<1>1. PICK n \in Names :
        Start([name |-> n, class |-> Peek(1), method |-> Peek(0)],
              <<Grow, Link("class", "name"), Link("class", "method"), Pop>>)
  BY DEF OpMethod
<1> DEFINE v == [name |-> n, class |-> Peek(1), method |-> Peek(0)]
           S == {"class", "name", "method"}
           O == {"class"}
           steps == <<Grow, Link("class", "name"), Link("class", "method"), Pop>>
<1>2. Safe(steps, Known(top, {}, S, O, S, {}, {}, {}))
  BY <1>0, SafeMethod
<1>3. n \in Reach /\ Peek(0) \in Reach /\ Peek(1) \in Reach /\ Peek(1) # Nil
  BY <1>0, FrameIs, PeekIs DEF Names, Held
<1>4. /\ DOMAIN v = S /\ v["name"] = n /\ v["class"] = Peek(1) /\ v["method"] = Peek(0)
      /\ Start(v, steps)
  BY <1>1
<1> HIDE DEF v, steps
<1>5. (\A x \in S : v[x] \in Reach) /\ (\A x \in O : v[x] # Nil) /\ O \subseteq S
  BY <1>3, <1>4
<1> HIDE DEF S, O
<1>6. QED
  BY <1>0, <1>2, <1>4, <1>5, StartReach

LEMMA OpSetPropertySafe ==
  ASSUME Limits, IInv, OpSetProperty
  PROVE  IInv'
<1>0. /\ WellFormed /\ Running /\ top \in Nat /\ StackMax \in Nat /\ top > 1 /\ top <= StackMax
      /\ Is(Peek(1), "instance")
  BY IInvIs, FrameIs DEF OpSetProperty
<1>1. PICK n \in Names :
        Start([name |-> n, instance |-> Peek(1), value |-> Peek(0)],
              <<Grow, Link("instance", "name"), Link("instance", "value"),
                Pop, Pop, Push("value")>>)
  BY DEF OpSetProperty
<1> DEFINE v == [name |-> n, instance |-> Peek(1), value |-> Peek(0)]
           S == {"instance", "name", "value"}
           O == {"instance"}
           steps == <<Grow, Link("instance", "name"), Link("instance", "value"),
                      Pop, Pop, Push("value")>>
<1>2. Safe(steps, Known(top, {}, S, O, S, {}, {}, {}))
  BY <1>0, SafeSetProperty
<1>3. n \in Reach /\ Peek(0) \in Reach /\ Peek(1) \in Reach /\ Peek(1) # Nil
  BY <1>0, FrameIs, PeekIs DEF Names, Held
<1>4. /\ DOMAIN v = S /\ v["name"] = n /\ v["instance"] = Peek(1) /\ v["value"] = Peek(0)
      /\ Start(v, steps)
  BY <1>1
<1> HIDE DEF v, steps
<1>5. (\A x \in S : v[x] \in Reach) /\ (\A x \in O : v[x] # Nil) /\ O \subseteq S
  BY <1>3, <1>4
<1> HIDE DEF S, O
<1>6. QED
  BY <1>0, <1>2, <1>4, <1>5, StartReach

(* A bound method and its parts.                                           *)
LEMMA BoundSafe ==
  ASSUME Limits, WellFormed, top \in Nat, StackMax \in Nat, top <= StackMax,
         NEW a \in {"top", "receiver"}, NEW p \in Reach, NEW m \in Reach, p # Nil, m # Nil,
         NEW v, DOMAIN v = {a, "method"}, v[a] = p, v["method"] = m,
         \/ top > 0 /\ Start(v, <<Make("bound", "bound", {a, "method"}), Pop, Push("bound")>>)
         \/ top > 1 /\ Start(v, <<Make("bound", "bound", {a, "method"}), Pop, Pop, Push("bound")>>)
  PROVE  IInv'
<1> DEFINE S == {a, "method"}
           U == {"bound"}
<1>1. PICK steps : Start(v, steps) /\ Safe(steps, Known(top, U, S, S, S, {}, {}, {}))
  BY SafeBound
<1>2. (\A x \in S : v[x] \in Reach) /\ (\A x \in S : v[x] # Nil) /\ U \cap S = {}
  OBVIOUS
<1> HIDE DEF S, U
<1>3. DOMAIN v = S
  BY DEF S
<1>4. QED
  BY <1>1, <1>2, <1>3, StartReach

LEMMA MethodsReach ==
  ASSUME WellFormed, NEW c \in Reach, NEW m \in Methods(c)
  PROVE  m \in Reach /\ m # Nil
BY ChildrenReach, HeldIs DEF Methods

LEMMA OpGetPropertySafe ==
  ASSUME Limits, IInv, OpGetProperty
  PROVE  IInv'
<1>0. /\ WellFormed /\ Running /\ top \in Nat /\ StackMax \in Nat /\ top > 0 /\ top <= StackMax
      /\ Is(Peek(0), "instance")
  BY IInvIs, FrameIs DEF OpGetProperty
<1>1. Peek(0) \in Reach /\ Peek(0) # Nil
  BY <1>0, PeekIs
<1>2. ASSUME NEW o \in Children(Peek(0)), Start([property |-> o], <<Pop, Push("property")>>)
      PROVE  IInv'
  <2> DEFINE v == [property |-> o]
             S == {"property"}
             steps == <<Pop, Push("property")>>
  <2>1. Safe(steps, Known(top, {}, S, {}, {}, {}, {}, {}))
    BY <1>0, SafePopPush
  <2>2. o \in Reach
    BY <1>0, <1>1, ChildrenReach
  <2>3. DOMAIN v = S /\ (\A x \in S : v[x] = o) /\ Start(v, steps)
    BY <1>2
  <2> HIDE DEF v, S, steps
  <2>4. QED
    BY <1>0, <2>1, <2>2, <2>3, StartReach
<1>3. ASSUME NEW c \in Held(Children(Peek(0)), "class"), NEW m \in Methods(c),
             Start([top |-> Peek(0), method |-> m],
                   <<Make("bound", "bound", {"top", "method"}), Pop, Push("bound")>>)
      PROVE  IInv'
  <2> DEFINE v == [top |-> Peek(0), method |-> m]
  <2>1. c \in Reach
    BY <1>0, <1>1, ChildrenReach DEF Held
  <2>2. m \in Reach /\ m # Nil
    BY <1>0, <2>1, MethodsReach
  <2>3. DOMAIN v = {"top", "method"} /\ v["top"] = Peek(0) /\ v["method"] = m
    OBVIOUS
  <2>4. Start(v, <<Make("bound", "bound", {"top", "method"}), Pop, Push("bound")>>)
    BY <1>3
  <2> HIDE DEF v
  <2>5. QED
    BY <1>0, <1>1, <2>2, <2>3, <2>4, BoundSafe
<1>4. QED
  BY <1>2, <1>3 DEF OpGetProperty

LEMMA OpGetSuperSafe ==
  ASSUME Limits, IInv, OpGetSuper
  PROVE  IInv'
<1>0. /\ WellFormed /\ Running /\ top \in Nat /\ StackMax \in Nat /\ top > 1 /\ top <= StackMax
      /\ Is(Peek(1), "instance")
  BY IInvIs, FrameIs DEF OpGetSuper
<1>1. Peek(0) \in Reach /\ Peek(1) \in Reach /\ Peek(1) # Nil
  BY <1>0, PeekIs
<1>2. PICK m \in Methods(Peek(0)) :
        Start([receiver |-> Peek(1), method |-> m],
              <<Make("bound", "bound", {"receiver", "method"}), Pop, Pop, Push("bound")>>)
  BY DEF OpGetSuper
<1> DEFINE v == [receiver |-> Peek(1), method |-> m]
<1>3. m \in Reach /\ m # Nil
  BY <1>0, <1>1, MethodsReach
<1>4. DOMAIN v = {"receiver", "method"} /\ v["receiver"] = Peek(1) /\ v["method"] = m
  OBVIOUS
<1>5. Start(v, <<Make("bound", "bound", {"receiver", "method"}), Pop, Pop, Push("bound")>>)
  BY <1>2
<1> HIDE DEF v
<1>6. QED
  BY <1>0, <1>1, <1>3, <1>4, <1>5, BoundSafe

LEMMA OpCallSafe ==
  ASSUME Limits, IInv, OpCall
  PROVE  IInv'
<1>0. /\ WellFormed /\ Running /\ top \in Nat /\ StackMax \in Nat /\ top > 0 /\ top <= StackMax
      /\ top \in 1 .. StackMax
  BY IInvIs, FrameIs DEF OpCall
<1>1. Peek(0) \in Reach /\ (Is(Peek(0), "class") => Peek(0) # Nil)
  BY <1>0, PeekIs
<1>2. ASSUME NEW o \in Reach, NEW x, NEW v, DOMAIN v = {x}, v[x] = o,
             Start(v, <<Call(x, top)>>)
      PROVE  IInv'
  <2> DEFINE S == {x}
             steps == <<Call(x, top)>>
  <2>1. Safe(steps, Known(top, {}, S, {}, {}, {}, {}, {}))
    BY <1>0, SafeCall
  <2>2. DOMAIN v = S /\ (\A y \in S : v[y] = o) /\ Start(v, steps)
    BY <1>2
  <2> HIDE DEF S, steps
  <2>3. QED
    BY <1>0, <2>1, <2>2, StartReach
<1>3. ASSUME Start([closure |-> Peek(0)], <<Call("closure", top)>>)
      PROVE  IInv'
  <2> DEFINE v == [closure |-> Peek(0)]
  <2>1. DOMAIN v = {"closure"} /\ v["closure"] = Peek(0) /\ Start(v, <<Call("closure", top)>>)
    BY <1>3
  <2> HIDE DEF v
  <2>2. QED
    BY <1>1, <1>2, <2>1
<1>4. ASSUME Is(Peek(0), "class"), Start([class |-> Peek(0)],
                   <<Make("instance", "instance", {"class"}), Put("instance")>>)
      PROVE  IInv'
  <2> DEFINE v == [class |-> Peek(0)]
             S == {"class"}
             U == {"instance"}
             steps == <<Make("instance", "instance", {"class"}), Put("instance")>>
  <2>1. Safe(steps, Known(top, U, S, S, S, {}, {}, {}))
    BY <1>0, SafeInstance
  <2>2. DOMAIN v = S /\ (\A x \in S : v[x] = Peek(0)) /\ Start(v, steps) /\ U \cap S = {}
    BY <1>4
  <2> HIDE DEF v, S, U, steps
  <2>3. QED
    BY <1>0, <1>1, <1>4, <2>1, <2>2, StartReach
<1>5. ASSUME Is(Peek(0), "class"), NEW m \in Methods(Peek(0)),
             Start([class |-> Peek(0), init |-> m],
                   <<Make("instance", "instance", {"class"}), Call("init", top), Put("instance")>>)
      PROVE  IInv'
  <2> DEFINE v == [class |-> Peek(0), init |-> m]
             S == {"class", "init"}
             U == {"instance"}
             steps == <<Make("instance", "instance", {"class"}), Call("init", top), Put("instance")>>
  <2>1. Safe(steps, Known(top, U, S, S, S, {}, {}, {}))
    BY <1>0, SafeInstance
  <2>2. m \in Reach /\ m # Nil
    BY <1>0, <1>1, MethodsReach
  <2>3. DOMAIN v = S /\ v["class"] = Peek(0) /\ v["init"] = m /\ Start(v, steps) /\ U \cap S = {}
    BY <1>5
  <2> HIDE DEF v, U, steps
  <2>4. (\A x \in S : v[x] \in Reach) /\ (\A x \in S : v[x] # Nil)
    BY <1>1, <1>5, <2>2, <2>3
  <2> HIDE DEF S
  <2>5. QED
    BY <1>0, <2>1, <2>3, <2>4, StartReach
<1>6. ASSUME NEW r \in Held(Children(Peek(0)), "instance"), NEW m \in Methods(Peek(0)),
             Start([receiver |-> r, method |-> m], <<Call("method", top), Put("receiver")>>)
      PROVE  IInv'
  <2> DEFINE v == [receiver |-> r, method |-> m]
             S == {"receiver", "method"}
             steps == <<Call("method", top), Put("receiver")>>
  <2>1. Safe(steps, Known(top, {}, S, {}, {}, {}, {}, {}))
    BY <1>0, SafeCallPut
  <2>2. m \in Reach /\ r \in Reach
    BY <1>0, <1>1, MethodsReach, ChildrenReach DEF Held
  <2>3. DOMAIN v = S /\ v["receiver"] = r /\ v["method"] = m /\ Start(v, steps)
    BY <1>6
  <2> HIDE DEF v, steps
  <2>4. \A x \in S : v[x] \in Reach
    BY <2>2, <2>3
  <2> HIDE DEF S
  <2>5. QED
    BY <1>0, <2>1, <2>3, <2>4, StartReach
<1>7. ASSUME NEW c \in Held(Children(Peek(0)), "class"), NEW m \in Methods(c),
             Start([method |-> m], <<Call("method", top)>>)
      PROVE  IInv'
  <2> DEFINE v == [method |-> m]
  <2>1. c \in Reach
    BY <1>0, <1>1, ChildrenReach DEF Held
  <2>2. m \in Reach
    BY <1>0, <2>1, MethodsReach
  <2>3. DOMAIN v = {"method"} /\ v["method"] = m /\ Start(v, <<Call("method", top)>>)
    BY <1>7
  <2> HIDE DEF v
  <2>4. QED
    BY <1>2, <2>2, <2>3
<1>8. QED
  BY <1>3, <1>4, <1>5, <1>6, <1>7 DEF OpCall

(* While compiling, the variables hold functions of Compilers.             *)
LEMMA StartCompiling ==
  ASSUME WellFormed, NEW v, NEW steps, NEW u, NEW l, NEW c,
         Safe(steps, Known(top, u, l, l, {}, {}, c, {})), Start(v, steps),
         DOMAIN v = l, u \cap l = {}, \A x \in l : \E n \in DOMAIN compilers : v[x] = compilers[n],
         \A x \in c : x[1] \in l /\ x[2] \in DOMAIN compilers /\ compilers[x[2]] = v[x[1]]
  PROVE  IInv'
<1> DEFINE A == Known(top, u, l, l, {}, {}, c, {})
<1>1. /\ A.top = top /\ A.undef = u /\ A.live = l /\ A.obj = l /\ A.reach = {}
      /\ A.on = {} /\ A.comp = c /\ A.const = {}
  BY KnownIs
<1>2. \A n \in DOMAIN compilers : compilers[n] \in Alive /\ compilers[n] # Nil
  BY NilIsNone DEF WellFormed, Alive
<1> HIDE DEF A
<1>3. Fits(A, v)
  BY <1>1, <1>2 DEF Fits
<1>4. Safe(steps, A)
  BY DEF A
<1>5. QED
  BY <1>3, <1>4, StartSafe

LEMMA CompilingIs ==
  ASSUME IInv, Limits, Compiling
  PROVE  /\ WellFormed /\ top \in Nat /\ top < StackMax /\ StackMax \in Nat
         /\ Head(compilers) = compilers[1] /\ DOMAIN compilers = 1 .. Len(compilers)
         /\ Len(compilers) \in Nat /\ 1 \in DOMAIN compilers
<1>1. WellFormed /\ top \in Nat /\ StackMax \in Nat /\ compilers \in Seq(Objects) /\ compilers # <<>>
  BY IInvIs DEF Compiling, WellFormed
<1>2. Len(compilers) \in Nat /\ Len(compilers) # 0 /\ DOMAIN compilers = 1 .. Len(compilers)
  BY <1>1, EmptySeq, LenProperties
<1>3. QED
  BY <1>1, <1>2 DEF Compiling

LEMMA VmInitSafe ==
  ASSUME Limits, IInv, VmInit
  PROVE  IInv'
<1>0. WellFormed /\ top \in Nat /\ StackMax \in Nat /\ top + 2 <= StackMax
  BY IInvIs DEF VmInit
<1> DEFINE v == <<>>
           u == {"init", "name", "native"}
           steps == ConstructString("init") \o <<InitName("init")>>
                      \o ConstructString("name") \o <<Push("name"), Make("native", "native", {}),
                                                Push("native"), Grow,
                                                Global("name", "native"), Pop, Pop>>
<1>1. Safe(steps, Known(top, u, {}, {}, {}, {}, {}, {}))
  BY <1>0, SafeVmInit, Zenon
<1>2. Start(v, steps)
  BY DEF VmInit
<1>3. DOMAIN v = {}
  OBVIOUS
<1> HIDE DEF v, u, steps
<1>4. QED
  BY <1>0, <1>1, <1>2, <1>3, StartCompiling

LEMMA BeginScriptSafe ==
  ASSUME Limits, IInv, BeginScript
  PROVE  IInv'
<1>0. WellFormed
  BY IInvIs
<1> DEFINE v == <<>>
           u == {"function"}
           steps == <<Make("function", "function", {}), Enter("function")>>
<1>1. Safe(steps, Known(top, u, {}, {}, {}, {}, {}, {}))
  BY SafeScript
<1>2. Start(v, steps)
  BY DEF BeginScript
<1>3. DOMAIN v = {}
  OBVIOUS
<1> HIDE DEF v, u, steps
<1>4. QED
  BY <1>0, <1>1, <1>2, <1>3, StartCompiling

LEMMA ConstantSafe ==
  ASSUME Limits, IInv, Constant
  PROVE  IInv'
<1>0. /\ WellFormed /\ top \in Nat /\ top < StackMax
      /\ Head(compilers) = compilers[1] /\ 1 \in DOMAIN compilers
  BY CompilingIs DEF Constant
<1> DEFINE v == [current |-> Head(compilers)]
           u == {"value"}
           l == {"current"}
           c == {<<"current", 1>>}
           steps == Identifier("value") \o <<Grow>>
<1>1. Safe(steps, Known(top, u, l, l, {}, {}, c, {}))
  BY <1>0, SafeConstant, Zenon
<1>2. Start(v, steps)
  BY DEF Constant
<1>3. DOMAIN v = l /\ v["current"] = Head(compilers) /\ u \cap l = {}
  OBVIOUS
<1> HIDE DEF v
<1>4. /\ \A x \in l : \E n \in DOMAIN compilers : v[x] = compilers[n]
      /\ \A x \in c : x[1] \in l /\ x[2] \in DOMAIN compilers /\ compilers[x[2]] = v[x[1]]
  BY <1>0, <1>3
<1> HIDE DEF u, l, c, steps
<1>5. QED
  BY <1>0, <1>1, <1>2, <1>3, <1>4, StartCompiling

LEMMA BeginFunctionSafe ==
  ASSUME Limits, IInv, BeginFunction
  PROVE  IInv'
<1>0. /\ WellFormed /\ top \in Nat /\ top < StackMax
      /\ Head(compilers) = compilers[1] /\ 1 \in DOMAIN compilers
  BY CompilingIs DEF BeginFunction
<1> DEFINE v == [current |-> Head(compilers)]
           u == {"identifier", "function", "name"}
           l == {"current"}
           c == {<<"current", 1>>}
           steps == Identifier("identifier")
                      \o <<Make("function", "function", {})>> \o Again("name", "identifier")
                      \o <<Link("function", "name"), Enter("function")>>
<1>1. Safe(steps, Known(top, u, l, l, {}, {}, c, {}))
  BY <1>0, SafeBeginFunction, Zenon
<1>2. Start(v, steps)
  BY DEF BeginFunction
<1>3. DOMAIN v = l /\ v["current"] = Head(compilers) /\ u \cap l = {}
  OBVIOUS
<1> HIDE DEF v
<1>4. /\ \A x \in l : \E n \in DOMAIN compilers : v[x] = compilers[n]
      /\ \A x \in c : x[1] \in l /\ x[2] \in DOMAIN compilers /\ compilers[x[2]] = v[x[1]]
  BY <1>0, <1>3
<1> HIDE DEF u, l, c, steps
<1>5. QED
  BY <1>0, <1>1, <1>2, <1>3, <1>4, StartCompiling

LEMMA EndFunctionSafe ==
  ASSUME Limits, IInv, EndFunction
  PROVE  IInv'
<1>0. /\ WellFormed /\ top \in Nat /\ top < StackMax
      /\ 1 \in DOMAIN compilers /\ 2 \in DOMAIN compilers
  BY CompilingIs DEF EndFunction
<1> DEFINE v == [function |-> compilers[1], current |-> compilers[2]]
           u == {"closure"}
           l == {"function", "current"}
           c == {<<"function", 1>>, <<"current", 2>>}
           steps == EndCompiler \o <<Use({"closure"})>> \o AddConst("current", "closure") \o <<Grow>>
<1>1. Safe(steps, Known(top, u, l, l, {}, {}, c, {}))
  BY <1>0, SafeEndFunction, Zenon
<1>2. Start(v, steps)
  BY DEF EndFunction
<1>3. /\ DOMAIN v = l /\ v["function"] = compilers[1] /\ v["current"] = compilers[2]
      /\ u \cap l = {}
  OBVIOUS
<1> HIDE DEF v
<1>4. /\ \A x \in l : \E n \in DOMAIN compilers : v[x] = compilers[n]
      /\ \A x \in c : x[1] \in l /\ x[2] \in DOMAIN compilers /\ compilers[x[2]] = v[x[1]]
  BY <1>0, <1>3
<1> HIDE DEF u, l, c, steps
<1>5. QED
  BY <1>0, <1>1, <1>2, <1>3, <1>4, StartCompiling

LEMMA EndScriptSafe ==
  ASSUME Limits, IInv, EndScript
  PROVE  IInv'
<1>0. /\ WellFormed /\ top \in Nat /\ top < StackMax /\ StackMax \in Nat
      /\ Head(compilers) = compilers[1] /\ 1 \in DOMAIN compilers
  BY CompilingIs DEF EndScript
<1>1. PICK run \in {<<Push("closure"), Call("closure", top + 1)>>, <<>>} :
        Start([function |-> Head(compilers)], EndCompiler \o run)
  BY DEF EndScript
<1> DEFINE v == [function |-> Head(compilers)]
           u == {"closure"}
           l == {"function"}
           c == {<<"function", 1>>}
           steps == EndCompiler \o run
<1>2. Safe(steps, Known(top, u, l, l, {}, {}, c, {}))
  BY <1>0, SafeEndScript
<1>3. DOMAIN v = l /\ v["function"] = Head(compilers) /\ u \cap l = {} /\ Start(v, steps)
  BY <1>1
<1> HIDE DEF v
<1>4. /\ \A x \in l : \E n \in DOMAIN compilers : v[x] = compilers[n]
      /\ \A x \in c : x[1] \in l /\ x[2] \in DOMAIN compilers /\ compilers[x[2]] = v[x[1]]
  BY <1>0, <1>3
<1> HIDE DEF u, l, c, steps
<1>5. QED
  BY <1>0, <1>2, <1>3, <1>4, StartCompiling

(* A run of steps that all leave what is known as it is.                   *)
LEMMA RestElements ==
  ASSUME NEW t, IsList(t), NEW k \in 0 .. Len(t)
  PROVE  /\ IsList(Rest(t, k)) /\ Len(t) \in Nat /\ Len(Rest(t, k)) = Len(t) - k
         /\ \A i \in 1 .. Len(t) - k : Rest(t, k)[i] = t[k + i]
<1>1. PICK S : t \in Seq(S)
  BY DEF IsList
<1>2. Len(t) \in Nat /\ \A i \in k + 1 .. Len(t) : t[i] \in S
  BY <1>1, LenProperties, ElementOfSeq
<1>3. /\ Rest(t, k) \in Seq(S)
      /\ Len(Rest(t, k)) = IF k + 1 <= Len(t) THEN Len(t) - (k + 1) + 1 ELSE 0
      /\ \A i \in 1 .. Len(t) - (k + 1) + 1 : Rest(t, k)[i] = t[(k + 1) + i - 1]
  BY <1>2, SubSeqProperties DEF Rest
<1>4. Len(Rest(t, k)) = Len(t) - k
  BY <1>2, <1>3
<1>5. Len(t) - (k + 1) + 1 = Len(t) - k /\ \A i \in 1 .. Len(t) - k : (k + 1) + i - 1 = k + i
  BY <1>2
<1>6. \A i \in 1 .. Len(t) - k : Rest(t, k)[i] = t[k + i]
  BY <1>3, <1>5
<1>7. QED
  BY <1>2, <1>3, <1>4, <1>6 DEF IsList

LEMMA RestIs ==
  ASSUME NEW t, IsList(t), NEW k \in Nat, k < Len(t)
  PROVE  /\ Rest(t, k) # <<>> /\ Head(Rest(t, k)) = t[k + 1]
         /\ Rest(Rest(t, k), 1) = Rest(t, k + 1)
<1> DEFINE u == Rest(t, k)
<1>0. k \in 0 .. Len(t) /\ k + 1 \in 0 .. Len(t) /\ Len(t) \in Nat
  <2>1. Len(t) \in Nat
    BY LenProperties DEF IsList
  <2>2. QED
    BY <2>1
<1>1. IsList(u) /\ Len(u) = Len(t) - k /\ \A i \in 1 .. Len(t) - k : u[i] = t[k + i]
  BY <1>0, RestElements
<1> HIDE DEF u
<1>2. 1 \in 0 .. Len(u) /\ Len(u) \in Nat /\ 1 \in 1 .. Len(t) - k
  BY <1>0, <1>1
<1>3. u # <<>> /\ Head(u) = u[1]
  <2>1. PICK S : u \in Seq(S)
    BY <1>1 DEF IsList
  <2>2. QED
    BY <1>2, <2>1, NoSteps
<1>4. /\ IsList(Rest(u, 1)) /\ Len(Rest(u, 1)) = Len(u) - 1
      /\ \A i \in 1 .. Len(u) - 1 : Rest(u, 1)[i] = u[1 + i]
  BY <1>1, <1>2, RestElements, SMTT(40)
<1>5. /\ IsList(Rest(t, k + 1)) /\ Len(Rest(t, k + 1)) = Len(t) - (k + 1)
      /\ \A i \in 1 .. Len(t) - (k + 1) : Rest(t, k + 1)[i] = t[k + 1 + i]
  BY <1>0, RestElements
<1>6. Rest(u, 1) = Rest(t, k + 1)
  <2> DEFINE x == Rest(u, 1)
             y == Rest(t, k + 1)
  <2> HIDE DEF x, y
  <2>1. Len(x) = Len(y) /\ Len(y) = Len(t) - (k + 1)
    BY <1>0, <1>1, <1>4, <1>5 DEF x, y
  <2>2. \A i \in 1 .. Len(t) - (k + 1) : x[i] = u[1 + i] /\ y[i] = t[k + 1 + i]
    BY <1>0, <1>1, <1>4, <1>5 DEF x, y
  <2>3. \A i \in 1 .. Len(t) - (k + 1) : 1 + i \in 1 .. Len(t) - k /\ k + (1 + i) = k + 1 + i
    BY <1>0
  <2>4. \A i \in 1 .. Len(t) - (k + 1) : u[1 + i] = t[k + (1 + i)]
    BY <1>1, <2>3
  <2>5. \A i \in 1 .. Len(x) : x[i] = y[i]
    BY <2>1, <2>2, <2>3, <2>4
  <2>6. PICK S, T : x \in Seq(S) /\ y \in Seq(T)
    BY <1>4, <1>5 DEF IsList, x, y
  <2>7. x \in Seq(S \cup T) /\ y \in Seq(S \cup T)
    BY <2>6, SeqMonotonic
  <2>8. x = y
    BY <2>1, <2>5, <2>7, SeqEqual
  <2>9. QED
    BY <2>8 DEF x, y
<1>7. QED
  BY <1>1, <1>2, <1>3, <1>6 DEF u

LEMMA SafeRun ==
  ASSUME NEW p, NEW r, NEW A, IsList(p), Safe(r, A),
         \A i \in 1 .. Len(p) : /\ p[i].do \notin {"find", "again"} /\ After(A, p[i], A)
                               /\ p[i].reads \subseteq A.live \cup A.undef
  PROVE  Safe(p \o r, A)
<1> DEFINE t == p \o r
<1>1. PICK H : <<r, A>> \in H /\ Chained(H)
  BY DEF Safe
<1>2. IsList(r) /\ Reads(r, A)
  BY SafeIs
<1>3. /\ IsList(t) /\ Len(p) \in Nat /\ Len(r) \in Nat /\ Len(t) = Len(p) + Len(r)
      /\ \A i \in 1 .. Len(p) : t[i] = p[i]
      /\ SubSeq(t, Len(p) + 1, Len(t)) = r
  BY <1>2, JoinedLists
<1> HIDE DEF t
<1>4. Rest(t, Len(p)) = r
  BY <1>3 DEF Rest
<1>5. \A i \in 1 .. Len(t) : t[i].reads \subseteq A.live \cup A.undef
  <2> SUFFICES ASSUME NEW i \in 1 .. Len(t)
               PROVE  t[i].reads \subseteq A.live \cup A.undef
    OBVIOUS
  <2>1. CASE i \in 1 .. Len(p)
    BY <1>3, <2>1
  <2>2. CASE i \notin 1 .. Len(p)
    <3>1. Len(p) \in 0 .. Len(t) /\ i - Len(p) \in 1 .. Len(t) - Len(p) /\ Len(t) - Len(p) = Len(r)
          /\ Len(p) + (i - Len(p)) = i
      BY <1>3, <2>2
    <3>2. r[i - Len(p)] = t[i]
      BY <1>3, <1>4, <3>1, RestElements
    <3>3. r[i - Len(p)].reads \subseteq A.live \cup A.undef
      BY <1>2, <3>1 DEF Reads
    <3>4. QED
      BY <3>2, <3>3
  <2>3. QED
    BY <2>1, <2>2
<1> DEFINE G == H \cup {<<Rest(t, k), A>> : k \in 0 .. Len(p)}
<1>6. \A u, B, F : Goes(u, B, F) /\ F \subseteq G => Goes(u, B, G)
  BY GoesMore
<1>7. \A k \in 0 .. Len(p) : <<Rest(t, k), A>> \in G
  OBVIOUS
<1>8. ASSUME NEW k \in 0 .. Len(p)
      PROVE  /\ IsList(Rest(t, k))
             /\ \A i \in 1 .. Len(Rest(t, k)) : Rest(t, k)[i].reads \subseteq A.live \cup A.undef
             /\ Rest(t, k) # <<>> => Goes(Rest(t, k), A, G)
  <2>1. k \in 0 .. Len(t)
    BY <1>3
  <2>2. /\ IsList(Rest(t, k)) /\ Len(Rest(t, k)) = Len(t) - k
        /\ \A i \in 1 .. Len(t) - k : Rest(t, k)[i] = t[k + i]
    BY <1>3, <2>1, RestElements
  <2>3. \A i \in 1 .. Len(t) - k : k + i \in 1 .. Len(t)
    BY <1>3, <2>1
  <2>4. \A i \in 1 .. Len(Rest(t, k)) : Rest(t, k)[i].reads \subseteq A.live \cup A.undef
    BY <1>5, <2>2, <2>3
  <2>5. CASE k = Len(p)
    <3>1. Rest(t, k) # <<>> => Goes(Rest(t, k), A, H)
      BY <1>1, <1>4, <2>5 DEF Chained
    <3> HIDE DEF G
    <3>2. H \subseteq G
      BY DEF G
    <3>3. QED
      BY <1>6, <2>2, <2>4, <3>1, <3>2
  <2>6. CASE k # Len(p)
    <3>1. k \in Nat /\ k < Len(t) /\ k + 1 \in 1 .. Len(p) /\ k + 1 \in 0 .. Len(p)
      BY <1>3, <2>6
    <3>2. /\ Rest(t, k) # <<>> /\ Head(Rest(t, k)) = p[k + 1]
          /\ Rest(Rest(t, k), 1) = Rest(t, k + 1)
      BY <1>3, <3>1, RestIs
    <3>3. <<Rest(t, k + 1), A>> \in G
      BY <1>7, <3>1
    <3> HIDE DEF G
    <3>4. Goes(Rest(t, k), A, G)
      BY <3>1, <3>2, <3>3 DEF Goes
    <3>5. QED
      BY <2>2, <2>4, <3>4
  <2>7. QED
    BY <2>5, <2>6
<1>9. Chained(G)
  <2> SUFFICES ASSUME NEW e \in G
               PROVE  /\ IsList(e[1])
                      /\ \A i \in 1 .. Len(e[1]) : e[1][i].reads \subseteq e[2].live \cup e[2].undef
                      /\ e[1] # <<>> => Goes(e[1], e[2], G)
    BY DEF Chained
  <2>1. CASE e \in H
    <3> HIDE DEF G
    <3>1. H \subseteq G
      BY DEF G
    <3>2. QED
      BY <1>1, <1>6, <2>1, <3>1 DEF Chained
  <2>2. ASSUME NEW k \in 0 .. Len(p), e = <<Rest(t, k), A>>
        PROVE  /\ IsList(e[1])
               /\ \A i \in 1 .. Len(e[1]) : e[1][i].reads \subseteq e[2].live \cup e[2].undef
               /\ e[1] # <<>> => Goes(e[1], e[2], G)
    <3>1. e[1] = Rest(t, k) /\ e[2] = A
      BY <2>2
    <3> HIDE DEF G
    <3>2. QED
      BY <1>8, <3>1
  <2>3. QED
    BY <2>1, <2>2
<1>10. 0 \in 0 .. Len(p) /\ Rest(t, 0) = t
  <2>1. PICK S : t \in Seq(S)
    BY <1>3 DEF IsList
  <2>2. /\ IsList(Rest(t, 0)) /\ Len(Rest(t, 0)) = Len(t) - 0
        /\ \A i \in 1 .. Len(t) - 0 : Rest(t, 0)[i] = t[0 + i]
    BY <1>3, RestElements
  <2> DEFINE u == Rest(t, 0)
  <2>3. PICK T : u \in Seq(T)
    BY <2>2 DEF IsList
  <2>4. u \in Seq(S \cup T) /\ t \in Seq(S \cup T)
    BY <2>1, <2>3, SeqMonotonic
  <2>5. Len(u) = Len(t) /\ \A i \in 1 .. Len(u) : u[i] = t[i]
    BY <1>3, <2>2
  <2> HIDE DEF u
  <2>6. u = t
    BY <2>4, <2>5, SeqEqual
  <2>7. QED
    BY <1>3, <2>6 DEF u
<1>11. <<t, A>> \in G
  BY <1>7, <1>10
<1> HIDE DEF G
<1>12. Safe(t, A)
  BY <1>9, <1>11 DEF Safe
<1>13. QED
  BY <1>12 DEF t

(* The superclass has finitely many methods, and each gets a variable.     *)
LEMMA EnumerationIs ==
  ASSUME NEW S, IsFiniteSet(S)
  PROVE  Cardinality(S) \in Nat /\ SetToSeq(S) \in [1 .. Cardinality(S) -> S]
<1>1. Cardinality(S) \in Nat /\ ExistsBijection(1 .. Cardinality(S), S)
  BY FS_CardinalityType
<1>2. PICK f \in [1 .. Cardinality(S) -> S] : IsInjective(f)
  BY <1>1 DEF ExistsBijection, Bijection, Injection
<1>3. QED
  BY <1>1, <1>2 DEF SetToSeq

LEMMA FunctionIsList ==
  ASSUME NEW n \in Nat, NEW S, NEW f \in [1 .. n -> S]
  PROVE  IsList(f) /\ Len(f) = n /\ DOMAIN f = 1 .. n
<1>1. f \in Seq(S)
  BY SeqDef
<1>2. QED
  BY <1>1, LenProperties DEF IsList

LEMMA OpInheritSafe ==
  ASSUME Limits, IInv, OpInherit
  PROVE  IInv'
<1>0. /\ WellFormed /\ Running /\ top \in Nat /\ top > 1 /\ Is(Peek(0), "class")
  BY IInvIs, FrameIs DEF OpInherit
<1>1. Peek(0) \in Reach /\ Peek(1) \in Reach /\ Peek(0) # Nil
  BY <1>0, PeekIs
<1> DEFINE S       == Children(Peek(1))
           K       == Cardinality(S)
           entries == SetToSeq(S)
           names   == [i \in DOMAIN entries |-> "entry" \o ToString(i)]
           adding  == [j \in 1 .. 2 * Len(entries) |->
                         IF j % 2 = 1 THEN Grow ELSE Link("class", names[j \div 2])]
           L       == {"class"} \cup Range(names)
           v       == [n \in L |->
                         IF n = "class" THEN Peek(0)
                         ELSE entries[CHOOSE i \in DOMAIN names : names[i] = n]]
           e       == <<Pop>>
           steps   == adding \o e
           O       == {"class"}
           A       == Known(top, {}, L, O, L, {}, {}, {})
<1>2. Start(v, steps)
  BY DEF OpInherit
<1>3. S \subseteq Reach /\ IsFiniteSet(S)
  <2>1. S \subseteq Reach /\ S \subseteq Place
    BY <1>0, <1>1, ChildrenReach DEF Reach, Least
  <2>2. QED
    BY <2>1, PlaceFinite, FS_Subset
<1> HIDE DEF S
<1>4. K \in Nat /\ entries \in [1 .. K -> S] /\ Len(entries) = K
  BY <1>3, EnumerationIs, FunctionIsList
<1> HIDE DEF entries, K
<1>5. DOMAIN names = 1 .. K /\ \A i \in 1 .. K : names[i] \in Range(names)
  BY <1>4 DEF Range
<1>6. \A n \in Range(names) : \E i \in DOMAIN names : names[i] = n
  BY DEF Range
<1> HIDE DEF names
<1>7. DOMAIN v = L /\ v["class"] = Peek(0) /\ \A n \in L : v[n] \in Reach
  BY <1>1, <1>3, <1>4, <1>5, <1>6
<1>8. /\ adding \in [1 .. 2 * K -> {Grow} \cup {Link("class", n) : n \in Range(names)}]
      /\ \A j \in 1 .. 2 * K : adding[j] = Grow \/ \E n \in Range(names) : adding[j] = Link("class", n)
  <2>1. \A j \in 1 .. 2 * K : j % 2 # 1 => j \div 2 \in 1 .. K
    BY <1>4
  <2>2. \A j \in 1 .. 2 * K :
          (IF j % 2 = 1 THEN Grow ELSE Link("class", names[j \div 2]))
            \in {Grow} \cup {Link("class", n) : n \in Range(names)}
    BY <1>5, <2>1
  <2>3. QED
    BY <1>4, <2>2
<1> HIDE DEF adding, v
<1>9. IsList(adding) /\ Len(adding) = 2 * K
  <2>1. PICK T : adding \in [1 .. 2 * K -> T]
    BY <1>8
  <2>2. PICK m \in Nat : m = 2 * K
    BY <1>4
  <2>3. IsList(adding) /\ Len(adding) = m
    BY <2>1, <2>2, FunctionIsList
  <2>4. QED
    BY <2>2, <2>3
<1>10. /\ A.top = top /\ A.undef = {} /\ A.live = L /\ A.obj = O /\ A.reach = L
       /\ A.on = {} /\ A.comp = {} /\ A.const = {}
  BY KnownIs
<1>11. Range(names) \subseteq L /\ "class" \in L /\ "class" \in O
  OBVIOUS
<1> HIDE DEF L, O, A
<1>12. Rooted(A) /\ Same(A, A)
  BY <1>10 DEF Rooted, Same, Keeps
<1>13. After(A, Grow, A) /\ Grow.reads = {} /\ Grow.do = "grow"
  BY <1>12, StepIs DEF Grow, After
<1>14. ASSUME NEW n \in Range(names)
       PROVE  /\ After(A, Link("class", n), A) /\ Link("class", n).reads \subseteq A.live
              /\ Link("class", n).do = "link"
  <2> DEFINE b == Link("class", n)
  <2>1. b.do = "link" /\ b.reads = {"class", n} /\ b.args[1] = "class" /\ b.args[2] = n
    BY StepIs DEF Link
  <2> HIDE DEF b
  <2>2. After(A, b, A)
    BY <1>10, <1>11, <1>12, <2>1 DEF After, Same
  <2>3. QED
    BY <1>10, <1>11, <2>1, <2>2 DEF b
<1>15. \A i \in 1 .. Len(adding) :
         /\ adding[i].do \notin {"find", "again"} /\ After(A, adding[i], A)
         /\ adding[i].reads \subseteq A.live \cup A.undef
  BY <1>8, <1>9, <1>13, <1>14
<1>16. Safe(e, A)
  <2>1. Safe(<<>>, Nothing(top - 1))
    BY SafeEnd
  <2> DEFINE z == <<>>
  <2>2. Safe(z, Nothing(top - 1))
    BY <2>1
  <2> HIDE DEF z
  <2>3. Safe(Cons(Pop, z), A)
    BY <1>0, <1>10, <2>2, KnownIs, SafePop DEF Keeps, Nothing
  <2>4. <<Pop>> = Cons(Pop, z)
    BY ListOf, Zenon DEF z
  <2>5. QED
    BY <2>3, <2>4, Zenon
<1> HIDE DEF e
<1>17. Safe(steps, A)
  BY <1>9, <1>15, <1>16, SafeRun
<1> HIDE DEF steps
<1>18. O \subseteq L /\ \A x \in O : v[x] # Nil
  BY <1>1, <1>7 DEF O, L
<1>19. Safe(steps, Known(top, {}, L, O, L, {}, {}, {}))
  BY <1>17 DEF A
<1>20. QED
  BY <1>0, <1>2, <1>7, <1>18, <1>19, StartReach

-------------------------------------------------------------------------------
(* The instructions that allocate nothing.                                 *)
LEMMA EndSafe ==
  ASSUME WellFormed', todo' = <<>>
  PROVE  IInv'
<1>1. PICK h : h = top'
  OBVIOUS
<1> DEFINE A == Nothing(h)
<1>2. /\ A.top = h /\ A.undef = {} /\ A.live = {} /\ A.obj = {} /\ A.reach = {}
      /\ A.on = {} /\ A.comp = {} /\ A.const = {}
  BY KnownIs DEF Nothing
<1>3. Safe(<<>>, A)
  BY SafeEnd
<1> HIDE DEF A
<1>4. Holds(A)'
  BY <1>1, <1>2 DEF Holds
<1>5. QED
  BY <1>3, <1>4 DEF IInv

LEMMA ClosingSafe ==
  ASSUME WellFormed, NEW slot, CloseUpvalues(slot)
  PROVE  /\ refs' \subseteq objects \X objects /\ open' \subseteq open
<1>1. \A u \in open : u[1] \in objects /\ stack[u[2]] \in objects \cup {Nil}
  BY DEF WellFormed, Alive
<1>2. refs \subseteq objects \X objects
  BY DEF WellFormed
<1>3. {<<u[1], stack[u[2]]>> : u \in {x \in Closed(slot) : stack[x[2]] # Nil}} \subseteq objects \X objects
  BY <1>1 DEF Closed
<1>4. QED
  BY <1>2, <1>3 DEF CloseUpvalues

LEMMA OpCloseUpvalueSafe ==
  ASSUME Limits, IInv, OpCloseUpvalue
  PROVE  IInv'
<1>0. WellFormed /\ Running /\ top \in Nat /\ top > 0 /\ top <= StackMax /\ StackMax \in Nat
  BY IInvIs, FrameIs DEF OpCloseUpvalue
<1>1. /\ top' = top - 1 /\ UNCHANGED <<objects, stack, frames, globals, init, compilers, todo>>
      /\ CloseUpvalues(top)
  BY DEF OpCloseUpvalue
<1>2. refs' \subseteq objects \X objects /\ open' \subseteq open
  BY <1>0, <1>1, ClosingSafe
<1>3. top' \in 0 .. StackMax /\ \A i \in 1 .. top' : i \in 1 .. top
  BY <1>0, <1>1
<1>4. UNCHANGED Alive
  BY <1>1 DEF Alive
<1>5. WellFormed'
  BY <1>0, <1>1, <1>2, <1>3, <1>4 DEF WellFormed
<1>6. todo' = <<>>
  BY <1>0, <1>1 DEF Running, Idle
<1>7. QED
  BY <1>5, <1>6, EndSafe

LEMMA OpReturnSafe ==
  ASSUME Limits, IInv, OpReturn
  PROVE  IInv'
<1>0. /\ WellFormed /\ Running /\ top \in Nat /\ top > 1 /\ top <= StackMax /\ StackMax \in Nat
      /\ Frame.slot \in 1 .. StackMax /\ top > Frame.slot
  BY IInvIs, FrameIs DEF OpReturn
<1>1. /\ frames' = Front(frames) /\ UNCHANGED <<objects, globals, init, compilers, todo>>
      /\ UNCHANGED Alive
  BY DEF OpReturn, Alive
<1>2. (\E S : frames' \in Seq(S)) /\ \A i \in DOMAIN frames' : frames'[i].closure \in Alive /\ frames'[i].slot \in 1 .. StackMax
  <2>1. PICK S : frames \in Seq(S)
    BY <1>0 DEF WellFormed
  <2>2. /\ DOMAIN frames = 1 .. Len(frames) /\ Len(frames) \in Nat
        /\ \A i \in 1 .. Len(frames) - 1 : frames[i] \in S /\ i \in DOMAIN frames
    BY <2>1, LenProperties, ElementOfSeq
  <2> DEFINE n == Len(frames) - 1
             s == SubSeq(frames, 1, n)
  <2>3. /\ s \in Seq(S) /\ Len(s) = IF 1 <= n THEN n - 1 + 1 ELSE 0
        /\ \A i \in 1 .. n - 1 + 1 : s[i] = frames[1 + i - 1]
    BY <2>2, SubSeqProperties
  <2>4. DOMAIN s = 1 .. Len(s) /\ n \in Int
    BY <2>2, <2>3, LenProperties
  <2> HIDE DEF n, s
  <2>5. n - 1 + 1 = n /\ \A i \in 1 .. n : 1 + i - 1 = i
    BY <2>4
  <2>6. \A i \in DOMAIN s : i \in 1 .. n /\ s[i] = frames[i]
    BY <2>3, <2>4, <2>5
  <2>7. \A i \in DOMAIN frames : frames[i].closure \in Alive /\ frames[i].slot \in 1 .. StackMax
    BY <1>0 DEF WellFormed
  <2>8. s = frames'
    BY <1>1 DEF s, n, Front
  <2>9. \A i \in 1 .. n : i \in DOMAIN frames
    BY <2>2 DEF n
  <2>10. (\E T : s \in Seq(T)) /\ \A i \in DOMAIN s : s[i].closure \in Alive /\ s[i].slot \in 1 .. StackMax
    BY <2>3, <2>6, <2>7, <2>9
  <2>11. QED
    BY <2>8, <2>10
<1>3. CASE Len(frames) = 1
  <2>1. top' = top - 2 /\ UNCHANGED <<stack, open, refs>>
    BY <1>3 DEF OpReturn
  <2>2. top' \in 0 .. StackMax /\ \A i \in 1 .. top' : i \in 1 .. top
    BY <1>0, <2>1
  <2>3. WellFormed'
    BY <1>0, <1>1, <1>2, <2>1, <2>2 DEF WellFormed
  <2>4. QED
    BY <1>0, <1>1, <2>3, EndSafe DEF Running, Idle
<1>4. CASE Len(frames) # 1
  <2>1. CloseUpvalues(Frame.slot) /\ top' = Frame.slot /\ stack' = [stack EXCEPT ![Frame.slot] = Peek(0)]
    BY <1>4 DEF OpReturn
  <2>2. refs' \subseteq objects \X objects /\ open' \subseteq open
    BY <1>0, <2>1, ClosingSafe
  <2>3. Peek(0) \in Alive /\ Alive \subseteq Place
    BY <1>0, PeekIs DEF WellFormed, Alive, Place
  <2>4. stack' \in [1 .. StackMax -> Place]
    BY <1>0, <2>1, <2>3 DEF WellFormed
  <2>5. \A i \in 1 .. StackMax : stack[i] \in Alive => stack'[i] \in Alive
    BY <1>0, <2>1, <2>3 DEF WellFormed
  <2>6. /\ \A i \in 1 .. top' : stack'[i] \in Alive
        /\ \A u \in open' : stack'[u[2]] \in Alive
        /\ open' \subseteq objects \X (1 .. StackMax)
    BY <1>0, <2>1, <2>2, <2>5 DEF WellFormed
  <2>7. top' \in 0 .. StackMax
    BY <1>0, <2>1
  <2>8. WellFormed'
    BY <1>0, <1>1, <1>2, <2>2, <2>4, <2>6, <2>7 DEF WellFormed
  <2>9. QED
    BY <1>0, <1>1, <2>8, EndSafe DEF Running, Idle
<1>5. QED
  BY <1>3, <1>4

LEMMA RuntimeErrorSafe ==
  ASSUME Limits, IInv, RuntimeError
  PROVE  IInv'
<1>0. WellFormed /\ Running /\ StackMax \in Nat
  BY IInvIs DEF RuntimeError
<1>1. /\ frames' = <<>> /\ top' = 0
      /\ UNCHANGED <<objects, refs, stack, globals, init, open, compilers, todo>>
  BY DEF RuntimeError
<1>2. UNCHANGED Alive
  BY <1>1 DEF Alive
<1>3. (\E S : frames' \in Seq(S)) /\ DOMAIN frames' = {} /\ top' \in 0 .. StackMax /\ 1 .. top' = {}
  <2>1. frames' \in Seq({})
    BY <1>1, EmptySeq
  <2>2. QED
    BY <1>0, <1>1, <2>1
<1>4. WellFormed'
  BY <1>0, <1>1, <1>2, <1>3 DEF WellFormed
<1>5. QED
  BY <1>0, <1>1, <1>4, EndSafe DEF Running, Idle

-------------------------------------------------------------------------------
(* The specification.                                                      *)
LEMMA InitSafe ==
  ASSUME Limits, RootingInit
  PROVE  IInv
<1>1. /\ objects = {} /\ refs = {} /\ stack = [i \in 1 .. StackMax |-> Nil] /\ top = 0
      /\ frames = <<>> /\ globals = {} /\ init = Nil /\ open = {} /\ compilers = <<>>
      /\ todo = <<>>
  BY DEF RootingInit
<1>2. (\E S : frames \in Seq(S)) /\ compilers \in Seq(Objects) /\ DOMAIN frames = {} /\ DOMAIN compilers = {}
  <2>1. frames \in Seq({}) /\ compilers \in Seq(Objects)
    BY <1>1, EmptySeq
  <2>2. QED
    BY <1>1, <2>1
<1>3. WellFormed
  BY <1>1, <1>2 DEF WellFormed, Alive, Place, Limits
<1> DEFINE A == Nothing(0)
<1>4. /\ A.top = 0 /\ A.undef = {} /\ A.live = {} /\ A.obj = {} /\ A.reach = {}
      /\ A.on = {} /\ A.comp = {} /\ A.const = {}
  BY KnownIs DEF Nothing
<1>5. Safe(todo, A)
  BY <1>1, SafeEnd
<1> HIDE DEF A
<1>6. Holds(A)
  BY <1>1, <1>4 DEF Holds
<1>7. QED
  BY <1>3, <1>5, <1>6 DEF IInv

LEMMA RunTimeSafe ==
  ASSUME Limits, IInv, RunTime
  PROVE  IInv'
BY OpConstSafe, OpPopSafe, OpAddSafe, OpSetGlobalSafe, OpGetGlobalSafe, OpClosureSafe,
   OpClassSafe, OpMethodSafe, OpInheritSafe, OpSetPropertySafe, OpGetPropertySafe,
   OpGetSuperSafe, OpCallSafe, OpCloseUpvalueSafe, OpReturnSafe, RuntimeErrorSafe DEF RunTime

LEMMA CompileTimeSafe ==
  ASSUME Limits, IInv, CompileTime
  PROVE  IInv'
BY VmInitSafe, BeginScriptSafe, ConstantSafe, BeginFunctionSafe, EndFunctionSafe, EndScriptSafe
   DEF CompileTime

LEMMA StutterSafe ==
  ASSUME IInv, UNCHANGED rooting
  PROVE  IInv'
<1>1. UNCHANGED <<objects, refs, stack, top, frames, globals, init, open, compilers, todo, var>>
  BY DEF rooting, roots
<1>2. WellFormed'
  BY <1>1 DEF IInv, WellFormed, Alive
<1>3. Reach' = Reach
  <2>1. UNCHANGED RootSet /\ UNCHANGED Edges
    BY <1>1 DEF RootSet, Values, Edges
  <2>2. Reach' = Least(RootSet', Edges')
    BY DEF Reach, Least
  <2>3. QED
    BY <2>1, <2>2 DEF Reach
<1>4. PICK A : Safe(todo, A) /\ Holds(A)
  BY DEF IInv
<1>5. Holds(A)'
  BY <1>1, <1>3, <1>4 DEF Holds, Alive, Fixed
<1>6. QED
  BY <1>1, <1>2, <1>4, <1>5 DEF IInv

LEMMA InUseFromInvariant ==
  ASSUME Limits, IInv
  PROVE  InUseLive
<1>1. PICK A : Safe(todo, A) /\ Holds(A)
  BY DEF IInv
<1>2. WellFormed
  BY DEF IInv
<1>3. IsList(todo) /\ Reads(todo, A)
  BY <1>1, SafeIs
<1>4. DOMAIN todo = 1 .. Len(todo)
  BY <1>3, LenProperties DEF IsList
<1>5. \A i \in DOMAIN todo : \A v \in todo[i].reads \cap DOMAIN var : v \in A.live
  BY <1>1, <1>3, <1>4 DEF Reads, Holds
<1>6. \A v \in A.live : var[v] \in objects \cup {Nil}
  BY <1>1 DEF Holds, Alive
<1>7. Reachable \subseteq objects
  BY <1>2, ReachableIs, ReachAlive DEF Alive
<1>8. QED
  BY <1>5, <1>6, <1>7 DEF InUseLive

(* IInv is an inductive invariant: whatever step of whatever operation is  *)
(* taken, and wherever garbage is collected, nothing the state refers to   *)
(* has been freed, and the steps that are left are safe.                   *)
THEOREM RootingInvariant == RootingSpec => []IInv
<1>. USE RootingAssumption
<1>1. RootingInit => IInv
  BY InitSafe
<1>2. IInv /\ [RootingNext]_rooting => IInv'
  <2> SUFFICES ASSUME IInv, [RootingNext]_rooting PROVE IInv'
    OBVIOUS
  <2>1. CASE CompileTime
    BY <2>1, CompileTimeSafe
  <2>2. CASE RunTime
    BY <2>2, RunTimeSafe
  <2>3. CASE Statement
    BY <2>3, StatementSafe
  <2>4. CASE Collect
    BY <2>4, CollectingSafe
  <2>5. CASE UNCHANGED rooting
    BY <2>5, StutterSafe
  <2>6. QED
    BY <2>1, <2>2, <2>3, <2>4, <2>5 DEF RootingNext
<1>3. QED
  BY <1>1, <1>2, PTL DEF RootingSpec

(* For every number of objects of each kind and every height of the stack: *)
(* a collection at any allocation of any operation frees neither what the  *)
(* C variables of that operation will still read nor what the program can  *)
(* reach (the pushes and pops around allocations in chunk_add_const,       *)
(* StringObj_construct, end_compiler and the instructions of vm.c).        *)
THEOREM InUseStaysLive == RootingSpec => []InUseLive
<1>1. IInv => InUseLive
  BY RootingAssumption, InUseFromInvariant
<1>2. QED
  BY <1>1, RootingInvariant, PTL
================================================================================
