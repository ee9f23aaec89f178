---------------------------- MODULE ResolutionProofs ----------------------------
(***************************************************************************)
(* What Resolution keeps for every program, and every limit on functions,  *)
(* locals, scopes and upvalues: the upvalue descriptors lead to the        *)
(* variables that the names meant, each variable is captured once by a     *)
(* function and marked for its scope, and every instruction emitted for a  *)
(* name reads the innermost variable of that name.                         *)
(***************************************************************************)
EXTENDS Resolution, SequenceTheorems, WellFoundedInduction, TLAPS

-------------------------------------------------------------------------------
(* The greatest of finitely many numbers.                                  *)

LEMMA HighestProperty ==
  ASSUME NEW n \in Nat, NEW S \in SUBSET (0 .. n), S # {}
  PROVE  Highest(S) \in S /\ \A j \in S : j <= Highest(S)
<1> DEFINE T == {m \in Nat : n - m \in S}
<1>1. T \subseteq Nat /\ T # {}
  <2>1. PICK s \in S : TRUE
    OBVIOUS
  <2>2. n - s \in Nat /\ n - (n - s) = s
    BY <2>1
  <2>3. QED
    BY <2>1, <2>2
<1>2. PICK x \in T : \A y \in T : ~ (<<y, x>> \in OpToRel(<, Nat))
  <2> HIDE DEF T
  <2>1. QED
    BY <1>1, WFMin, NatLessThanWellFounded
<1>3. \A y \in T : ~ (y < x)
  BY <1>2 DEF OpToRel
<1>4. n - x \in S
  BY <1>2
<1>5. \A j \in S : j <= n - x
  <2> SUFFICES ASSUME NEW j \in S PROVE j <= n - x
    OBVIOUS
  <2>1. j \in Int /\ n - j \in Nat /\ n - (n - j) = j
    OBVIOUS
  <2>2. n - j \in T
    BY <2>1
  <2>3. x \in Nat /\ ~ (n - j < x)
    BY <2>2, <1>2, <1>3
  <2>4. QED
    BY <2>1, <2>3
<1>6. \E i \in S : \A j \in S : j <= i
  BY <1>4, <1>5
<1>7. QED
  BY <1>6 DEF Highest

(* The least of a set of numbers, for arguments from one function to the   *)
(* next.                                                                   *)
LEMMA LeastNumber ==
  ASSUME NEW T \in SUBSET Nat, T # {}
  PROVE  \E x \in T : \A y \in T : x <= y
<1>1. PICK x \in T : \A y \in T : ~ (<<y, x>> \in OpToRel(<, Nat))
  BY WFMin, NatLessThanWellFounded
<1>2. \A y \in T : x \in Nat /\ y \in Nat /\ ~ (y < x)
  BY <1>1 DEF OpToRel
<1>3. \A y \in T : x <= y
  BY <1>2
<1>4. QED
  BY <1>1, <1>3

-------------------------------------------------------------------------------
(* The inductive invariant, of any chain of Compilers c.                   *)

Typed(c) ==
  /\ c \in Seq(Compilers) /\ c # <<>> /\ Len(c) <= FunctionMax
  /\ \A k \in DOMAIN c : /\ c[k].locals # <<>> /\ Len(c[k].locals) <= LocalMax
                         /\ Len(c[k].upvals) <= UpvalMax

InClass(f)    == InBody(f) /\ ~Last(f.inside).super
InSubclass(f) == InBody(f) /\ Last(f.inside).super

(* A class is the innermost construct of its function, slot 0 of the       *)
(* functions directly in it is `this', `super' is the last local of the    *)
(* function with the class, and there are as many scopes as constructs     *)
(* that opened one.                                                        *)
ShapeOf(f, method) ==
  /\ f.locals[1].depth = 0
  /\ \A i \in 1 .. Len(f.inside) - 1 : f.inside[i] = Block
  /\ Len(f.inside) - (IF InClass(f) THEN 1 ELSE 0) <= f.depth
  /\ \A i \in DOMAIN f.locals :
       /\ f.locals[i].name = "this" <=> (i = 1 /\ method)
       /\ f.locals[i].name = "super" <=> (i = Len(f.locals) /\ InSubclass(f))
  /\ InSubclass(f) => f.locals[Len(f.locals)].depth = f.depth

ShapedAt(c, k) == ShapeOf(c[k], k > 1 /\ InBody(c[k - 1]))

Shaped(c) == \A k \in DOMAIN c : ShapedAt(c, k)

(* A variable that is captured belongs to a function further out.          *)
Denoting(c) ==
  \A k \in DOMAIN c : \A j \in DOMAIN c[k].upvals :
    /\ k > 1 /\ Denotes(c, k, c[k].upvals[j])
    /\ c[k].upvals[j].of.function < k

Once(c) ==
  \A k \in DOMAIN c : \A i, j \in DOMAIN c[k].upvals :
    c[k].upvals[i].of = c[k].upvals[j].of => i = j

MarkedAt(c, k) ==
  \A i \in DOMAIN c[k].locals : c[k].locals[i].captured = c[k].locals[i].used

Marked(c) == \A k \in DOMAIN c : MarkedAt(c, k)

Sound(c) == Typed(c) /\ Shaped(c) /\ Denoting(c) /\ Once(c) /\ Marked(c)

LEMMA Limits == {FunctionMax, LocalMax, DepthMax, UpvalMax} \subseteq Nat
BY ResolutionAssumption

(* The shape of a function depends on it and on the one around it.         *)
LEMMA SameShape ==
  ASSUME NEW c, NEW d, NEW k \in Nat, ShapedAt(c, k),
         d[k] = c[k], k > 1 => d[k - 1] = c[k - 1]
  PROVE  ShapedAt(d, k)
<1>1. (k > 1 /\ InBody(d[k - 1])) = (k > 1 /\ InBody(c[k - 1]))
  OBVIOUS
<1>2. QED
  BY <1>1 DEF ShapedAt

LEMMA ShapeGives ==
  ASSUME NEW d, NEW k, NEW f, NEW method, d[k] = f,
         (k > 1 /\ InBody(d[k - 1])) = method, ShapeOf(f, method)
  PROVE  ShapedAt(d, k)
BY Zenon DEF ShapedAt

LEMMA TypedAt ==
  ASSUME NEW c, Typed(c), NEW k \in DOMAIN c
  PROVE  /\ Len(c) \in Nat \ {0} /\ DOMAIN c = 1 .. Len(c) /\ Len(c) \in DOMAIN c
         /\ c[k] \in Compilers
         /\ Len(c[k].locals) \in Nat \ {0} /\ DOMAIN c[k].locals = 1 .. Len(c[k].locals)
         /\ \A i \in DOMAIN c[k].locals : c[k].locals[i] \in Locals
         /\ Len(c[k].upvals) \in Nat /\ DOMAIN c[k].upvals = 1 .. Len(c[k].upvals)
         /\ \A i \in DOMAIN c[k].upvals : c[k].upvals[i] \in Descriptors
         /\ Len(c[k].inside) \in Nat /\ DOMAIN c[k].inside = 1 .. Len(c[k].inside)
         /\ \A i \in DOMAIN c[k].inside : c[k].inside[i] \in Constructs
<1>1. c \in Seq(Compilers) /\ c # <<>>
  BY DEF Typed
<1>2. /\ Len(c) \in Nat \ {0} /\ DOMAIN c = 1 .. Len(c) /\ Len(c) \in DOMAIN c
      /\ c[k] \in Compilers
  BY <1>1, LenProperties, ElementOfSeq, EmptySeq
<1>3. /\ c[k].locals \in Seq(Locals) /\ c[k].locals # <<>>
      /\ c[k].upvals \in Seq(Descriptors) /\ c[k].inside \in Seq(Constructs)
  BY <1>2 DEF Typed, Compilers
<1>4. QED
  BY <1>2, <1>3, LenProperties, ElementOfSeq, EmptySeq

LEMMA CurrentAt ==
  ASSUME Typed(chain)
  PROVE  Current \in DOMAIN chain /\ Here \in Compilers /\ Current \in Nat \ {0}
<1>1. chain \in Seq(Compilers) /\ chain # <<>>
  BY DEF Typed
<1>2. QED
  BY <1>1, LenProperties, ElementOfSeq, EmptySeq DEF Current, Here

(* A Compiler in place of the current one, with the same upvalues.         *)
LEMMA Becoming ==
  ASSUME Sound(chain), NEW x \in Compilers, NEW d,
         d = [chain EXCEPT ![Current] = x],
         x.upvals = Here.upvals, x.locals # <<>>, Len(x.locals) <= LocalMax,
         ShapeOf(x, Current > 1 /\ InBody(chain[Current - 1])),
         \A i \in DOMAIN x.locals : x.locals[i].captured = x.locals[i].used
  PROVE  Sound(d)
<1>1. /\ chain \in Seq(Compilers) /\ Current \in DOMAIN chain
      /\ DOMAIN chain = 1 .. Len(chain) /\ Current = Len(chain) /\ Current \in Nat \ {0}
  <2>1. Typed(chain)
    BY DEF Sound
  <2>2. Current \in DOMAIN chain /\ Current \in Nat \ {0}
    BY <2>1, CurrentAt
  <2>3. QED
    BY <2>1, <2>2, LenProperties DEF Typed, Current
<1>2. /\ d \in Seq(Compilers) /\ Len(d) = Len(chain) /\ DOMAIN d = DOMAIN chain
      /\ d[Current] = x /\ \A k \in DOMAIN chain : k # Current => d[k] = chain[k]
  BY <1>1, ExceptSeq, LenProperties
<1>3. \A k \in DOMAIN chain : d[k].upvals = chain[k].upvals
  BY <1>2 DEF Here
<1>4. Typed(d)
  BY <1>1, <1>2, <1>3, EmptySeq DEF Sound, Typed
<1>5. Shaped(d)
  <2>0. ShapedAt(d, Current)
    <3>1. Current > 1 => Current - 1 \in DOMAIN chain /\ Current - 1 # Current
      <4>1. DOMAIN chain = 1 .. Current /\ Current \in Nat
        BY <1>1
      <4>2. Current > 1 => Current - 1 \in 1 .. Current /\ Current - 1 # Current
        BY <4>1
      <4>3. QED
        BY <4>1, <4>2
    <3>2. Current > 1 => d[Current - 1] = chain[Current - 1]
      BY <1>2, <3>1
    <3>3. (Current > 1 /\ InBody(d[Current - 1])) = (Current > 1 /\ InBody(chain[Current - 1]))
      BY <3>2
    <3>4. QED
      BY <1>2, <3>3 DEF ShapedAt
  <2> SUFFICES ASSUME NEW k \in DOMAIN chain, k # Current PROVE ShapedAt(d, k)
    BY <1>2, <2>0 DEF Shaped
  <2>1. d[k] = chain[k] /\ (k > 1 => d[k - 1] = chain[k - 1])
    BY <1>1, <1>2
  <2>2. k \in Nat /\ ShapedAt(chain, k)
    BY <1>1 DEF Sound, Shaped
  <2>3. QED
    BY <2>1, <2>2, SameShape
<1>6. Denoting(d)
  <2> SUFFICES ASSUME NEW k \in DOMAIN chain, NEW j \in DOMAIN chain[k].upvals
               PROVE  /\ k > 1 /\ Denotes(d, k, chain[k].upvals[j])
                      /\ chain[k].upvals[j].of.function < k
    BY <1>2, <1>3 DEF Denoting
  <2>1. /\ k > 1 /\ Denotes(chain, k, chain[k].upvals[j])
        /\ chain[k].upvals[j].of.function < k
    BY DEF Sound, Denoting
  <2>2. d[k - 1].upvals = chain[k - 1].upvals
    BY <1>1, <1>3, <2>1
  <2>3. QED
    BY <2>1, <2>2 DEF Denotes
<1>7. Once(d)
  BY <1>2, <1>3 DEF Sound, Once
<1>8. Marked(d)
  BY <1>2 DEF Sound, Marked, MarkedAt
<1>9. QED
  BY <1>4, <1>5, <1>6, <1>7, <1>8 DEF Sound

(* A Compiler for a function in the current one.                           *)
LEMMA Beginning ==
  ASSUME Sound(chain), Current < FunctionMax, NEW x \in Compilers, NEW d,
         d = Append(chain, x), x.upvals = <<>>, x.locals # <<>>,
         Len(x.locals) <= LocalMax,
         NEW method, method = InClassBody, ShapeOf(x, method),
         \A i \in DOMAIN x.locals : x.locals[i].captured = x.locals[i].used
  PROVE  Sound(d)
<1>1. /\ chain \in Seq(Compilers) /\ Current \in Nat \ {0}
      /\ DOMAIN chain = 1 .. Current
  <2>1. Typed(chain)
    BY DEF Sound
  <2>2. QED
    BY <2>1, CurrentAt, LenProperties DEF Typed, Current
<1>2. /\ d \in Seq(Compilers) /\ Len(d) = Current + 1 /\ DOMAIN d = 1 .. Current + 1
      /\ d # <<>> /\ d[Current + 1] = x /\ \A k \in 1 .. Current : d[k] = chain[k]
  BY <1>1, AppendProperties, LenProperties DEF Current
<1>3. Typed(d)
  <2>1. Len(x.upvals) <= UpvalMax
    BY Limits, EmptySeq
  <2>2. Len(d) <= FunctionMax
    BY <1>1, <1>2, Limits
  <2>3. QED
    BY <1>1, <1>2, <2>1, <2>2 DEF Sound, Typed
<1>4. Shaped(d)
  <2>0. ShapedAt(d, Current + 1)
    <3> DEFINE m == Current + 1
    <3>1. m > 1 /\ m - 1 = Current /\ d[Current] = Here /\ d[m] = x
      BY <1>1, <1>2 DEF Here
    <3> HIDE DEF m
    <3>2. d[m - 1] = Here
      BY <3>1
    <3>3. (m > 1 /\ InBody(d[m - 1])) = method
      BY <3>1, <3>2 DEF InClassBody, InBody
    <3>4. ShapedAt(d, m)
      BY <3>1, <3>3, ShapeGives
    <3>5. QED
      BY <3>4 DEF m
  <2> SUFFICES ASSUME NEW k \in 1 .. Current PROVE ShapedAt(d, k)
    BY <1>1, <1>2, <2>0 DEF Shaped
  <2>1. d[k] = chain[k] /\ (k > 1 => d[k - 1] = chain[k - 1])
    BY <1>1, <1>2
  <2>2. k \in Nat /\ ShapedAt(chain, k)
    BY <1>1 DEF Sound, Shaped
  <2>3. QED
    BY <2>1, <2>2, SameShape
<1>5. Denoting(d)
  <2>1. DOMAIN d[Current + 1].upvals = {}
    BY <1>2
  <2>2. ASSUME NEW k \in 1 .. Current, NEW j \in DOMAIN d[k].upvals
        PROVE  /\ k > 1 /\ Denotes(d, k, d[k].upvals[j])
               /\ d[k].upvals[j].of.function < k
    <3>1. d[k] = chain[k] /\ (k > 1 => d[k - 1] = chain[k - 1])
      BY <1>1, <1>2
    <3>2. /\ k > 1 /\ Denotes(chain, k, chain[k].upvals[j])
          /\ chain[k].upvals[j].of.function < k
      BY <1>1, <3>1 DEF Sound, Denoting
    <3>3. QED
      BY <3>1, <3>2 DEF Denotes
  <2>3. QED
    BY <1>1, <1>2, <2>1, <2>2 DEF Denoting
<1>6. Once(d)
  <2>1. DOMAIN d[Current + 1].upvals = {}
    BY <1>2
  <2>2. QED
    BY <1>1, <1>2, <2>1 DEF Sound, Once
<1>7. Marked(d)
  BY <1>1, <1>2 DEF Sound, Marked, MarkedAt
<1>8. QED
  BY <1>3, <1>4, <1>5, <1>6, <1>7 DEF Sound

(* The functions around the current one.                                   *)
LEMMA Leaving ==
  ASSUME Sound(chain), Current > 1
  PROVE  Sound(Front(chain))
<1> DEFINE d == Front(chain)
<1>1. /\ chain \in Seq(Compilers) /\ Current \in Nat \ {0}
      /\ DOMAIN chain = 1 .. Current
  <2>1. Typed(chain)
    BY DEF Sound
  <2>2. QED
    BY <2>1, CurrentAt, LenProperties DEF Typed, Current
<1>2. /\ d \in Seq(Compilers) /\ Len(d) = Current - 1 /\ DOMAIN d = 1 .. Current - 1
      /\ \A k \in 1 .. Current - 1 : d[k] = chain[k]
  <2>1. \A i \in 1 .. Current - 1 : chain[i] \in Compilers
    BY <1>1, ElementOfSeq DEF Current
  <2>2. /\ d \in Seq(Compilers) /\ Len(d) = Current - 1
        /\ \A k \in 1 .. Current - 1 - 1 + 1 : d[k] = chain[1 + k - 1]
    BY <1>1, <2>1, SubSeqProperties DEF Front, Current
  <2>3. QED
    BY <1>1, <2>2, LenProperties
<1> HIDE DEF d
<1>3. d # <<>>
  BY <1>1, <1>2, EmptySeq
<1>4. \A k \in DOMAIN d : k \in DOMAIN chain /\ d[k] = chain[k]
                          /\ (k > 1 => d[k - 1] = chain[k - 1])
  BY <1>1, <1>2
<1>5. Typed(d)
  <2>1. Len(d) <= FunctionMax
    BY <1>1, <1>2, Limits DEF Sound, Typed, Current
  <2>2. QED
    BY <1>2, <1>3, <1>4, <2>1 DEF Sound, Typed
<1>6. Shaped(d)
  <2> SUFFICES ASSUME NEW k \in DOMAIN d PROVE ShapedAt(d, k)
    BY DEF Shaped
  <2>1. k \in Nat /\ ShapedAt(chain, k)
    BY <1>1, <1>4 DEF Sound, Shaped
  <2>2. QED
    BY <1>4, <2>1, SameShape
<1>7. Denoting(d)
  BY <1>4 DEF Sound, Denoting, Denotes
<1>8. Once(d)
  BY <1>4 DEF Sound, Once
<1>9. Marked(d)
  BY <1>4 DEF Sound, Marked, MarkedAt
<1>10. QED
  BY <1>5, <1>6, <1>7, <1>8, <1>9 DEF Sound, d

-------------------------------------------------------------------------------
(* Looking a name up.                                                      *)

LEMMA FunctionIsSeq ==
  ASSUME NEW S, NEW n \in Nat, NEW f \in [1 .. n -> S]
  PROVE  f \in Seq(S) /\ Len(f) = n
<1>1. f \in Seq(S)
  BY SeqDef
<1>2. DOMAIN f = 1 .. n /\ DOMAIN f = 1 .. Len(f) /\ Len(f) \in Nat
  BY <1>1, LenProperties
<1>3. QED
  BY <1>1, <1>2

LEMMA LocalFound ==
  ASSUME NEW c, Typed(c), NEW k \in DOMAIN c, NEW name, Matches(c, k, name) # {}
  PROVE  /\ ResolveLocal(c, k, name) = Highest(Matches(c, k, name))
         /\ ResolveLocal(c, k, name) \in Matches(c, k, name)
         /\ \A i \in Matches(c, k, name) : i <= ResolveLocal(c, k, name)
<1>1. /\ Len(c[k].locals) \in Nat
      /\ Matches(c, k, name) \in SUBSET (0 .. Len(c[k].locals))
  BY TypedAt DEF Matches
<1>2. ResolveLocal(c, k, name) = Highest(Matches(c, k, name))
  BY DEF ResolveLocal, Highest
<1>3. QED
  BY <1>1, <1>2, HighestProperty

LEMMA OwnerFound ==
  ASSUME NEW c, Typed(c), NEW name, Owners(c, name) # {}, NEW o,
         o = Highest(Owners(c, name))
  PROVE  /\ o \in DOMAIN c /\ Matches(c, o, name) # {}
         /\ \A k \in DOMAIN c : Matches(c, k, name) # {} => k <= o
         /\ Lexical(c, name) = [function |-> o, local |-> ResolveLocal(c, o, name)]
         /\ ResolveLocal(c, o, name) \in DOMAIN c[o].locals
         /\ Lexical(c, name) \in Variables
<1>1. Len(c) \in Nat /\ DOMAIN c = 1 .. Len(c)
  BY LenProperties DEF Typed
<1>2. Owners(c, name) \in SUBSET (0 .. Len(c))
  BY <1>1 DEF Owners
<1>3. o \in Owners(c, name) /\ \A k \in Owners(c, name) : k <= o
  BY <1>1, <1>2, HighestProperty
<1>4. /\ o \in DOMAIN c /\ Matches(c, o, name) # {}
      /\ \A k \in DOMAIN c : Matches(c, k, name) # {} => k <= o
  BY <1>3 DEF Owners
<1>5. Lexical(c, name) = [function |-> o, local |-> ResolveLocal(c, o, name)]
  BY <1>4, LocalFound DEF Lexical
<1>6. ResolveLocal(c, o, name) \in DOMAIN c[o].locals
  BY <1>4, LocalFound DEF Matches
<1>7. DOMAIN c[o].locals = 1 .. Len(c[o].locals)
  BY <1>4, TypedAt
<1>8. QED
  BY <1>1, <1>4, <1>5, <1>6, <1>7 DEF Variables

(* The two chains differ in what is captured only.                         *)
SameNames(c, d) ==
  /\ DOMAIN d = DOMAIN c
  /\ \A k \in DOMAIN c :
       /\ d[k].inside = c[k].inside /\ d[k].depth = c[k].depth
       /\ Len(d[k].locals) = Len(c[k].locals) /\ DOMAIN d[k].locals = DOMAIN c[k].locals
       /\ \A i \in DOMAIN c[k].locals : /\ d[k].locals[i].name = c[k].locals[i].name
                                       /\ d[k].locals[i].depth = c[k].locals[i].depth

LEMMA SameMeaning ==
  ASSUME NEW c, NEW d, SameNames(c, d), NEW name
  PROVE  /\ Owners(d, name) = Owners(c, name)
         /\ \A k \in DOMAIN c : Matches(d, k, name) = Matches(c, k, name)
         /\ Typed(c) /\ Owners(c, name) # {} => Lexical(d, name) = Lexical(c, name)
<1>1. \A k \in DOMAIN c : Matches(d, k, name) = Matches(c, k, name)
  BY DEF SameNames, Matches
<1>2. Owners(d, name) = Owners(c, name)
  BY <1>1 DEF SameNames, Owners
<1>3. ASSUME Typed(c), Owners(c, name) # {}
      PROVE  Lexical(d, name) = Lexical(c, name)
  <2>1. Highest(Owners(c, name)) \in DOMAIN c
    BY <1>3, OwnerFound
  <2>2. QED
    BY <1>1, <1>2, <2>1 DEF Lexical
<1>4. QED
  BY <1>1, <1>2, <1>3

LEMMA SameNamesShaped ==
  ASSUME NEW c, NEW d, SameNames(c, d), Typed(c), Shaped(c)
  PROVE  Shaped(d)
<1> SUFFICES ASSUME NEW k \in DOMAIN c PROVE ShapedAt(d, k)
  BY DEF SameNames, Shaped
<1>1. /\ 1 \in DOMAIN c[k].locals /\ Len(c[k].locals) \in DOMAIN c[k].locals
      /\ (k > 1 => k - 1 \in DOMAIN c)
  BY TypedAt
<1>2. /\ InBody(d[k]) = InBody(c[k]) /\ InClass(d[k]) = InClass(c[k])
      /\ InSubclass(d[k]) = InSubclass(c[k])
  BY DEF SameNames, InBody, InClass, InSubclass
<1>3. (k > 1 /\ InBody(d[k - 1])) = (k > 1 /\ InBody(c[k - 1]))
  BY <1>1 DEF SameNames, InBody
<1>4. /\ ShapeOf(c[k], k > 1 /\ InBody(c[k - 1]))
      /\ d[k].inside = c[k].inside /\ d[k].depth = c[k].depth
      /\ Len(d[k].locals) = Len(c[k].locals) /\ DOMAIN d[k].locals = DOMAIN c[k].locals
      /\ \A i \in DOMAIN c[k].locals : /\ d[k].locals[i].name = c[k].locals[i].name
                                      /\ d[k].locals[i].depth = c[k].locals[i].depth
  BY DEF Shaped, SameNames, ShapedAt
<1>5. ShapeOf(d[k], k > 1 /\ InBody(c[k - 1]))
  BY <1>1, <1>2, <1>4 DEF ShapeOf
<1>6. QED
  BY <1>3, <1>5 DEF ShapedAt

-------------------------------------------------------------------------------
(* Capturing a variable of a function further out.                         *)

LEMMA Adding ==
  ASSUME NEW ups \in Seq(Descriptors), NEW u \in Descriptors, NEW i, At(ups, u, i)
  PROVE  /\ With(ups, u) \in Seq(Descriptors)
         /\ i \in 1 .. Len(ups) + 1 /\ i \in DOMAIN With(ups, u)
         /\ \A j \in DOMAIN ups : j \in DOMAIN With(ups, u) /\ With(ups, u)[j] = ups[j]
         /\ \A j \in DOMAIN With(ups, u) : j \notin DOMAIN ups =>
              j = i /\ With(ups, u)[j] = u /\ ~Has(ups, u)
         /\ Same(With(ups, u)[i], u)
         /\ DOMAIN With(ups, u) = 1 .. Len(With(ups, u)) /\ Len(With(ups, u)) \in Nat
         /\ Len(With(ups, u)) <= Len(ups) + 1
<1>1. Len(ups) \in Nat /\ DOMAIN ups = 1 .. Len(ups)
  BY LenProperties
<1>2. CASE Has(ups, u)
  <2>1. With(ups, u) = ups /\ i \in DOMAIN ups /\ Same(ups[i], u)
    BY <1>2 DEF With, At
  <2>2. QED
    BY <1>1, <2>1
<1>3. CASE ~Has(ups, u)
  <2>1. With(ups, u) = Append(ups, u) /\ i = Len(ups) + 1
    BY <1>3 DEF With, At
  <2>2. /\ Append(ups, u) \in Seq(Descriptors) /\ Len(Append(ups, u)) = Len(ups) + 1
        /\ \A j \in 1 .. Len(ups) : Append(ups, u)[j] = ups[j]
        /\ Append(ups, u)[Len(ups) + 1] = u
    BY AppendProperties
  <2>3. DOMAIN Append(ups, u) = 1 .. Len(ups) + 1
    BY <2>2, LenProperties
  <2>4. QED
    BY <1>1, <1>3, <2>1, <2>2, <2>3 DEF Same
<1>4. QED
  BY <1>2, <1>3

(* The chain after the capture, function by function.                      *)
Captured(c, d, o, v, where) ==
  /\ \A k \in 1 .. o - 1 : d[k] = c[k]
  /\ d[o] = [c[o] EXCEPT !.locals = Used(Mark(@, v.local), o, v)]
  /\ \A k \in o + 1 .. Len(c) :
       d[k] = [c[k] EXCEPT !.upvals = With(@, Capture(k, o, v.local, where, v))]

LEMMA CapturedSound ==
  ASSUME NEW c, Sound(c), NEW name, NEW o \in DOMAIN c, NEW v \in Variables, NEW d, NEW where,
         v.function = o, v.local \in DOMAIN c[o].locals, o < Len(c),
         DOMAIN d = DOMAIN c, Captured(c, d, o, v, where),
         d = [k \in 1 .. Len(c) |-> d[k]],
         \A k \in o + 1 .. Len(c) :
           /\ Len(c[k].upvals) < UpvalMax /\ where[k] \in 1 .. UpvalMax
           /\ At(c[k].upvals, Capture(k, o, v.local, where, v), where[k])
  PROVE  /\ Sound(d) /\ SameNames(c, d)
         /\ where[Len(c)] \in DOMAIN d[Len(c)].upvals
         /\ d[Len(c)].upvals[where[Len(c)]].of = v
<1> DEFINE cap(k) == Capture(k, o, v.local, where, v)
<1>1. /\ Typed(c) /\ Len(c) \in Nat /\ DOMAIN c = 1 .. Len(c) /\ o \in Nat \ {0}
      /\ c \in Seq(Compilers) /\ Len(c) <= FunctionMax
  BY LenProperties DEF Sound, Typed
<1>2. \A k \in DOMAIN c :
        /\ c[k] \in Compilers /\ c[k].upvals \in Seq(Descriptors)
        /\ DOMAIN c[k].upvals = 1 .. Len(c[k].upvals) /\ Len(c[k].upvals) \in Nat
        /\ c[k].locals \in Seq(Locals) /\ DOMAIN c[k].locals = 1 .. Len(c[k].locals)
        /\ Len(c[k].locals) \in Nat \ {0}
  BY <1>1, TypedAt DEF Compilers
<1>3. v.local \in Nat \ {0}
  BY <1>2
<1>4. ASSUME NEW k \in o + 1 .. Len(c)
      PROVE  /\ k \in DOMAIN c /\ cap(k) \in Descriptors /\ cap(k).of = v
             /\ cap(k).local = (k = o + 1)
             /\ cap(k).index = IF k = o + 1 THEN v.local ELSE where[k - 1]
  <2>1. k \in DOMAIN c /\ k \in Int
    BY <1>1
  <2>2. CASE k = o + 1
    BY <2>1, <2>2, <1>3 DEF Capture, Descriptors
  <2>3. CASE k # o + 1
    <3>1. k - 1 \in o + 1 .. Len(c)
      BY <1>1, <2>3
    <3>2. where[k - 1] \in Nat \ {0}
      BY <3>1
    <3>3. QED
      BY <2>1, <2>3, <3>2 DEF Capture, Descriptors
  <2>4. QED
    BY <2>2, <2>3
<1> HIDE DEF cap
<1>5. ASSUME NEW k \in o + 1 .. Len(c)
      PROVE  /\ d[k].upvals = With(c[k].upvals, cap(k))
             /\ d[k].locals = c[k].locals /\ d[k].depth = c[k].depth /\ d[k].inside = c[k].inside
             /\ d[k].upvals \in Seq(Descriptors)
             /\ where[k] \in DOMAIN d[k].upvals
             /\ \A j \in DOMAIN c[k].upvals : j \in DOMAIN d[k].upvals /\ d[k].upvals[j] = c[k].upvals[j]
             /\ \A j \in DOMAIN d[k].upvals : j \notin DOMAIN c[k].upvals =>
                  j = where[k] /\ d[k].upvals[j] = cap(k) /\ ~Has(c[k].upvals, cap(k))
             /\ Same(d[k].upvals[where[k]], cap(k))
             /\ Len(d[k].upvals) <= UpvalMax
             /\ d[k] \in Compilers
  <2>1. k \in DOMAIN c /\ cap(k) \in Descriptors
    BY <1>4
  <2>2. d[k] = [c[k] EXCEPT !.upvals = With(@, cap(k))]
    BY DEF Captured, cap
  <2>3. c[k] \in Compilers /\ c[k].upvals \in Seq(Descriptors)
    BY <1>2, <2>1
  <2>4. /\ d[k].upvals = With(c[k].upvals, cap(k))
        /\ d[k].locals = c[k].locals /\ d[k].depth = c[k].depth /\ d[k].inside = c[k].inside
    BY <2>2, <2>3 DEF Compilers
  <2>5. At(c[k].upvals, cap(k), where[k]) /\ Len(c[k].upvals) < UpvalMax
    BY DEF cap
  <2>6. /\ d[k].upvals \in Seq(Descriptors)
        /\ where[k] \in DOMAIN d[k].upvals
        /\ \A j \in DOMAIN c[k].upvals : j \in DOMAIN d[k].upvals /\ d[k].upvals[j] = c[k].upvals[j]
        /\ \A j \in DOMAIN d[k].upvals : j \notin DOMAIN c[k].upvals =>
             j = where[k] /\ d[k].upvals[j] = cap(k) /\ ~Has(c[k].upvals, cap(k))
        /\ Same(d[k].upvals[where[k]], cap(k))
        /\ Len(d[k].upvals) \in Nat /\ Len(d[k].upvals) <= Len(c[k].upvals) + 1
    BY <2>1, <2>3, <2>4, <2>5, Adding
  <2>7. Len(d[k].upvals) <= UpvalMax
    BY <1>2, <2>1, <2>5, <2>6, Limits
  <2>8. d[k] \in Compilers
    BY <2>2, <2>3, <2>4, <2>6 DEF Compilers
  <2>9. QED
    BY <2>4, <2>6, <2>7, <2>8
<1>6. \A k \in 1 .. o - 1 : k \in DOMAIN c /\ d[k] = c[k]
  <2>1. \A k \in 1 .. o - 1 : k \in DOMAIN c
    BY <1>1
  <2>2. \A k \in 1 .. o - 1 : d[k] = c[k]
    BY Zenon DEF Captured
  <2>3. QED
    BY <2>1, <2>2
<1>7. /\ d[o].upvals = c[o].upvals /\ d[o].depth = c[o].depth /\ d[o].inside = c[o].inside
      /\ d[o].locals \in Seq(Locals) /\ Len(d[o].locals) = Len(c[o].locals)
      /\ DOMAIN d[o].locals = DOMAIN c[o].locals
      /\ \A i \in DOMAIN c[o].locals : /\ d[o].locals[i].name = c[o].locals[i].name
                                      /\ d[o].locals[i].depth = c[o].locals[i].depth
      /\ MarkedAt(d, o) /\ d[o] \in Compilers
  <2> DEFINE l == c[o].locals
             new == Used(Mark(l, v.local), o, v)
  <2>1. l \in Seq(Locals) /\ DOMAIN l = 1 .. Len(l) /\ Len(l) \in Nat
    BY <1>2
  <2>2. \A i \in DOMAIN l : (v = [function |-> o, local |-> i]) = (i = v.local)
    BY DEF Variables
  <2>3. new = [i \in DOMAIN l |->
                 IF i = v.local THEN [l[i] EXCEPT !.captured = TRUE, !.used = TRUE] ELSE l[i]]
    <3>1. /\ DOMAIN Mark(l, v.local) = DOMAIN l
          /\ \A i \in DOMAIN l : Mark(l, v.local)[i] =
               IF i = v.local THEN [l[i] EXCEPT !.captured = TRUE] ELSE l[i]
      BY DEF Mark
    <3>2. \A i \in DOMAIN l : l[i] \in Locals
      BY <2>1
    <3>3. \A i \in DOMAIN l :
            [[l[i] EXCEPT !.captured = TRUE] EXCEPT !.used = TRUE]
              = [l[i] EXCEPT !.captured = TRUE, !.used = TRUE]
      BY <3>2 DEF Locals
    <3>4. Used(Mark(l, v.local), o, v) = [i \in DOMAIN Mark(l, v.local) |->
            IF v = [function |-> o, local |-> i]
            THEN [Mark(l, v.local)[i] EXCEPT !.used = TRUE] ELSE Mark(l, v.local)[i]]
      BY DEF Used
    <3>5. Used(Mark(l, v.local), o, v) = [i \in DOMAIN l |->
            IF i = v.local
            THEN [[l[i] EXCEPT !.captured = TRUE] EXCEPT !.used = TRUE] ELSE l[i]]
      <4> DEFINE mk == Mark(l, v.local)
                 left(i)  == IF v = [function |-> o, local |-> i]
                             THEN [mk[i] EXCEPT !.used = TRUE] ELSE mk[i]
                 right(i) == IF i = v.local
                             THEN [[l[i] EXCEPT !.captured = TRUE] EXCEPT !.used = TRUE] ELSE l[i]
      <4>1. DOMAIN mk = DOMAIN l
        BY <3>1
      <4>2. ASSUME NEW i \in DOMAIN l PROVE left(i) = right(i)
        <5>1. CASE i = v.local
          <6>1. mk[i] = [l[i] EXCEPT !.captured = TRUE]
            BY <3>1, <5>1
          <6> HIDE DEF mk
          <6>2. left(i) = [mk[i] EXCEPT !.used = TRUE]
            BY <2>2, <5>1
          <6>3. QED
            BY <5>1, <6>1, <6>2
        <5>2. CASE i # v.local
          <6>1. mk[i] = l[i]
            BY <3>1, <5>2
          <6> HIDE DEF mk
          <6>2. left(i) = mk[i]
            BY <2>2, <5>2
          <6>3. QED
            BY <5>2, <6>1, <6>2
        <5>3. QED
          BY <5>1, <5>2
      <4>3. Used(mk, o, v) = [i \in DOMAIN mk |-> left(i)]
        BY <3>4
      <4> HIDE DEF mk, left, right
      <4>4. Used(mk, o, v) = [i \in DOMAIN l |-> right(i)]
        BY <4>1, <4>2, <4>3
      <4>5. QED
        BY <4>4 DEF mk, right
    <3>6. QED
      BY <3>3, <3>5
  <2>4. \A i \in DOMAIN l : /\ l[i] \in Locals /\ new[i] \in Locals
                            /\ new[i].name = l[i].name /\ new[i].depth = l[i].depth
                            /\ (l[i].captured = l[i].used => new[i].captured = new[i].used)
    <3>1. \A i \in DOMAIN l : l[i] \in Locals
      BY <2>1
    <3>2. SUFFICES ASSUME NEW i \in DOMAIN l
                   PROVE  /\ new[i] \in Locals
                          /\ new[i].name = l[i].name /\ new[i].depth = l[i].depth
                          /\ (l[i].captured = l[i].used => new[i].captured = new[i].used)
      BY <3>1
    <3>3. new[i] = IF i = v.local THEN [l[i] EXCEPT !.captured = TRUE, !.used = TRUE] ELSE l[i]
      BY <2>3
    <3>4. l[i] \in Locals
      BY <3>1
    <3> HIDE DEF l, new
    <3>5. QED
      BY <3>3, <3>4 DEF Locals
  <2>5. new \in Seq(Locals) /\ Len(new) = Len(l) /\ DOMAIN new = DOMAIN l
    <3>1. new \in [1 .. Len(l) -> Locals]
      BY <2>1, <2>3, <2>4
    <3>2. QED
      BY <2>1, <3>1, FunctionIsSeq
  <2>6. d[o] = [c[o] EXCEPT !.locals = new] /\ c[o] \in Compilers
    BY <1>2 DEF Captured
  <2> HIDE DEF new
  <2>7. /\ d[o].upvals = c[o].upvals /\ d[o].depth = c[o].depth /\ d[o].inside = c[o].inside
        /\ d[o].locals = new /\ d[o] \in Compilers
    BY <2>5, <2>6 DEF Compilers
  <2>8. MarkedAt(c, o)
    BY DEF Sound, Marked
  <2>9. QED
    BY <2>4, <2>5, <2>7, <2>8 DEF MarkedAt
<1>8. \A k \in DOMAIN c : k \in 1 .. o - 1 \/ k = o \/ k \in o + 1 .. Len(c)
  BY <1>1
<1>9. /\ d \in Seq(Compilers) /\ Len(d) = Len(c)
  <2>1. ASSUME NEW k \in DOMAIN c
        PROVE  d[k] \in Compilers
    <3>1. CASE k \in 1 .. o - 1
      <4>1. d[k] = c[k]
        BY <1>6, <3>1
      <4>2. c[k] \in Compilers
        BY <1>2
      <4>3. QED
        BY <4>1, <4>2
    <3>2. CASE k = o
      BY <1>7, <3>2
    <3>3. CASE k \in o + 1 .. Len(c)
      BY <1>5, <3>3
    <3>4. QED
      BY <1>8, <3>1, <3>2, <3>3
  <2>2. d \in [1 .. Len(c) -> Compilers]
    BY <2>1
  <2>3. QED
    BY <1>1, <2>2, FunctionIsSeq
<1>10. SameNames(c, d)
  <2> SUFFICES ASSUME NEW k \in DOMAIN c
               PROVE  /\ d[k].inside = c[k].inside /\ d[k].depth = c[k].depth
                      /\ Len(d[k].locals) = Len(c[k].locals)
                      /\ DOMAIN d[k].locals = DOMAIN c[k].locals
                      /\ \A i \in DOMAIN c[k].locals :
                           /\ d[k].locals[i].name = c[k].locals[i].name
                           /\ d[k].locals[i].depth = c[k].locals[i].depth
    BY DEF SameNames
  <2>1. CASE k \in 1 .. o - 1
    BY <2>1, <1>6
  <2>2. CASE k = o
    BY <2>2, <1>7
  <2>3. CASE k \in o + 1 .. Len(c)
    BY <2>3, <1>5
  <2>4. QED
    BY <1>8, <2>1, <2>2, <2>3
<1>11. Typed(d)
  <2>1. d # <<>>
    BY <1>1, <1>9, EmptySeq
  <2>2. \A k \in DOMAIN d : /\ Len(d[k].locals) = Len(c[k].locals)
                            /\ d[k].locals \in Seq(Locals)
                            /\ Len(d[k].upvals) <= UpvalMax
    <3>1. \A k \in DOMAIN d : d[k] \in Compilers /\ Len(d[k].locals) = Len(c[k].locals)
      BY <1>1, <1>9, <1>10, ElementOfSeq DEF SameNames
    <3>2. \A k \in DOMAIN c : Len(c[k].upvals) <= UpvalMax
      BY DEF Sound, Typed
    <3>3. \A k \in DOMAIN d : Len(d[k].upvals) <= UpvalMax
      <4> SUFFICES ASSUME NEW k \in DOMAIN c PROVE Len(d[k].upvals) <= UpvalMax
        BY <1>9
      <4>1. CASE k \in 1 .. o - 1
        BY <1>6, <3>2, <4>1
      <4>2. CASE k = o
        BY <1>7, <3>2, <4>2
      <4>3. CASE k \in o + 1 .. Len(c)
        BY <1>5, <4>3
      <4>4. QED
        BY <1>8, <4>1, <4>2, <4>3
    <3>4. QED
      BY <3>1, <3>3 DEF Compilers
  <2>3. \A k \in DOMAIN d : d[k].locals # <<>> /\ Len(d[k].locals) <= LocalMax
    <3> SUFFICES ASSUME NEW k \in DOMAIN c
                 PROVE  d[k].locals # <<>> /\ Len(d[k].locals) <= LocalMax
      BY <1>9
    <3>1. Len(c[k].locals) <= LocalMax /\ Len(c[k].locals) # 0
      BY <1>2 DEF Sound, Typed
    <3>2. Len(d[k].locals) = Len(c[k].locals)
      BY <1>9, <2>2
    <3>3. QED
      BY <3>1, <3>2, EmptySeq
  <2>4. QED
    BY <1>1, <1>9, <2>1, <2>2, <2>3 DEF Typed
<1>12. Shaped(d)
  BY <1>10, SameNamesShaped DEF Sound
<1>13. Marked(d)
  <2> SUFFICES ASSUME NEW k \in DOMAIN c PROVE MarkedAt(d, k)
    BY DEF Marked
  <2>1. MarkedAt(c, k)
    BY DEF Sound, Marked
  <2>2. CASE k \in 1 .. o - 1
    BY <2>1, <2>2, <1>6 DEF MarkedAt
  <2>3. CASE k = o
    BY <2>3, <1>7
  <2>4. CASE k \in o + 1 .. Len(c)
    BY <2>1, <2>4, <1>5 DEF MarkedAt
  <2>5. QED
    BY <1>8, <2>2, <2>3, <2>4
<1>14. ASSUME NEW k \in o + 1 .. Len(c), k > o + 1 => d[k - 1].upvals[where[k - 1]].of = v
       PROVE  /\ d[k].upvals[where[k]].of = v
              /\ \A j \in DOMAIN d[k].upvals : Denotes(d, k, d[k].upvals[j])
  <2>1. /\ k \in DOMAIN c /\ k \in Int /\ (k > o + 1 => k - 1 \in o + 1 .. Len(c))
        /\ (k = o + 1 => k - 1 = o)
    BY <1>1, <1>4
  <2>2. ASSUME NEW j \in DOMAIN c[k].upvals PROVE Denotes(d, k, c[k].upvals[j])
    <3>1. Denotes(c, k, c[k].upvals[j])
      BY <2>1 DEF Sound, Denoting
    <3>2. \A n \in DOMAIN c[k - 1].upvals :
            n \in DOMAIN d[k - 1].upvals /\ d[k - 1].upvals[n] = c[k - 1].upvals[n]
      <4>1. CASE k = o + 1
        BY <2>1, <4>1, <1>7
      <4>2. CASE k > o + 1
        BY <2>1, <4>2, <1>5
      <4>3. k = o + 1 \/ k > o + 1
        BY <1>1
      <4>4. QED
        BY <4>1, <4>2, <4>3
    <3>3. QED
      BY <3>1, <3>2 DEF Denotes
  <2>3. Denotes(d, k, cap(k))
    <3>1. CASE k = o + 1
      <4>1. v = [function |-> k - 1, local |-> v.local]
        BY <2>1, <3>1 DEF Variables
      <4>2. QED
        BY <3>1, <4>1, <1>4 DEF Denotes
    <3>2. CASE k > o + 1
      <4>1. where[k - 1] \in DOMAIN d[k - 1].upvals
        BY <2>1, <3>2, <1>5
      <4>2. ~cap(k).local /\ cap(k).index = where[k - 1] /\ cap(k).of = v
        <5>1. k # o + 1
          BY <1>1, <2>1, <3>2
        <5>2. QED
          BY <5>1, <1>4
      <4>3. d[k - 1].upvals[where[k - 1]].of = v
        BY <3>2, <1>14
      <4>4. QED
        BY <4>1, <4>2, <4>3 DEF Denotes
    <3>3. QED
      BY <2>1, <3>1, <3>2
  <2>4. \A j \in DOMAIN d[k].upvals : Denotes(d, k, d[k].upvals[j])
    BY <2>2, <2>3, <1>5
  <2>5. /\ Denotes(d, k, d[k].upvals[where[k]])
        /\ d[k].upvals[where[k]].local = cap(k).local
        /\ d[k].upvals[where[k]].index = cap(k).index
    BY <2>4, <1>5 DEF Same
  <2>6. d[k].upvals[where[k]].of = v
    <3>1. cap(k).of = v
      BY <1>4
    <3>2. CASE cap(k).local
      BY <2>3, <2>5, <3>1, <3>2 DEF Denotes
    <3>3. CASE ~cap(k).local
      BY <2>3, <2>5, <3>1, <3>3 DEF Denotes
    <3>4. QED
      BY <3>2, <3>3
  <2>7. QED
    BY <2>4, <2>6
<1>15. ASSUME NEW k \in o + 1 .. Len(c) PROVE d[k].upvals[where[k]].of = v
  <2> DEFINE bad == {n \in o + 1 .. Len(c) : d[n].upvals[where[n]].of # v}
  <2>1. bad \in SUBSET Nat
    BY <1>1
  <2>2. ASSUME bad # {} PROVE FALSE
    <3>1. PICK n \in bad : \A l \in bad : n <= l
      <4> HIDE DEF bad
      <4>1. QED
        BY <2>1, <2>2, LeastNumber
    <3>2. n \in o + 1 .. Len(c) /\ d[n].upvals[where[n]].of # v
      OBVIOUS
    <3>3. n > o + 1 => n - 1 \in o + 1 .. Len(c) /\ n - 1 \notin bad
      <4> HIDE DEF bad
      <4>1. QED
        BY <1>1, <3>1, <3>2
    <3>4. n > o + 1 => d[n - 1].upvals[where[n - 1]].of = v
      BY <3>3
    <3>5. QED
      BY <3>2, <3>4, <1>14
  <2>3. QED
    BY <2>2
<1>16. ASSUME NEW k \in o + 1 .. Len(c)
       PROVE  \A j \in DOMAIN d[k].upvals : Denotes(d, k, d[k].upvals[j])
  <2>1. k > o + 1 => k - 1 \in o + 1 .. Len(c)
    BY <1>1
  <2>2. k > o + 1 => d[k - 1].upvals[where[k - 1]].of = v
    BY <2>1, <1>15
  <2>3. QED
    BY <2>2, <1>14
<1>17. Denoting(d)
  <2>1. ASSUME NEW k \in DOMAIN c, k \in 1 .. o - 1 \/ k = o, NEW j \in DOMAIN d[k].upvals
        PROVE  /\ k > 1 /\ Denotes(d, k, d[k].upvals[j]) /\ d[k].upvals[j].of.function < k
    <3>1. d[k].upvals = c[k].upvals /\ (k > 1 => d[k - 1].upvals = c[k - 1].upvals)
      <4>1. CASE k \in 1 .. o - 1
        <5>1. k > 1 => k - 1 \in 1 .. o - 1
          BY <1>1, <4>1
        <5>2. QED
          BY <4>1, <5>1, <1>6
      <4>2. CASE k = o
        <5>1. k > 1 => k - 1 \in 1 .. o - 1
          BY <1>1, <4>2
        <5>2. QED
          BY <4>2, <5>1, <1>6, <1>7
      <4>3. QED
        BY <2>1, <4>1, <4>2
    <3>2. /\ k > 1 /\ Denotes(c, k, c[k].upvals[j]) /\ c[k].upvals[j].of.function < k
      BY <3>1, <2>1 DEF Sound, Denoting
    <3>3. QED
      BY <3>1, <3>2 DEF Denotes
  <2>2. ASSUME NEW k \in o + 1 .. Len(c), NEW j \in DOMAIN d[k].upvals
        PROVE  /\ k > 1 /\ Denotes(d, k, d[k].upvals[j]) /\ d[k].upvals[j].of.function < k
    <3>1. k > 1 /\ o < k /\ k \in DOMAIN c
      BY <1>1
    <3>2. d[k].upvals[j].of.function < k
      <4>1. CASE j \in DOMAIN c[k].upvals
        <5>1. d[k].upvals[j] = c[k].upvals[j]
          BY <4>1, <1>5
        <5>2. QED
          BY <4>1, <5>1, <3>1 DEF Sound, Denoting
      <4>2. CASE j \notin DOMAIN c[k].upvals
        <5>1. d[k].upvals[j] = cap(k) /\ cap(k).of = v
          BY <4>2, <1>4, <1>5
        <5>2. QED
          BY <5>1, <3>1
      <4>3. QED
        BY <4>1, <4>2
    <3>3. QED
      BY <3>1, <3>2, <1>16
  <2>3. QED
    BY <1>8, <1>10, <2>1, <2>2 DEF Denoting, SameNames
<1>18. ASSUME NEW k \in o + 1 .. Len(c),
              k > o + 1 => \A i, j \in DOMAIN d[k - 1].upvals :
                             d[k - 1].upvals[i].of = d[k - 1].upvals[j].of => i = j
       PROVE  \A i, j \in DOMAIN d[k].upvals : d[k].upvals[i].of = d[k].upvals[j].of => i = j
  <2>1. /\ k \in DOMAIN c /\ k \in Int /\ (k > o + 1 => k - 1 \in o + 1 .. Len(c))
        /\ (k = o + 1 => k - 1 = o)
    BY <1>1, <1>4
  <2>2. ASSUME NEW i \in DOMAIN c[k].upvals, c[k].upvals[i].of = v PROVE Same(c[k].upvals[i], cap(k))
    <3>1. /\ Denotes(c, k, c[k].upvals[i]) /\ c[k].upvals[i] \in Descriptors
      BY <1>2, <2>1, ElementOfSeq DEF Sound, Denoting
    <3>2. CASE k = o + 1
      <4>1. c[k].upvals[i].local
        <5> SUFFICES ASSUME ~c[k].upvals[i].local PROVE FALSE
          OBVIOUS
        <5>1. /\ c[k].upvals[i].index \in DOMAIN c[o].upvals
              /\ c[o].upvals[c[k].upvals[i].index].of = v
          BY <2>1, <2>2, <3>1, <3>2 DEF Denotes
        <5>2. c[o].upvals[c[k].upvals[i].index].of.function < o
          BY <5>1 DEF Sound, Denoting
        <5>3. QED
          BY <1>1, <5>1, <5>2
      <4>2. v = [function |-> k - 1, local |-> c[k].upvals[i].index]
        BY <2>2, <3>1, <4>1 DEF Denotes
      <4>3. v.local = c[k].upvals[i].index
        BY <4>2
      <4>4. QED
        BY <1>4, <3>1, <3>2, <4>1, <4>3 DEF Same, Descriptors
    <3>3. CASE k > o + 1
      <4>1. ~c[k].upvals[i].local
        <5> SUFFICES ASSUME c[k].upvals[i].local PROVE FALSE
          OBVIOUS
        <5>1. v = [function |-> k - 1, local |-> c[k].upvals[i].index]
          BY <2>2, <3>1 DEF Denotes
        <5>2. o = k - 1
          BY <5>1
        <5>3. QED
          BY <1>1, <2>1, <3>3, <5>2
      <4>2. /\ c[k].upvals[i].index \in DOMAIN c[k - 1].upvals
            /\ c[k - 1].upvals[c[k].upvals[i].index].of = v
        BY <2>2, <3>1, <4>1 DEF Denotes
      <4>3. /\ c[k].upvals[i].index \in DOMAIN d[k - 1].upvals
            /\ d[k - 1].upvals[c[k].upvals[i].index].of = v
            /\ where[k - 1] \in DOMAIN d[k - 1].upvals
            /\ d[k - 1].upvals[where[k - 1]].of = v
        BY <2>1, <3>3, <4>2, <1>5, <1>15
      <4>4. c[k].upvals[i].index = where[k - 1]
        BY <3>3, <4>3, <1>18
      <4>5. QED
        BY <1>4, <3>1, <3>3, <4>1, <4>4 DEF Same, Descriptors
    <3>4. QED
      BY <2>1, <3>2, <3>3
  <2>3. ASSUME NEW i \in DOMAIN d[k].upvals, i \notin DOMAIN c[k].upvals,
               NEW j \in DOMAIN c[k].upvals
        PROVE  d[k].upvals[i].of # d[k].upvals[j].of
    <3> SUFFICES ASSUME d[k].upvals[i].of = d[k].upvals[j].of PROVE FALSE
      OBVIOUS
    <3>1. d[k].upvals[i].of = v /\ ~Has(c[k].upvals, cap(k)) /\ d[k].upvals[j] = c[k].upvals[j]
      <4>1. d[k].upvals[i] = cap(k) /\ ~Has(c[k].upvals, cap(k))
        BY <2>3, <1>5
      <4>2. d[k].upvals[j] = c[k].upvals[j] /\ cap(k).of = v
        BY <2>3, <1>4, <1>5
      <4>3. QED
        BY <4>1, <4>2
    <3>2. Same(c[k].upvals[j], cap(k))
      BY <2>2, <3>1
    <3>3. QED
      BY <3>1, <3>2 DEF Has
  <2>4. SUFFICES ASSUME NEW i \in DOMAIN d[k].upvals, NEW j \in DOMAIN d[k].upvals,
                        d[k].upvals[i].of = d[k].upvals[j].of
                 PROVE  i = j
    OBVIOUS
  <2>5. CASE i \in DOMAIN c[k].upvals /\ j \in DOMAIN c[k].upvals
    <3>1. c[k].upvals[i].of = c[k].upvals[j].of
      BY <2>4, <2>5, <1>5
    <3>2. QED
      BY <2>1, <2>5, <3>1 DEF Sound, Once
  <2>6. CASE i \notin DOMAIN c[k].upvals /\ j \notin DOMAIN c[k].upvals
    <3>1. i = where[k]
      BY <2>6, <1>5
    <3>2. j = where[k]
      BY <2>6, <1>5
    <3>3. QED
      BY <3>1, <3>2
  <2>7. QED
    BY <2>3, <2>4, <2>5, <2>6
<1>19. ASSUME NEW k \in o + 1 .. Len(c)
       PROVE  \A i, j \in DOMAIN d[k].upvals : d[k].upvals[i].of = d[k].upvals[j].of => i = j
  <2> DEFINE once(n) == \A i, j \in DOMAIN d[n].upvals :
                          d[n].upvals[i].of = d[n].upvals[j].of => i = j
             bad == {n \in o + 1 .. Len(c) : ~once(n)}
  <2>1. bad \in SUBSET Nat
    BY <1>1
  <2>2. ASSUME bad # {} PROVE FALSE
    <3>1. PICK n \in bad : \A l \in bad : n <= l
      <4> HIDE DEF bad
      <4>1. QED
        BY <2>1, <2>2, LeastNumber
    <3>2. n \in o + 1 .. Len(c) /\ ~once(n)
      OBVIOUS
    <3>3. n > o + 1 => n - 1 \in o + 1 .. Len(c) /\ n - 1 \notin bad
      <4> HIDE DEF bad
      <4>1. QED
        BY <1>1, <3>1, <3>2
    <3>4. n > o + 1 => once(n - 1)
      <4> HIDE DEF once
      <4>1. QED
        BY <3>3
    <3>5. QED
      BY <3>2, <3>4, <1>18
  <2>3. once(k)
    <3> HIDE DEF once
    <3>1. QED
      BY <2>2
  <2>4. QED
    BY <2>3
<1>20. Once(d)
  <2>1. ASSUME NEW k \in DOMAIN c, k \in 1 .. o - 1 \/ k = o
        PROVE  \A i, j \in DOMAIN d[k].upvals : d[k].upvals[i].of = d[k].upvals[j].of => i = j
    <3>1. d[k].upvals = c[k].upvals
      BY <1>6, <1>7, <2>1
    <3>2. QED
      BY <3>1 DEF Sound, Once
  <2>2. QED
    BY <1>8, <1>10, <1>19, <2>1 DEF Once, SameNames
<1>21. Len(c) \in o + 1 .. Len(c)
  BY <1>1
<1>22. QED
  BY <1>5, <1>10, <1>11, <1>12, <1>13, <1>15, <1>17, <1>20, <1>21 DEF Sound

LEMMA Resolving ==
  ASSUME NEW c, Sound(c), Len(c) = Current, NEW name,
         Matches(c, Current, name) = {}, Owners(c, name) # {},
         ResolveUpvalue(c, name), ~failed, ~failed'
  PROVE  /\ Sound(chain') /\ SameNames(c, chain') /\ UNCHANGED failed
         /\ \E a \in DOMAIN chain'[Current].upvals :
              /\ emitted' = Inst("GET_UPVAL", a, name)
              /\ chain'[Current].upvals[a].of = Lexical(c, name)
<1> DEFINE o == Highest(Owners(c, name))
           v == Lexical(c, name)
<1>1. /\ Typed(c) /\ Len(c) \in Nat \ {0} /\ DOMAIN c = 1 .. Len(c)
  <2>1. c \in Seq(Compilers) /\ c # <<>>
    BY DEF Sound, Typed
  <2>2. QED
    BY <2>1, LenProperties, EmptySeq DEF Sound
<1>2. /\ o \in DOMAIN c /\ v \in Variables /\ v.function = o
      /\ v.local = ResolveLocal(c, o, name) /\ v.local \in DOMAIN c[o].locals
      /\ Matches(c, o, name) # {}
  BY <1>1, OwnerFound
<1>3. o < Len(c)
  <2>1. o # Len(c)
    BY <1>2
  <2>2. QED
    BY <1>1, <1>2, <2>1
<1>4. /\ \A k \in o + 1 .. Current : ~(Len(c[k].upvals) >= UpvalMax)
      /\ UNCHANGED failed
      /\ \E where \in [o + 1 .. Current -> 1 .. UpvalMax] :
           /\ \A k \in o + 1 .. Current : At(c[k].upvals, Capture(k, o, v.local, where, v), where[k])
           /\ chain' = [k \in DOMAIN c |->
                IF k < o THEN c[k]
                ELSE IF k = o THEN [c[k] EXCEPT !.locals = Used(Mark(@, v.local), k, v)]
                ELSE [c[k] EXCEPT !.upvals = With(@, Capture(k, o, v.local, where, v))]]
           /\ emitted' = Inst("GET_UPVAL", where[Current], name)
  <2>1. v.local = ResolveLocal(c, o, name)
    BY <1>2
  <2>2. ~(\E k \in o + 1 .. Current : Len(c[k].upvals) >= UpvalMax)
    BY DEF ResolveUpvalue
  <2> HIDE DEF v
  <2>3. QED
    BY <2>1, <2>2 DEF ResolveUpvalue, v
<1>5. PICK where \in [o + 1 .. Current -> 1 .. UpvalMax] :
           /\ \A k \in o + 1 .. Current : At(c[k].upvals, Capture(k, o, v.local, where, v), where[k])
           /\ chain' = [k \in DOMAIN c |->
                IF k < o THEN c[k]
                ELSE IF k = o THEN [c[k] EXCEPT !.locals = Used(Mark(@, v.local), k, v)]
                ELSE [c[k] EXCEPT !.upvals = With(@, Capture(k, o, v.local, where, v))]]
           /\ emitted' = Inst("GET_UPVAL", where[Current], name)
  BY <1>4
<1> HIDE DEF o, v
<1>6. DOMAIN chain' = DOMAIN c /\ chain' = [k \in 1 .. Len(c) |-> chain'[k]]
  BY <1>1, <1>5
<1>7. Captured(c, chain', o, v, where)
  <2>1. \A k \in 1 .. o - 1 : k \in DOMAIN c /\ k < o
    BY <1>1, <1>2
  <2>2. \A k \in o + 1 .. Len(c) : k \in DOMAIN c /\ ~(k < o) /\ k # o
    BY <1>1, <1>2
  <2>3. o \in DOMAIN c /\ ~(o < o)
    BY <1>1, <1>2
  <2>4. \A k \in 1 .. o - 1 : chain'[k] = c[k]
    BY <1>5, <2>1
  <2>5. chain'[o] = [c[o] EXCEPT !.locals = Used(Mark(@, v.local), o, v)]
    BY <1>5, <2>3
  <2>6. \A k \in o + 1 .. Len(c) :
          chain'[k] = [c[k] EXCEPT !.upvals = With(@, Capture(k, o, v.local, where, v))]
    BY <1>5, <2>2
  <2>7. QED
    BY <2>4, <2>5, <2>6 DEF Captured
<1>8. \A k \in o + 1 .. Len(c) :
        /\ Len(c[k].upvals) < UpvalMax /\ where[k] \in 1 .. UpvalMax
        /\ At(c[k].upvals, Capture(k, o, v.local, where, v), where[k])
  <2>1. \A k \in o + 1 .. Len(c) : Len(c[k].upvals) \in Nat
    BY <1>1, <1>2, TypedAt
  <2>2. QED
    BY <1>4, <1>5, <2>1, Limits
<1>9. /\ Sound(chain') /\ SameNames(c, chain')
      /\ where[Len(c)] \in DOMAIN chain'[Len(c)].upvals
      /\ chain'[Len(c)].upvals[where[Len(c)]].of = v
  BY <1>2, <1>3, <1>6, <1>7, <1>8, CapturedSound
<1>10. QED
  BY <1>4, <1>5, <1>9 DEF v

(* What a chain of Compilers and an instruction say of a name.             *)
Reading(c, name) ==
  \/ \E i \in Nat : /\ emitted' = Inst("GET_LOCAL", i, name)
                    /\ Owners(c, name) # {}
                    /\ Lexical(c, name) = [function |-> Current, local |-> i]
  \/ \E a \in Nat : /\ emitted' = Inst("GET_UPVAL", a, name)
                    /\ Owners(c, name) # {}
                    /\ a \in DOMAIN chain'[Current].upvals
                    /\ chain'[Current].upvals[a].of = Lexical(c, name)
  \/ emitted' = Inst("GET_GLOBAL", 0, name) /\ Owners(c, name) = {}

LEMMA VariableSound ==
  ASSUME Sound(chain), failed = FALSE, NEW c, Sound(c), Len(c) = Current, NEW name,
         Variable(c, name)
  PROVE  /\ Sound(chain')
         /\ failed' \in BOOLEAN
         /\ failed' => UNCHANGED <<chain, emitted>>
         /\ ~failed' => SameNames(c, chain') /\ Reading(c, name)
<1>1. /\ Typed(c) /\ Len(c) \in Nat \ {0} /\ DOMAIN c = 1 .. Len(c) /\ Current \in DOMAIN c
  <2>1. c \in Seq(Compilers) /\ c # <<>>
    BY DEF Sound, Typed
  <2>2. QED
    BY <2>1, LenProperties, EmptySeq DEF Sound
<1>2. SameNames(c, c)
  BY DEF SameNames
<1>3. CASE Matches(c, Current, name) # {}
  <2> DEFINE i == ResolveLocal(c, Current, name)
  <2>1. emitted' = Inst("GET_LOCAL", i, name) /\ chain' = c /\ UNCHANGED failed
    BY <1>3 DEF Variable
  <2>2. Owners(c, name) # {}
    BY <1>1, <1>3 DEF Owners
  <2>3. Highest(Owners(c, name)) = Current
    BY <1>1, <1>3, <2>2, OwnerFound
  <2>4. Lexical(c, name) = [function |-> Current, local |-> i] /\ i \in DOMAIN c[Current].locals
    BY <1>1, <2>2, <2>3, OwnerFound
  <2>5. i \in Nat
    BY <1>1, <2>4, TypedAt
  <2> HIDE DEF i
  <2>6. QED
    BY <1>2, <2>1, <2>2, <2>4, <2>5 DEF Reading
<1>4. CASE Matches(c, Current, name) = {} /\ Owners(c, name) # {}
  <2>1. ResolveUpvalue(c, name)
    BY <1>4 DEF Variable
  <2>2. CASE failed'
    <3>1. failed' = TRUE /\ UNCHANGED <<chain, emitted>>
      BY <2>1, <2>2 DEF ResolveUpvalue
    <3>2. QED
      BY <2>2, <3>1
  <2>3. CASE ~failed'
    <3>1. /\ Sound(chain') /\ SameNames(c, chain') /\ UNCHANGED failed
          /\ \E a \in DOMAIN chain'[Current].upvals :
               /\ emitted' = Inst("GET_UPVAL", a, name)
               /\ chain'[Current].upvals[a].of = Lexical(c, name)
      BY <1>4, <2>1, <2>3, Resolving
    <3>2. DOMAIN chain'[Current].upvals \subseteq Nat
      <4>1. Typed(chain') /\ Current \in DOMAIN chain'
        BY <1>1, <3>1 DEF Sound, SameNames
      <4>2. QED
        BY <4>1, TypedAt
    <3>3. QED
      BY <1>4, <2>3, <3>1, <3>2 DEF Reading
  <2>4. QED
    BY <2>2, <2>3
<1>5. CASE Matches(c, Current, name) = {} /\ Owners(c, name) = {}
  BY <1>2, <1>5 DEF Variable, Reading
<1>6. QED
  BY <1>3, <1>4, <1>5

-------------------------------------------------------------------------------
(* What the steps make of the current Compiler.                            *)

HereFacts ==
  /\ Typed(chain) /\ Current \in Nat \ {0} /\ DOMAIN chain = 1 .. Current
  /\ Here = chain[Current] /\ Here \in Compilers
  /\ ShapeOf(Here, Current > 1 /\ InBody(chain[Current - 1]))
  /\ \A i \in DOMAIN Here.locals : Here.locals[i].captured = Here.locals[i].used
  /\ Len(Here.locals) \in Nat \ {0} /\ DOMAIN Here.locals = 1 .. Len(Here.locals)
  /\ Here.locals \in Seq(Locals) /\ Here.locals # <<>> /\ Len(Here.locals) <= LocalMax
  /\ \A i \in DOMAIN Here.locals : Here.locals[i] \in Locals
  /\ Len(Here.inside) \in Nat /\ DOMAIN Here.inside = 1 .. Len(Here.inside)
  /\ Here.inside \in Seq(Constructs) /\ Here.depth \in 0 .. DepthMax

LEMMA HereProperties == ASSUME Sound(chain) PROVE HereFacts
<1>1. Typed(chain)
  BY DEF Sound
<1>2. Current \in DOMAIN chain /\ Here \in Compilers /\ Current \in Nat \ {0}
  BY <1>1, CurrentAt
<1>3. DOMAIN chain = 1 .. Current
  BY <1>1, <1>2, TypedAt DEF Current
<1>4. ShapeOf(Here, Current > 1 /\ InBody(chain[Current - 1]))
  BY <1>2 DEF Sound, Shaped, ShapedAt, Here
<1>5. \A i \in DOMAIN Here.locals : Here.locals[i].captured = Here.locals[i].used
  BY <1>2 DEF Sound, Marked, MarkedAt, Here
<1>6. /\ Len(Here.locals) \in Nat \ {0} /\ DOMAIN Here.locals = 1 .. Len(Here.locals)
      /\ \A i \in DOMAIN Here.locals : Here.locals[i] \in Locals
      /\ Len(Here.inside) \in Nat /\ DOMAIN Here.inside = 1 .. Len(Here.inside)
  BY <1>1, <1>2, TypedAt DEF Here
<1>7. Here.locals # <<>> /\ Len(Here.locals) <= LocalMax
  BY <1>1, <1>2 DEF Typed, Here
<1>8. Here.locals \in Seq(Locals) /\ Here.inside \in Seq(Constructs) /\ Here.depth \in 0 .. DepthMax
  BY <1>2 DEF Compilers
<1>9. QED
  BY <1>1, <1>2, <1>3, <1>4, <1>5, <1>6, <1>7, <1>8 DEF HereFacts, Here

(* x may take the place of the current Compiler.                           *)
Replaces(x) ==
  /\ x \in Compilers /\ x.upvals = Here.upvals
  /\ x.locals # <<>> /\ Len(x.locals) <= LocalMax
  /\ ShapeOf(x, Current > 1 /\ InBody(chain[Current - 1]))
  /\ \A i \in DOMAIN x.locals : x.locals[i].captured = x.locals[i].used

LEMMA Replacing ==
  ASSUME Sound(chain), NEW x, Replaces(x)
  PROVE  /\ Sound([chain EXCEPT ![Current] = x])
         /\ Len([chain EXCEPT ![Current] = x]) = Current
<1>1. Sound([chain EXCEPT ![Current] = x])
  BY Becoming DEF Replaces
<1>2. chain \in Seq(Compilers) /\ Current \in 1 .. Len(chain) /\ x \in Compilers
  BY HereProperties DEF HereFacts, Replaces, Typed, Current
<1>3. QED
  BY <1>1, <1>2, ExceptSeq DEF Current

(* A variable that is declared.                                            *)
Extended(x) ==
  /\ x \in Compilers /\ x.upvals = Here.upvals
  /\ x.inside = Here.inside /\ x.depth = Here.depth
  /\ x.locals \in Seq(Locals) /\ x.locals # <<>> /\ Len(x.locals) <= LocalMax
  /\ Len(x.locals) \in Nat \ {0} /\ DOMAIN x.locals = 1 .. Len(x.locals)
  /\ Len(x.locals) <= Len(Here.locals) + 1
  /\ \A i \in DOMAIN Here.locals : i \in DOMAIN x.locals /\ x.locals[i] = Here.locals[i]
  /\ \A i \in DOMAIN x.locals : i \notin DOMAIN Here.locals => i # 1 /\ x.locals[i].name \in Name
  /\ \A i \in DOMAIN x.locals : x.locals[i].captured = x.locals[i].used

LEMMA HereExtended == ASSUME HereFacts PROVE Extended(Here)
BY DEF HereFacts, Extended

LEMMA DeclaringExtended ==
  ASSUME Sound(chain), HasRoom(1), NEW name \in Name
  PROVE  Extended(Declaring(name))
<1> DEFINE x == Declaring(name)
<1>1. HereFacts
  BY HereProperties
<1>2. CASE Here.depth = 0
  <2>1. x = Here
    BY <1>2 DEF Declaring
  <2>2. QED
    BY <1>1, <2>1, HereExtended
<1>3. CASE Here.depth # 0
  <2> DEFINE l == Local(name, Here.depth)
             ls == Append(Here.locals, l)
  <2>1. l \in Locals /\ l.name = name /\ l.captured = FALSE /\ l.used = FALSE
    BY <1>1 DEF HereFacts, Local, Locals
  <2>2. x = [Here EXCEPT !.locals = ls]
    BY <1>3 DEF Declaring
  <2> HIDE DEF l
  <2>3. /\ ls \in Seq(Locals) /\ ls # <<>> /\ Len(ls) = Len(Here.locals) + 1
        /\ \A i \in 1 .. Len(Here.locals) : ls[i] = Here.locals[i]
        /\ ls[Len(Here.locals) + 1] = l
    BY <1>1, <2>1, AppendProperties DEF HereFacts
  <2> HIDE DEF ls
  <2>4. DOMAIN ls = 1 .. Len(ls)
    BY <2>3, LenProperties
  <2>5. x \in Compilers /\ x.upvals = Here.upvals /\ x.inside = Here.inside
        /\ x.depth = Here.depth /\ x.locals = ls
    BY <1>1, <2>2, <2>3 DEF HereFacts, Compilers
  <2>6. Len(ls) <= LocalMax
    BY <2>3 DEF HasRoom
  <2>7. \A i \in DOMAIN ls : i \notin DOMAIN Here.locals => i # 1 /\ ls[i] = l
    BY <1>1, <2>3, <2>4 DEF HereFacts
  <2>8. \A i \in DOMAIN Here.locals : i \in DOMAIN ls /\ ls[i] = Here.locals[i]
    BY <1>1, <2>3, <2>4 DEF HereFacts
  <2>9. \A i \in DOMAIN ls : ls[i].captured = ls[i].used
    BY <1>1, <2>1, <2>7, <2>8 DEF HereFacts
  <2>10. Len(ls) \in Nat \ {0} /\ Len(ls) <= Len(Here.locals) + 1
    BY <1>1, <2>3 DEF HereFacts
  <2>11. \A i \in DOMAIN ls : i \notin DOMAIN Here.locals =>
           i # 1 /\ ls[i].name \in Name
    BY <2>1, <2>7
  <2>12. QED
    BY <2>3, <2>4, <2>5, <2>6, <2>8, <2>9, <2>10, <2>11 DEF Extended
<1>4. QED
  BY <1>2, <1>3

LEMMA ShapeKept ==
  ASSUME NEW f \in Compilers, NEW g \in Compilers, NEW method, ShapeOf(f, method),
         ~InBody(f), ~InSubclass(g), 1 \in DOMAIN f.locals,
         \A i \in DOMAIN f.locals : i \in DOMAIN g.locals /\ g.locals[i] = f.locals[i],
         \A i \in DOMAIN g.locals : i \notin DOMAIN f.locals => i # 1 /\ g.locals[i].name \in Name,
         \A i \in 1 .. Len(g.inside) - 1 : g.inside[i] = Block,
         Len(g.inside) - (IF InClass(g) THEN 1 ELSE 0) <= g.depth
  PROVE  ShapeOf(g, method)
<1>1. ~InSubclass(f)
  BY DEF InSubclass
<1>2. \A n \in Name : n # "this" /\ n # "super"
  BY ResolutionAssumption
<1>3. ASSUME NEW i \in DOMAIN g.locals
      PROVE  /\ g.locals[i].name = "this" <=> (i = 1 /\ method)
             /\ g.locals[i].name = "super" <=> (i = Len(g.locals) /\ InSubclass(g))
  <2>1. CASE i \in DOMAIN f.locals
    BY <1>1, <2>1 DEF ShapeOf
  <2>2. CASE i \notin DOMAIN f.locals
    BY <1>2, <2>2
  <2>3. QED
    BY <2>1, <2>2
<1>4. g.locals[1].depth = 0
  BY DEF ShapeOf
<1>5. QED
  BY <1>3, <1>4 DEF ShapeOf

(* Pushing a construct.                                                    *)
LEMMA InsidePushed ==
  ASSUME NEW ins \in Seq(Constructs), NEW e \in Constructs,
         \A i \in 1 .. Len(ins) : ins[i] = Block
  PROVE  /\ Append(ins, e) \in Seq(Constructs) /\ Len(Append(ins, e)) = Len(ins) + 1
         /\ Last(Append(ins, e)) = e /\ Append(ins, e) # <<>>
         /\ \A i \in 1 .. Len(Append(ins, e)) - 1 : Append(ins, e)[i] = Block
<1>1. Len(ins) \in Nat
  BY LenProperties
<1>2. /\ Append(ins, e) \in Seq(Constructs) /\ Append(ins, e) # <<>>
      /\ Len(Append(ins, e)) = Len(ins) + 1
      /\ \A i \in 1 .. Len(ins) : Append(ins, e)[i] = ins[i]
      /\ Append(ins, e)[Len(ins) + 1] = e
  BY AppendProperties
<1>3. QED
  BY <1>1, <1>2 DEF Last

LEMMA ConstructKinds ==
  /\ Block \in Constructs /\ ClassBody(TRUE) \in Constructs /\ ClassBody(FALSE) \in Constructs
  /\ Block.what # "class" /\ Block.super = FALSE
  /\ \A b \in BOOLEAN : ClassBody(b).what = "class" /\ ClassBody(b).super = b
BY DEF Constructs, Block, ClassBody

(* Outside of classes, all constructs are blocks.                          *)
LEMMA Blocks ==
  ASSUME HereFacts, ~InBody(Here)
  PROVE  /\ \A i \in 1 .. Len(Here.inside) : Here.inside[i] = Block
         /\ Len(Here.inside) <= Here.depth
<1>1. ShapeOf(Here, Current > 1 /\ InBody(chain[Current - 1]))
  BY DEF HereFacts
<1>2. /\ \A i \in 1 .. Len(Here.inside) - 1 : Here.inside[i] = Block
      /\ Len(Here.inside) - (IF InClass(Here) THEN 1 ELSE 0) <= Here.depth
  BY <1>1 DEF ShapeOf
<1>3. Len(Here.inside) \in Nat /\ Here.depth \in Nat
      /\ \A i \in 1 .. Len(Here.inside) : Here.inside[i] \in Constructs
  BY DEF HereFacts
<1>4. ~InClass(Here)
  BY DEF InClass
<1>5. Len(Here.inside) # 0 => Here.inside[Len(Here.inside)] = Block
  <2> SUFFICES ASSUME Len(Here.inside) # 0 PROVE Here.inside[Len(Here.inside)] = Block
    OBVIOUS
  <2>1. Here.inside # <<>>
    BY EmptySeq
  <2>2. Last(Here.inside).what # "class"
    BY <2>1 DEF InBody
  <2>3. Here.inside[Len(Here.inside)] \in Constructs /\ Here.inside[Len(Here.inside)].what # "class"
    BY <1>3, <2>2 DEF Last
  <2>4. QED
    BY <2>3, ConstructKinds DEF Constructs
<1>6. \A i \in 1 .. Len(Here.inside) : i \in 1 .. Len(Here.inside) - 1 \/ i = Len(Here.inside)
  BY <1>3
<1>7. QED
  BY <1>2, <1>3, <1>4, <1>5, <1>6

LEMMA ExtendedReplaces ==
  ASSUME Sound(chain), ~InClassBody, NEW x, Extended(x)
  PROVE  Replaces(x)
<1>1. HereFacts /\ ~InBody(Here)
  BY HereProperties DEF InClassBody
<1>2. ~InBody(x) /\ ~InSubclass(x) /\ ~InClass(x)
  BY <1>1 DEF Extended, InBody, InSubclass, InClass
<1> DEFINE method == Current > 1 /\ InBody(chain[Current - 1])
<1>3. Here \in Compilers /\ ShapeOf(Here, method) /\ 1 \in DOMAIN Here.locals
  BY <1>1 DEF HereFacts
<1> HIDE DEF method
<1>4. ShapeOf(x, method)
  <2>1. \A i \in 1 .. Len(x.inside) : x.inside[i] = Block
    BY <1>1, Blocks DEF Extended
  <2>2. Len(x.inside) <= x.depth /\ Len(x.inside) \in Nat
    BY <1>1, Blocks DEF Extended, HereFacts
  <2>3. /\ \A i \in 1 .. Len(x.inside) - 1 : x.inside[i] = Block
        /\ Len(x.inside) - (IF InClass(x) THEN 1 ELSE 0) <= x.depth
    BY <1>2, <2>1, <2>2
  <2>4. QED
    BY <1>1, <1>2, <1>3, <2>3, ShapeKept DEF Extended
<1>5. QED
  BY <1>4 DEF Replaces, Extended, method

(* The same with a construct pushed: a block, or a class.                  *)
LEMMA PushReplaces ==
  ASSUME Sound(chain), ~InClassBody, NEW x, Extended(x), NEW e \in {Block, ClassBody(FALSE)},
         NEW n \in 0 .. DepthMax, n = x.depth + (IF e = Block THEN 1 ELSE 0),
         NEW y, y = [x EXCEPT !.depth = n, !.inside = Append(x.inside, e)]
  PROVE  Replaces(y)
<1>1. HereFacts /\ ~InBody(Here)
  BY HereProperties DEF InClassBody
<1>2. /\ x.inside \in Seq(Constructs) /\ Len(x.inside) \in Nat /\ x.depth \in Nat
      /\ Len(x.inside) <= x.depth /\ \A i \in 1 .. Len(x.inside) : x.inside[i] = Block
  BY <1>1, Blocks DEF HereFacts, Extended
<1> DEFINE ins == Append(x.inside, e)
<1>3. /\ ins \in Seq(Constructs) /\ Len(ins) = Len(x.inside) + 1 /\ Last(ins) = e /\ ins # <<>>
      /\ \A i \in 1 .. Len(ins) - 1 : ins[i] = Block
  <2>1. e \in Constructs
    BY ConstructKinds
  <2>2. QED
    BY <1>2, <2>1, InsidePushed
<1>4. /\ y \in Compilers /\ y.inside = ins /\ y.depth = n
      /\ y.locals = x.locals /\ y.upvals = x.upvals
  <2> HIDE DEF ins
  <2>1. y = [x EXCEPT !.depth = n, !.inside = ins]
    BY DEF ins
  <2>2. QED
    BY <1>3, <2>1 DEF Extended, Compilers
<1> HIDE DEF ins
<1>5. ~InSubclass(y)
  BY <1>3, <1>4, ConstructKinds DEF InSubclass
<1>6. Len(y.inside) - (IF InClass(y) THEN 1 ELSE 0) <= y.depth
  <2>1. CASE e = Block
    <3>1. n = x.depth + 1
      BY <2>1
    <3>2. ~InClass(y)
      BY <1>3, <1>4, <2>1, ConstructKinds DEF InClass, InBody
    <3>3. QED
      BY <1>2, <1>3, <1>4, <3>1, <3>2
  <2>2. CASE e = ClassBody(FALSE)
    <3>1. InClass(y)
      BY <1>3, <1>4, <2>2, ConstructKinds DEF InClass, InBody
    <3>2. e # Block
      BY <2>2, ConstructKinds
    <3>3. QED
      BY <1>2, <1>3, <1>4, <3>1, <3>2
  <2>3. QED
    BY <2>1, <2>2
<1> DEFINE method == Current > 1 /\ InBody(chain[Current - 1])
<1>7. Here \in Compilers /\ ShapeOf(Here, method) /\ 1 \in DOMAIN Here.locals
  BY <1>1 DEF HereFacts
<1> HIDE DEF method
<1>8. ShapeOf(y, method)
  <2>1. /\ \A i \in DOMAIN Here.locals : i \in DOMAIN y.locals /\ y.locals[i] = Here.locals[i]
        /\ \A i \in DOMAIN y.locals :
             i \notin DOMAIN Here.locals => i # 1 /\ y.locals[i].name \in Name
    BY <1>4 DEF Extended
  <2>2. y \in Compilers /\ \A i \in 1 .. Len(y.inside) - 1 : y.inside[i] = Block
    BY <1>3, <1>4
  <2>3. ~InBody(Here)
    BY <1>1
  <2> HIDE DEF method
  <2>4. QED
    BY <1>5, <1>6, <1>7, <2>1, <2>2, <2>3, ShapeKept
<1>9. QED
  BY <1>4, <1>8 DEF Replaces, Extended, method

LEMMA SubclassReplaces ==
  ASSUME Sound(chain), ~InClassBody, NEW x, Extended(x), Len(x.locals) < LocalMax,
         x.depth < DepthMax
  PROVE  Replaces(Subclass(x))
<1> DEFINE y == Subclass(x)
           ins == Append(x.inside, ClassBody(TRUE))
           l  == Local("super", x.depth + 1)
           ls == Append(x.locals, l)
<1>1. HereFacts /\ ~InBody(Here)
  BY HereProperties DEF InClassBody
<1>2. /\ x.inside \in Seq(Constructs) /\ Len(x.inside) \in Nat /\ x.depth \in Nat
      /\ Len(x.inside) <= x.depth /\ \A i \in 1 .. Len(x.inside) : x.inside[i] = Block
  BY <1>1, Blocks DEF HereFacts, Extended
<1>3. /\ ins \in Seq(Constructs) /\ Len(ins) = Len(x.inside) + 1
      /\ Last(ins) = ClassBody(TRUE) /\ ins # <<>>
      /\ \A i \in 1 .. Len(ins) - 1 : ins[i] = Block
  BY <1>2, ConstructKinds, InsidePushed
<1>4. x.depth + 1 \in 0 .. DepthMax
  BY <1>2, Limits
<1>5. /\ l \in Locals /\ l.name = "super" /\ l.depth = x.depth + 1
      /\ l.captured = FALSE /\ l.used = FALSE
  BY <1>4 DEF Local, Locals
<1> HIDE DEF l
<1>6. /\ x.locals \in Seq(Locals) /\ Len(x.locals) \in Nat \ {0}
      /\ DOMAIN x.locals = 1 .. Len(x.locals)
  BY DEF Extended
<1>7. /\ ls \in Seq(Locals) /\ ls # <<>> /\ Len(ls) = Len(x.locals) + 1
      /\ \A i \in 1 .. Len(x.locals) : ls[i] = x.locals[i]
      /\ ls[Len(x.locals) + 1] = l
  BY <1>5, <1>6, AppendProperties
<1>8. DOMAIN ls = 1 .. Len(x.locals) + 1
  BY <1>7, LenProperties
<1>9. /\ y \in Compilers /\ y.inside = ins /\ y.depth = x.depth + 1
      /\ y.locals = ls /\ y.upvals = x.upvals
  <2> HIDE DEF ins, ls
  <2>1. y = [x EXCEPT !.depth = @ + 1, !.inside = ins, !.locals = ls]
    BY DEF ins, ls, l, Subclass
  <2>2. QED
    BY <1>3, <1>4, <1>7, <2>1 DEF Extended, Compilers
<1> HIDE DEF ins, ls, y
<1>10. InSubclass(y) /\ ~InClass(y)
  BY <1>3, <1>9, ConstructKinds DEF InSubclass, InClass, InBody
<1> DEFINE method == Current > 1 /\ InBody(chain[Current - 1])
<1>11. ShapeOf(x, method)
  BY ExtendedReplaces DEF Replaces
<1>12. ~InSubclass(x)
  BY <1>1 DEF Extended, InSubclass, InBody
<1> HIDE DEF method
<1>13. ASSUME NEW i \in DOMAIN ls
       PROVE  /\ ls[i].name = "this" <=> (i = 1 /\ method)
              /\ ls[i].name = "super" <=> i = Len(ls)
              /\ ls[i].captured = ls[i].used
  <2>1. CASE i \in DOMAIN x.locals
    <3>1. ls[i] = x.locals[i] /\ i # Len(ls)
      BY <1>6, <1>7, <2>1
    <3>2. QED
      BY <1>11, <1>12, <2>1, <3>1 DEF ShapeOf, Extended
  <2>2. CASE i = Len(x.locals) + 1
    <3>1. ls[i] = l /\ i = Len(ls) /\ i # 1
      BY <1>6, <1>7, <2>2
    <3>2. QED
      BY <1>5, <3>1
  <2>3. QED
    BY <1>6, <1>8, <2>1, <2>2
<1>14. ls[1].depth = 0
  BY <1>6, <1>7, <1>11 DEF ShapeOf
<1>15. ShapeOf(y, method)
  <2>1. Len(y.inside) - (IF InClass(y) THEN 1 ELSE 0) <= y.depth
    BY <1>2, <1>3, <1>9, <1>10
  <2>2. y.locals[Len(y.locals)].depth = y.depth
    BY <1>5, <1>7, <1>9
  <2>3. QED
    BY <1>3, <1>9, <1>10, <1>13, <1>14, <2>1, <2>2 DEF ShapeOf
<1>16. Len(ls) <= LocalMax
  BY <1>6, <1>7, Limits
<1>17. QED
  BY <1>7, <1>9, <1>13, <1>15, <1>16 DEF Replaces, Extended, method, y

(* Leaving a construct.                                                    *)
LEMMA InsideFront ==
  ASSUME NEW ins \in Seq(Constructs), ins # <<>>,
         \A i \in 1 .. Len(ins) - 1 : ins[i] = Block
  PROVE  /\ Front(ins) \in Seq(Constructs) /\ Len(Front(ins)) = Len(ins) - 1
         /\ \A i \in 1 .. Len(Front(ins)) : Front(ins)[i] = Block
         /\ Front(ins) # <<>> => Last(Front(ins)) = Block
<1>1. Len(ins) \in Nat \ {0} /\ DOMAIN ins = 1 .. Len(ins)
  BY LenProperties, EmptySeq
<1>2. \A i \in 1 .. Len(ins) - 1 : ins[i] \in Constructs
  BY ConstructKinds
<1>3. /\ Front(ins) \in Seq(Constructs) /\ Len(Front(ins)) = Len(ins) - 1
      /\ \A i \in 1 .. Len(ins) - 1 - 1 + 1 : Front(ins)[i] = ins[1 + i - 1]
  BY <1>1, <1>2, SubSeqProperties DEF Front
<1>4. \A i \in 1 .. Len(Front(ins)) : Front(ins)[i] = Block
  <2> SUFFICES ASSUME NEW i \in 1 .. Len(Front(ins)) PROVE Front(ins)[i] = Block
    OBVIOUS
  <2>1. i \in 1 .. Len(ins) - 1 /\ 1 + i - 1 = i /\ i \in 1 .. Len(ins) - 1 - 1 + 1
    BY <1>1, <1>3
  <2>2. QED
    BY <1>3, <2>1
<1>5. Front(ins) # <<>> => Last(Front(ins)) = Block
  <2> DEFINE f == Front(ins)
  <2>1. f \in Seq(Constructs) /\ \A i \in 1 .. Len(f) : f[i] = Block
    BY <1>3, <1>4
  <2> HIDE DEF f
  <2>2. f # <<>> => Len(f) \in 1 .. Len(f)
    BY <2>1, LenProperties, EmptySeq
  <2>3. f # <<>> => Last(f) = Block
    BY <2>1, <2>2 DEF Last
  <2>4. QED
    BY <2>3 DEF f
<1>6. QED
  BY <1>3, <1>4, <1>5

LEMMA EndScopeReplaces ==
  ASSUME Sound(chain), Here.inside # <<>>, Last(Here.inside) = Block \/ InSubclass(Here)
  PROVE  Replaces(EndScope(Here)) /\ Kept(Here) \in 1 .. Len(Here.locals)
<1> DEFINE n == Len(Here.locals)
           d == Here.depth
           S == {0} \cup {i \in DOMAIN Here.locals : Here.locals[i].depth < d}
           K == Kept(Here)
           ls == SubSeq(Here.locals, 1, K)
           ins == Front(Here.inside)
           method == Current > 1 /\ InBody(chain[Current - 1])
           y == EndScope(Here)
<1>1. HereFacts
  BY HereProperties
<1>2. ShapeOf(Here, method)
  BY <1>1 DEF HereFacts
<1> HIDE DEF method
<1>3. ~InClass(Here)
  BY ConstructKinds DEF InClass, InSubclass, InBody
<1>4. Len(Here.inside) \in Nat \ {0} /\ Here.inside \in Seq(Constructs)
  BY <1>1, EmptySeq DEF HereFacts
<1>5. /\ Len(Here.inside) <= d /\ d \in 1 .. DepthMax /\ d - 1 \in 0 .. DepthMax
      /\ \A i \in 1 .. Len(Here.inside) - 1 : Here.inside[i] = Block
  <2>1. Len(Here.inside) <= d
    BY <1>2, <1>3, <1>4 DEF ShapeOf
  <2>2. d \in 0 .. DepthMax
    BY <1>1 DEF HereFacts
  <2>3. QED
    BY <1>2, <1>4, <2>1, <2>2, Limits DEF ShapeOf
<1>6. /\ n \in Nat \ {0} /\ DOMAIN Here.locals = 1 .. n
      /\ Here.locals[1].depth = 0 /\ Here.locals \in Seq(Locals)
      /\ n <= LocalMax
      /\ \A i \in 1 .. n : Here.locals[i] \in Locals
  BY <1>1, <1>2 DEF HereFacts, ShapeOf
<1> HIDE DEF n, d
<1>7. S \in SUBSET (0 .. n) /\ 1 \in S
  BY <1>5, <1>6
<1>8. K = Highest(S)
  BY DEF Kept, d
<1> HIDE DEF K
<1>9. K \in 1 .. n /\ K \in S
  <2> HIDE DEF S
  <2>1. K \in S /\ \A j \in S : j <= K
    BY <1>6, <1>7, <1>8, HighestProperty
  <2>2. K \in 0 .. n /\ 1 <= K
    BY <1>7, <2>1
  <2>3. QED
    BY <2>1, <2>2
<1>10. InSubclass(Here) => K < n
  <2> SUFFICES ASSUME InSubclass(Here), K = n PROVE FALSE
    BY <1>6, <1>9
  <2>1. Here.locals[n].depth = d
    BY <1>2 DEF ShapeOf, n, d
  <2>2. K # 0 /\ Here.locals[n].depth < d
    BY <1>9
  <2>3. QED
    BY <1>5, <2>1, <2>2
<1> HIDE DEF S
<1>11. /\ ls \in Seq(Locals) /\ Len(ls) = K /\ DOMAIN ls = 1 .. K /\ ls # <<>>
       /\ \A i \in 1 .. K : ls[i] = Here.locals[i]
  <2>1. \A i \in 1 .. K : Here.locals[i] \in Locals
    BY <1>6, <1>9
  <2>2. /\ ls \in Seq(Locals) /\ Len(ls) = K
        /\ \A i \in 1 .. K - 1 + 1 : ls[i] = Here.locals[1 + i - 1]
    BY <1>6, <1>9, <2>1, SubSeqProperties
  <2>3. \A i \in 1 .. K : i \in 1 .. K - 1 + 1 /\ 1 + i - 1 = i
    BY <1>9
  <2> HIDE DEF ls
  <2>4. DOMAIN ls = 1 .. K /\ ls # <<>>
    BY <1>9, <2>2, LenProperties, EmptySeq
  <2>5. QED
    BY <2>2, <2>3, <2>4
<1>12. /\ ins \in Seq(Constructs) /\ Len(ins) = Len(Here.inside) - 1
       /\ \A i \in 1 .. Len(ins) : ins[i] = Block
       /\ ins # <<>> => Last(ins) = Block
  BY <1>4, <1>5, InsideFront
<1>13. /\ y \in Compilers /\ y.inside = ins /\ y.depth = d - 1
       /\ y.locals = ls /\ y.upvals = Here.upvals
  <2> HIDE DEF ins, ls
  <2>1. y = [Here EXCEPT !.depth = d - 1, !.inside = ins, !.locals = ls]
    BY DEF EndScope, K, ins, ls, d
  <2>2. Here \in Compilers
    BY <1>1 DEF HereFacts
  <2> HIDE DEF y
  <2>3. QED
    BY <1>5, <1>11, <1>12, <2>1, <2>2 DEF Compilers
<1> HIDE DEF ins, ls, y
<1>14. ~InSubclass(y) /\ ~InClass(y)
  BY <1>12, <1>13, ConstructKinds DEF InSubclass, InClass, InBody
<1>15. ASSUME NEW i \in 1 .. K
       PROVE  /\ ls[i].name = "this" <=> (i = 1 /\ method)
              /\ ls[i].name # "super"
              /\ ls[i].captured = ls[i].used
  <2>1. ls[i] = Here.locals[i] /\ i \in DOMAIN Here.locals
    BY <1>6, <1>9, <1>11
  <2>2. /\ Here.locals[i].name = "this" <=> (i = 1 /\ method)
        /\ Here.locals[i].name = "super" <=> (i = n /\ InSubclass(Here))
    BY <1>2, <2>1 DEF ShapeOf, n
  <2>3. ~(i = n /\ InSubclass(Here))
    BY <1>6, <1>9, <1>10
  <2>4. Here.locals[i].captured = Here.locals[i].used
    BY <1>1, <2>1 DEF HereFacts
  <2>5. QED
    BY <2>1, <2>2, <2>3, <2>4
<1>16. ShapeOf(y, method)
  <2>1. \A i \in 1 .. Len(y.inside) - 1 : y.inside[i] = Block
    BY <1>4, <1>12, <1>13
  <2>2. Len(y.inside) - (IF InClass(y) THEN 1 ELSE 0) <= y.depth
    BY <1>4, <1>5, <1>12, <1>13, <1>14
  <2>3. ls[1].depth = 0
    BY <1>6, <1>9, <1>11
  <2>4. QED
    BY <1>11, <1>13, <1>14, <1>15, <2>1, <2>2, <2>3 DEF ShapeOf
<1>17. Len(ls) <= LocalMax
  BY <1>6, <1>9, <1>11, Limits
<1>18. QED
  BY <1>9, <1>11, <1>13, <1>15, <1>16, <1>17 DEF Replaces, method, y, K, n

(* Leaving the body of a class that has no superclass.                     *)
LEMMA EndClassReplaces ==
  ASSUME Sound(chain), InClass(Here)
  PROVE  Replaces([Here EXCEPT !.inside = Front(@)])
<1> DEFINE ins == Front(Here.inside)
           method == Current > 1 /\ InBody(chain[Current - 1])
           y == [Here EXCEPT !.inside = ins]
<1>1. HereFacts
  BY HereProperties
<1>2. ShapeOf(Here, method)
  BY <1>1 DEF HereFacts
<1> HIDE DEF method
<1>3. Here.inside # <<>> /\ ~InSubclass(Here)
  BY DEF InClass, InBody, InSubclass
<1>4. Len(Here.inside) \in Nat \ {0} /\ Here.inside \in Seq(Constructs)
  BY <1>1, <1>3, EmptySeq DEF HereFacts
<1>5. /\ Len(Here.inside) - 1 <= Here.depth
      /\ \A i \in 1 .. Len(Here.inside) - 1 : Here.inside[i] = Block
  BY <1>2, <1>4 DEF ShapeOf
<1>6. /\ ins \in Seq(Constructs) /\ Len(ins) = Len(Here.inside) - 1
      /\ \A i \in 1 .. Len(ins) : ins[i] = Block
      /\ ins # <<>> => Last(ins) = Block
  BY <1>3, <1>4, <1>5, InsideFront
<1> HIDE DEF ins
<1>7. /\ y \in Compilers /\ y.inside = ins /\ y.depth = Here.depth
      /\ y.locals = Here.locals /\ y.upvals = Here.upvals
  BY <1>1, <1>6 DEF HereFacts, Compilers
<1> HIDE DEF y
<1>8. ~InSubclass(y) /\ ~InClass(y)
  BY <1>6, <1>7, ConstructKinds DEF InSubclass, InClass, InBody
<1>9. ShapeOf(y, method)
  <2>1. \A i \in 1 .. Len(y.inside) - 1 : y.inside[i] = Block
    BY <1>4, <1>6, <1>7
  <2>2. Len(y.inside) - (IF InClass(y) THEN 1 ELSE 0) <= y.depth
    BY <1>4, <1>5, <1>6, <1>7, <1>8
  <2>3. QED
    BY <1>2, <1>3, <1>7, <1>8, <2>1, <2>2 DEF ShapeOf
<1>10. QED
  BY <1>1, <1>7, <1>9 DEF Replaces, HereFacts, method, y, ins

LEMMA Bounds ==
  /\ LocalMax \in Nat /\ LocalMax >= 2 /\ DepthMax \in Nat /\ DepthMax >= 2
  /\ FunctionMax \in Nat /\ FunctionMax >= 1 /\ UpvalMax \in Nat
<1>1. LocalMax \in Nat /\ DepthMax \in Nat /\ FunctionMax \in Nat /\ UpvalMax \in Nat
  BY Limits
<1>2. FunctionMax # 0
  BY ResolutionAssumption
<1>3. LocalMax >= 2 /\ DepthMax >= 2
  BY ResolutionAssumption
<1>4. QED
  BY <1>1, <1>2, <1>3

LEMMA LocalMade ==
  ASSUME NEW name \in Name \cup {"this", "super", ""}, NEW depth \in 0 .. DepthMax
  PROVE  /\ Local(name, depth) \in Locals
         /\ Local(name, depth).name = name /\ Local(name, depth).depth = depth
         /\ Local(name, depth).captured = Local(name, depth).used
BY DEF Local, Locals

(* A function that begins, with `this' in slot 0 if it is a method.        *)
LEMMA BeginFunctionSound ==
  ASSUME Sound(chain), NEW params \in {<<>>} \cup {<<n>> : n \in Name},
         BeginFunction(params)
  PROVE  Sound(chain')
<1> DEFINE slot0 == IF InClassBody THEN "this" ELSE ""
           l == Local(slot0, 0)
           ps == [i \in DOMAIN params |-> Local(params[i], 1)]
           ls == <<l>> \o ps
           x == [locals |-> ls, upvals |-> <<>>, depth |-> 2, inside |-> <<>>]
<1>0. \A n \in Name : n # "this" /\ n # "super" /\ n # ""
  BY ResolutionAssumption
<1>1. chain' = Append(chain, x) /\ Current < FunctionMax
  BY DEF BeginFunction
<1>2. /\ l \in Locals /\ l.name = slot0 /\ l.depth = 0 /\ l.captured = l.used
  <2>1. 0 \in 0 .. DepthMax
    BY Bounds
  <2>2. slot0 \in Name \cup {"this", "super", ""}
    OBVIOUS
  <2> HIDE DEF slot0
  <2>3. QED
    BY <2>1, <2>2, LocalMade
<1>3. PICK m \in {0, 1} : /\ ps \in Seq(Locals) /\ Len(ps) = m
                         /\ \A i \in 1 .. m : ps[i].name \in Name /\ ps[i].captured = ps[i].used
  <2>1. CASE params = <<>>
    <3>1. ps = <<>>
      BY <2>1
    <3>2. QED
      BY <3>1
  <2>2. CASE \E n \in Name : params = <<n>>
    <3>1. PICK n \in Name : params = <<n>>
      BY <2>2
    <3>2. ps = <<Local(n, 1)>>
      BY <3>1
    <3>3. /\ Local(n, 1) \in Locals /\ Local(n, 1).name = n
          /\ Local(n, 1).captured = Local(n, 1).used
      <4>1. 1 \in 0 .. DepthMax
        BY Bounds
      <4>2. QED
        BY <4>1, LocalMade
    <3>4. QED
      BY <3>2, <3>3
  <2>3. QED
    BY <2>1, <2>2
<1> HIDE DEF l, ps
<1>4. /\ ls \in Seq(Locals) /\ Len(ls) = m + 1 /\ DOMAIN ls = 1 .. m + 1 /\ ls # <<>>
      /\ ls[1] = l /\ \A i \in 1 .. m : ls[i + 1] = ps[i]
  <2>0. l \in Locals
    BY <1>2
  <2>1. <<l>> \in Seq(Locals) /\ Len(<<l>>) = 1 /\ <<l>>[1] = l
    BY <2>0
  <2>2. /\ ls \in Seq(Locals) /\ Len(ls) = 1 + m
        /\ \A i \in 1 .. 1 + m : ls[i] = IF i <= 1 THEN <<l>>[i] ELSE ps[i - 1]
    BY <1>3, <2>1, ConcatProperties
  <2> HIDE DEF ls
  <2>3. DOMAIN ls = 1 .. m + 1 /\ ls # <<>>
    BY <2>2, LenProperties, EmptySeq
  <2>4. ls[1] = l
    BY <2>1, <2>2
  <2>5. \A i \in 1 .. m : ls[i + 1] = ps[i]
    <3> SUFFICES ASSUME NEW i \in 1 .. m PROVE ls[i + 1] = ps[i]
      OBVIOUS
    <3>1. i + 1 \in 1 .. 1 + m /\ ~(i + 1 <= 1) /\ (i + 1) - 1 = i
      OBVIOUS
    <3>2. QED
      BY <2>2, <3>1
  <2>6. QED
    BY <2>2, <2>3, <2>4, <2>5
<1> HIDE DEF ls
<1>5. /\ x \in Compilers /\ x.locals = ls /\ x.upvals = <<>> /\ x.depth = 2 /\ x.inside = <<>>
  <2>1. 2 \in 0 .. DepthMax
    BY Bounds
  <2>2. <<>> \in Seq(Descriptors) /\ <<>> \in Seq(Constructs)
    OBVIOUS
  <2>3. QED
    BY <1>4, <2>1, <2>2 DEF Compilers
<1> HIDE DEF x
<1>6. \A i \in 1 .. m + 1 : i = 1 \/ \E j \in 1 .. m : i = j + 1
  <2> SUFFICES ASSUME NEW i \in 1 .. m + 1, i # 1 PROVE \E j \in 1 .. m : i = j + 1
    OBVIOUS
  <2>1. i - 1 \in 1 .. m /\ i = (i - 1) + 1
    BY <1>3
  <2>2. QED
    BY <2>1
<1> DEFINE method == InClassBody
<1>7. slot0 = "this" <=> method
  OBVIOUS
<1>8. slot0 # "super"
  OBVIOUS
<1> HIDE DEF method, slot0
<1>9. \A i \in DOMAIN ls : /\ ls[i].name = "this" <=> (i = 1 /\ method)
                           /\ ls[i].name # "super" /\ ls[i].captured = ls[i].used
  <2> SUFFICES ASSUME NEW i \in 1 .. m + 1
      PROVE /\ ls[i].name = "this" <=> (i = 1 /\ method)
            /\ ls[i].name # "super" /\ ls[i].captured = ls[i].used
    BY <1>4
  <2>1. CASE i = 1
    BY <1>2, <1>4, <1>7, <1>8, <2>1
  <2>2. ASSUME NEW j \in 1 .. m, i = j + 1
        PROVE /\ ls[i].name = "this" <=> (i = 1 /\ method)
              /\ ls[i].name # "super" /\ ls[i].captured = ls[i].used
    <3>1. ls[i] = ps[j] /\ i # 1
      BY <1>3, <1>4, <2>2
    <3>2. QED
      BY <1>0, <1>3, <3>1
  <2>3. QED
    BY <1>6, <2>1, <2>2
<1>10. ~InSubclass(x) /\ ~InClass(x)
  BY <1>5 DEF InSubclass, InClass, InBody
<1>11. ShapeOf(x, method)
  <2>1. \A i \in 1 .. Len(x.inside) - 1 : x.inside[i] = Block
    BY <1>5, EmptySeq
  <2>2. Len(x.inside) - (IF InClass(x) THEN 1 ELSE 0) <= x.depth
    BY <1>5, <1>10, EmptySeq
  <2>3. QED
    BY <1>2, <1>4, <1>5, <1>9, <1>10, <2>1, <2>2 DEF ShapeOf
<1>12. Len(ls) <= LocalMax
  BY <1>3, <1>4, Bounds
<1>13. method = InClassBody
  BY DEF method
<1>14. QED
  BY <1>1, <1>4, <1>5, <1>9, <1>11, <1>12, <1>13, Beginning

LEMMA ScriptShape ==
  ASSUME NEW x, NEW l \in Locals, x.depth = 0, Len(x.inside) = 0,
         x.locals \in Seq(Locals), Len(x.locals) = 1, x.locals[1] = l,
         l.name # "this", l.name # "super", l.depth = 0,
         ~InSubclass(x), ~InClass(x), NEW method \in BOOLEAN, ~method
  PROVE  ShapeOf(x, method)
<1>1. DOMAIN x.locals = {1}
  BY LenProperties
<1>2. \A i \in 1 .. Len(x.inside) - 1 : x.inside[i] = Block
  OBVIOUS
<1>3. Len(x.inside) - (IF InClass(x) THEN 1 ELSE 0) <= x.depth
  OBVIOUS
<1>4. \A i \in DOMAIN x.locals :
        /\ x.locals[i].name = "this" <=> (i = 1 /\ method)
        /\ x.locals[i].name = "super" <=> (i = Len(x.locals) /\ InSubclass(x))
  BY <1>1
<1>5. x.locals[1].depth = 0
  OBVIOUS
<1>6. QED
  BY <1>2, <1>3, <1>4, <1>5 DEF ShapeOf

LEMMA InitSound == ASSUME Init PROVE Sound(chain)
<1> DEFINE l == Local("", 0)
           x == [locals |-> <<l>>, upvals |-> <<>>, depth |-> 0, inside |-> <<>>]
<1>1. chain = <<x>>
  BY DEF Init
<1>2. l \in Locals /\ l.name # "this" /\ l.name # "super" /\ l.depth = 0 /\ l.captured = l.used
  <2>1. 0 \in 0 .. DepthMax
    BY Bounds
  <2>2. l \in Locals /\ l.name = "" /\ l.depth = 0 /\ l.captured = l.used
    BY <2>1, LocalMade
  <2> HIDE DEF l
  <2>3. l.name # "this" /\ l.name # "super"
    BY <2>2, Zenon
  <2>4. QED
    BY <2>2, <2>3
<1> HIDE DEF l
<1>3. /\ x.locals = <<l>> /\ x.upvals = <<>> /\ x.depth = 0 /\ x.inside = <<>>
      /\ x \in Compilers
  <2>0. l \in Locals
    BY <1>2
  <2>1. <<l>> \in Seq(Locals) /\ <<>> \in Seq(Descriptors) /\ <<>> \in Seq(Constructs)
    BY <2>0
  <2>2. 0 \in 0 .. DepthMax
    BY Limits
  <2>3. QED
    BY <2>1, <2>2 DEF Compilers
<1> HIDE DEF x
<1>4. chain \in Seq(Compilers) /\ Len(chain) = 1 /\ DOMAIN chain = {1} /\ chain[1] = x
  BY <1>1, <1>3
<1>5. Typed(chain)
  <2>1. Len(<<l>>) = 1 /\ <<l>> # <<>> /\ Len(<<>>) = 0
    OBVIOUS
  <2>2. x.locals # <<>> /\ Len(x.locals) <= LocalMax /\ Len(x.upvals) <= UpvalMax
    BY <1>3, <2>1, Bounds
  <2>3. chain # <<>> /\ Len(chain) <= FunctionMax
    BY <1>1, <1>4, Bounds
  <2>4. QED
    BY <1>4, <2>2, <2>3 DEF Typed
<1>6. ~InSubclass(x) /\ ~InClass(x)
  BY <1>3 DEF InSubclass, InClass, InBody
<1> DEFINE method == FALSE
<1>7. ShapeOf(x, method)
  <2>1. /\ l \in Locals /\ x.locals \in Seq(Locals) /\ Len(x.locals) = 1 /\ x.locals[1] = l
        /\ Len(x.inside) = 0 /\ x.depth = 0 /\ l.name # "this" /\ l.name # "super" /\ l.depth = 0
    BY <1>2, <1>3
  <2> HIDE DEF method
  <2>2. ~method /\ method \in BOOLEAN
    BY DEF method
  <2>3. QED
    BY <1>6, <2>1, <2>2, ScriptShape
<1>8. ShapedAt(chain, 1)
  <2>1. (1 > 1 /\ InBody(chain[1 - 1])) = method
    OBVIOUS
  <2> HIDE DEF method
  <2>2. QED
    BY <1>4, <1>7, <2>1, ShapeGives
<1>9. /\ DOMAIN chain[1].upvals = {} /\ DOMAIN chain[1].locals = {1}
      /\ chain[1].locals[1] = l
  BY <1>3, <1>4
<1>10. Shaped(chain) /\ Denoting(chain) /\ Once(chain) /\ Marked(chain)
  BY <1>2, <1>4, <1>8, <1>9 DEF Shaped, Denoting, Once, Marked, MarkedAt
<1>11. QED
  BY <1>5, <1>10 DEF Sound

-------------------------------------------------------------------------------
(* What the names mean, in a chain of Compilers c.                         *)

BodiesOf(c) == {k \in DOMAIN c : InBody(c[k])}

MeaningIn(c, name) ==
  CASE name = "this"  -> [function |-> Highest(BodiesOf(c)) + 1, local |-> 1]
    [] name = "super" -> [function |-> Highest(BodiesOf(c)),
                          local |-> Len(c[Highest(BodiesOf(c))].locals)]
    [] OTHER          -> Lexical(c, name)

ReadsIn(c, inst) ==
  CASE inst.op = "GET_LOCAL" -> MeaningIn(c, inst.name) = [function |-> Len(c), local |-> inst.arg]
    [] inst.op = "GET_UPVAL" -> /\ inst.arg \in DOMAIN c[Len(c)].upvals
                                /\ c[Len(c)].upvals[inst.arg].of = MeaningIn(c, inst.name)
    [] inst.op = "GET_GLOBAL" -> Owners(c, inst.name) = {} /\ inst.name \in Name
    [] OTHER -> TRUE

LEMMA AllReadIn ==
  ASSUME ~failed' => \A i \in DOMAIN emitted' : ReadsIn(chain', emitted'[i])
  PROVE  AllRead'
BY DEF AllRead, Reads, Meaning, Bodies, Current, Here, ReadsIn, MeaningIn, BodiesOf

LEMMA HighestIs ==
  ASSUME NEW S \in SUBSET Nat, NEW x \in S, \A j \in S : j <= x
  PROVE  Highest(S) = x
<1>1. Highest(S) \in S /\ \A j \in S : j <= Highest(S)
  BY DEF Highest
<1>2. x <= Highest(S) /\ Highest(S) <= x
  BY <1>1
<1>3. x \in Nat /\ Highest(S) \in Nat
  BY <1>1
<1> DEFINE h == Highest(S)
<1> HIDE DEF h
<1>4. x <= h /\ h <= x /\ h \in Nat
  BY <1>2, <1>3 DEF h
<1>5. h = x
  BY <1>3, <1>4
<1>6. QED
  BY <1>5 DEF h

LEMMA BodiesHighest ==
  ASSUME NEW c, Typed(c), BodiesOf(c) # {}
  PROVE  /\ Highest(BodiesOf(c)) \in BodiesOf(c) /\ Highest(BodiesOf(c)) \in DOMAIN c
         /\ \A k \in BodiesOf(c) : k <= Highest(BodiesOf(c))
<1>1. Len(c) \in Nat /\ DOMAIN c = 1 .. Len(c)
  BY LenProperties DEF Typed
<1>2. BodiesOf(c) \in SUBSET (0 .. Len(c))
  BY <1>1 DEF BodiesOf
<1>3. Highest(BodiesOf(c)) \in BodiesOf(c) /\ \A k \in BodiesOf(c) : k <= Highest(BodiesOf(c))
  BY <1>1, <1>2, HighestProperty
<1>4. QED
  BY <1>3 DEF BodiesOf

(* `this': slot 0 of the functions directly in classes has the name.       *)
LEMMA ThisMeans ==
  ASSUME NEW c, Sound(c), BodiesOf(c) # {}, Len(c) \notin BodiesOf(c)
  PROVE  Owners(c, "this") # {} /\ Lexical(c, "this") = MeaningIn(c, "this")
<1> DEFINE B == BodiesOf(c)
           b == Highest(B)
<1>1. Typed(c) /\ Shaped(c) /\ Len(c) \in Nat /\ DOMAIN c = 1 .. Len(c)
  BY LenProperties DEF Sound, Typed
<1>2. /\ b \in B /\ b \in DOMAIN c /\ \A k \in B : k <= b
  BY <1>1, BodiesHighest
<1>3. \A k \in DOMAIN c : k \in B <=> InBody(c[k])
  BY DEF BodiesOf
<1>4. b # Len(c)
  BY <1>2
<1> HIDE DEF B, b
<1>5. \A k \in DOMAIN c : Matches(c, k, "this") # {} => k > 1 /\ k - 1 \in B
  <2> SUFFICES ASSUME NEW k \in DOMAIN c, NEW i \in Matches(c, k, "this")
               PROVE  k > 1 /\ k - 1 \in B
    OBVIOUS
  <2>1. i \in DOMAIN c[k].locals /\ c[k].locals[i].name = "this"
    BY DEF Matches
  <2>2. k > 1 /\ InBody(c[k - 1])
    BY <1>1, <2>1 DEF Shaped, ShapedAt, ShapeOf
  <2>3. QED
    BY <1>1, <1>3, <2>2
<1>6. b + 1 \in DOMAIN c /\ Matches(c, b + 1, "this") = {1}
  <2> DEFINE m == b + 1
  <2>1. m \in DOMAIN c /\ m > 1 /\ m - 1 = b
    BY <1>1, <1>2, <1>4
  <2> HIDE DEF m
  <2>2. InBody(c[m - 1])
    BY <1>2, <1>3, <2>1
  <2> DEFINE method == m > 1 /\ InBody(c[m - 1])
  <2>3. ShapeOf(c[m], method) /\ method
    BY <1>1, <2>1, <2>2 DEF Shaped, ShapedAt
  <2> HIDE DEF method
  <2>4. \A i \in DOMAIN c[m].locals : c[m].locals[i].name = "this" <=> i = 1
    BY <2>3 DEF ShapeOf
  <2>5. 1 \in DOMAIN c[m].locals
    BY <1>1, <2>1, TypedAt
  <2>6. Matches(c, m, "this") = {1}
    BY <2>4, <2>5 DEF Matches
  <2>7. QED
    BY <2>1, <2>6 DEF m
<1>7. Highest(Owners(c, "this")) = b + 1 /\ Owners(c, "this") # {}
  <2>1. b + 1 \in Owners(c, "this")
    BY <1>6 DEF Owners
  <2>2. \A k \in Owners(c, "this") : k <= b + 1
    BY <1>1, <1>2, <1>5 DEF Owners
  <2>3. Owners(c, "this") \in SUBSET Nat
    BY <1>1 DEF Owners
  <2>4. QED
    BY <2>1, <2>2, <2>3, HighestIs
<1>8. Highest({1}) = 1
  BY HighestIs
<1>9. Lexical(c, "this") = [function |-> b + 1, local |-> 1]
  BY <1>6, <1>7, <1>8 DEF Lexical
<1>10. MeaningIn(c, "this") = [function |-> b + 1, local |-> 1]
  BY DEF MeaningIn, b, B
<1>11. QED
  BY <1>7, <1>9, <1>10

(* `super': the last local of a function that is in the body of a class    *)
(* with a superclass.                                                      *)
LEMMA SuperMeans ==
  ASSUME NEW c, Sound(c), BodiesOf(c) # {}, Last(c[Highest(BodiesOf(c))].inside).super
  PROVE  Owners(c, "super") # {} /\ Lexical(c, "super") = MeaningIn(c, "super")
<1> DEFINE B == BodiesOf(c)
           b == Highest(B)
           n == Len(c[b].locals)
<1>1. Typed(c) /\ Shaped(c) /\ Len(c) \in Nat /\ DOMAIN c = 1 .. Len(c)
  BY LenProperties DEF Sound, Typed
<1>2. /\ b \in B /\ b \in DOMAIN c /\ \A k \in B : k <= b
  BY <1>1, BodiesHighest
<1>3. \A k \in DOMAIN c : k \in B <=> InBody(c[k])
  BY DEF BodiesOf
<1>4. InSubclass(c[b])
  BY <1>2, <1>3 DEF InSubclass
<1>5. n \in DOMAIN c[b].locals
  BY <1>1, <1>2, TypedAt
<1> HIDE DEF B, b, n
<1>6. \A k \in DOMAIN c : Matches(c, k, "super") # {} => k \in B
  <2> SUFFICES ASSUME NEW k \in DOMAIN c, NEW i \in Matches(c, k, "super")
               PROVE  k \in B
    OBVIOUS
  <2>1. i \in DOMAIN c[k].locals /\ c[k].locals[i].name = "super"
    BY DEF Matches
  <2>2. InSubclass(c[k])
    BY <1>1, <2>1 DEF Shaped, ShapedAt, ShapeOf
  <2>3. QED
    BY <1>3, <2>2 DEF InSubclass
<1>7. Matches(c, b, "super") = {n}
  <2>1. \A i \in DOMAIN c[b].locals : c[b].locals[i].name = "super" <=> i = n
    BY <1>1, <1>2, <1>4 DEF Shaped, ShapedAt, ShapeOf, n
  <2>2. QED
    BY <1>5, <2>1 DEF Matches
<1>8. Highest(Owners(c, "super")) = b /\ Owners(c, "super") # {}
  <2>1. b \in Owners(c, "super")
    BY <1>2, <1>7 DEF Owners
  <2>2. \A k \in Owners(c, "super") : k <= b
    BY <1>1, <1>2, <1>6 DEF Owners
  <2>3. Owners(c, "super") \in SUBSET Nat
    BY <1>1 DEF Owners
  <2>4. QED
    BY <2>1, <2>2, <2>3, HighestIs
<1>9. Highest({n}) = n
  <2>1. n \in Nat
    BY <1>1, <1>2, TypedAt DEF n
  <2>2. QED
    BY <2>1, HighestIs
<1>10. Lexical(c, "super") = [function |-> b, local |-> n]
  BY <1>7, <1>8, <1>9 DEF Lexical
<1>11. MeaningIn(c, "super") = [function |-> b, local |-> n]
  BY DEF MeaningIn, b, B, n
<1>12. QED
  BY <1>8, <1>10, <1>11

LEMMA NameMeans ==
  ASSUME NEW c, NEW name \in Name
  PROVE  MeaningIn(c, name) = Lexical(c, name)
<1>1. name # "this" /\ name # "super"
  BY ResolutionAssumption
<1>2. QED
  BY <1>1 DEF MeaningIn

(* A capture changes no meaning.                                           *)
LEMMA MeaningKept ==
  ASSUME NEW c, NEW d, Typed(c), SameNames(c, d), NEW name, Owners(c, name) # {},
         name \in {"this", "super"} => BodiesOf(c) # {},
         Lexical(c, name) = MeaningIn(c, name)
  PROVE  MeaningIn(d, name) = Lexical(c, name)
<1>1. BodiesOf(d) = BodiesOf(c)
  BY DEF SameNames, BodiesOf, InBody
<1>2. CASE name \in {"this", "super"}
  <2>1. Highest(BodiesOf(c)) \in DOMAIN c
    BY <1>2, BodiesHighest
  <2>2. Len(d[Highest(BodiesOf(c))].locals) = Len(c[Highest(BodiesOf(c))].locals)
    BY <2>1 DEF SameNames
  <2>3. QED
    BY <1>1, <1>2, <2>2 DEF MeaningIn
<1>3. CASE name \notin {"this", "super"}
  <2>1. Lexical(d, name) = Lexical(c, name)
    BY SameMeaning
  <2>2. QED
    BY <1>3, <2>1 DEF MeaningIn
<1>4. QED
  BY <1>2, <1>3

(* What a variable that is read in c leaves behind.                        *)
LEMMA ReadingRight ==
  ASSUME NEW c, Sound(c), Len(c) = Current, NEW name \in Name \cup {"this", "super"},
         Reading(c, name), SameNames(c, chain'), Len(chain') = Current,
         name \in {"this", "super"} =>
           BodiesOf(c) # {} /\ Owners(c, name) # {} /\ Lexical(c, name) = MeaningIn(c, name)
  PROVE  /\ emitted' \in Seq(Instructions)
         /\ \A i \in DOMAIN emitted' : ReadsIn(chain', emitted'[i])
<1>1. Typed(c)
  BY DEF Sound
<1>2. Owners(c, name) # {} => MeaningIn(chain', name) = Lexical(c, name)
  BY <1>1, NameMeans, MeaningKept
<1>3. PICK op \in {"GET_LOCAL", "GET_UPVAL", "GET_GLOBAL"}, a \in Nat :
        /\ emitted' = Inst(op, a, name)
        /\ op = "GET_LOCAL" => /\ Owners(c, name) # {}
                               /\ Lexical(c, name) = [function |-> Current, local |-> a]
        /\ op = "GET_UPVAL" => /\ Owners(c, name) # {} /\ a \in DOMAIN chain'[Current].upvals
                               /\ chain'[Current].upvals[a].of = Lexical(c, name)
        /\ op = "GET_GLOBAL" => Owners(c, name) = {}
  BY DEF Reading
<1> DEFINE inst == [op |-> op, arg |-> a, name |-> name]
<1>4. inst \in Instructions
  BY DEF Instructions
<1>5. emitted' = <<inst>>
  BY <1>3 DEF Inst
<1>6. inst.op = op /\ inst.arg = a /\ inst.name = name
  OBVIOUS
<1>7. ReadsIn(chain', inst)
  <2> HIDE DEF inst
  <2>1. CASE op = "GET_LOCAL"
    BY <1>2, <1>3, <1>6, <2>1 DEF ReadsIn
  <2>2. CASE op = "GET_UPVAL"
    BY <1>2, <1>3, <1>6, <2>2 DEF ReadsIn
  <2>3. CASE op = "GET_GLOBAL"
    <3>1. Owners(chain', name) = {}
      BY <1>3, <2>3, SameMeaning
    <3>2. name \in Name
      BY <1>3, <2>3
    <3>3. QED
      BY <1>6, <2>3, <3>1, <3>2 DEF ReadsIn
  <2>4. QED
    BY <2>1, <2>2, <2>3
<1> HIDE DEF inst
<1>8. QED
  BY <1>4, <1>5, <1>7

-------------------------------------------------------------------------------
(* The steps.                                                              *)

(* What a step keeps, and what it says of the instructions it emits.       *)
Right ==
  /\ Sound(chain') /\ failed' \in BOOLEAN /\ emitted' \in Seq(Instructions)
  /\ ~failed' => \A i \in DOMAIN emitted' : ReadsIn(chain', emitted'[i])

LEMMA FailRight ==
  ASSUME Sound(chain), emitted \in Seq(Instructions), Fail
  PROVE  Right
BY DEF Fail, Right

(* A step that emits no instruction for a name.                            *)
LEMMA QuietRight ==
  ASSUME Sound(chain'), failed' = FALSE, emitted' \in Seq(Instructions),
         \A i \in DOMAIN emitted' : emitted'[i].op \in {"POP", "CLOSE_UPVAL", "CLOSURE"}
  PROVE  Right
<1>1. \A i \in DOMAIN emitted' : ReadsIn(chain', emitted'[i])
  BY DEF ReadsIn
<1>2. QED
  BY <1>1 DEF Right

LEMMA NothingEmitted ==
  ASSUME Sound(chain'), failed' = FALSE, emitted' = <<>>
  PROVE  Right
<1>1. emitted' \in Seq(Instructions) /\ DOMAIN emitted' = {}
  OBVIOUS
<1>2. QED
  BY <1>1, QuietRight

LEMMA BecomeRight ==
  ASSUME Sound(chain), NEW x, Replaces(x), Become(x)
  PROVE  Sound(chain')
BY Replacing DEF Become

(* A name that is read, in the chain c.                                    *)
LEMMA VariableRight ==
  ASSUME Sound(chain), failed = FALSE, emitted \in Seq(Instructions),
         NEW c, Sound(c), Len(c) = Current, NEW name \in Name \cup {"this", "super"},
         Variable(c, name),
         name \in {"this", "super"} =>
           BodiesOf(c) # {} /\ Owners(c, name) # {} /\ Lexical(c, name) = MeaningIn(c, name)
  PROVE  Right
<1>1. /\ Sound(chain') /\ failed' \in BOOLEAN
      /\ failed' => UNCHANGED <<chain, emitted>>
      /\ ~failed' => SameNames(c, chain') /\ Reading(c, name)
  BY VariableSound
<1>2. CASE failed'
  BY <1>1, <1>2 DEF Right
<1>3. CASE ~failed'
  <2>1. Len(chain') = Current
    <3>1. Typed(c) /\ Typed(chain')
      BY <1>1 DEF Sound
    <3>2. /\ Len(c) \in Nat /\ DOMAIN c = 1 .. Len(c)
          /\ Len(chain') \in Nat /\ DOMAIN chain' = 1 .. Len(chain')
      BY <3>1, LenProperties DEF Typed
    <3>3. DOMAIN chain' = DOMAIN c
      BY <1>1, <1>3 DEF SameNames
    <3>4. QED
      BY <3>2, <3>3
  <2>2. QED
    BY <1>1, <1>3, <2>1, ReadingRight DEF Right
<1>4. QED
  BY <1>2, <1>3

(* The instructions for the end of a scope.                                *)
LEMMA ReleasedRight ==
  ASSUME HereFacts, Kept(Here) \in 1 .. Len(Here.locals)
  PROVE  /\ Released(Here) \in Seq(Instructions)
         /\ \A i \in DOMAIN Released(Here) : Released(Here)[i].op \in {"POP", "CLOSE_UPVAL"}
<1> DEFINE n == Len(Here.locals)
           m == n - Kept(Here)
           r(i) == [op |-> IF Here.locals[n + 1 - i].captured THEN "CLOSE_UPVAL" ELSE "POP"]
<1>1. Released(Here) = [i \in 1 .. m |-> r(i)]
  BY DEF Released
<1>2. m \in Nat
  BY DEF HereFacts
<1>3. \A i \in 1 .. m : r(i) \in Instructions /\ r(i).op \in {"POP", "CLOSE_UPVAL"}
  BY DEF Instructions
<1> HIDE DEF m, r
<1>4. Released(Here) \in [1 .. m -> Instructions]
  BY <1>1, <1>3
<1>5. Released(Here) \in Seq(Instructions)
  BY <1>2, <1>4, FunctionIsSeq
<1>6. \A i \in DOMAIN Released(Here) : Released(Here)[i].op \in {"POP", "CLOSE_UPVAL"}
  BY <1>1, <1>3
<1>7. QED
  BY <1>5, <1>6

LEMMA DeclareRight ==
  ASSUME Sound(chain), emitted \in Seq(Instructions), failed \in BOOLEAN,
         NEW name \in Name, Declare(name)
  PROVE  Right
<1>1. CASE Redeclared(name)
  BY <1>1, FailRight DEF Declare
<1>2. CASE ~Redeclared(name)
  <2>1. /\ failed' = FALSE /\ ~InClassBody /\ HasRoom(1)
        /\ Become(Declaring(name)) /\ emitted' = <<>>
    BY <1>2 DEF Declare
  <2>2. Sound(chain')
    BY <2>1, DeclaringExtended, ExtendedReplaces, BecomeRight
  <2>3. QED
    BY <2>1, <2>2, NothingEmitted
<1>3. QED
  BY <1>1, <1>2

LEMMA BlockRight ==
  ASSUME Sound(chain), failed \in BOOLEAN, BeginBlock
  PROVE  Right
<1>1. HereFacts
  BY HereProperties
<1>2. /\ failed' = FALSE /\ ~InClassBody /\ Here.depth < DepthMax /\ emitted' = <<>>
      /\ Become([Here EXCEPT !.depth = @ + 1, !.inside = Append(@, Block)])
  BY DEF BeginBlock
<1> DEFINE n == Here.depth + 1
           y == [Here EXCEPT !.depth = n, !.inside = Append(Here.inside, Block)]
<1>3. n \in 0 .. DepthMax
  <2>1. Here.depth \in 0 .. DepthMax
    BY <1>1 DEF HereFacts
  <2>2. QED
    BY <1>2, <2>1, Bounds
<1>4. Become(y)
  BY <1>2
<1>5. n = Here.depth + (IF Block = Block THEN 1 ELSE 0)
  OBVIOUS
<1>6. Extended(Here)
  BY <1>1, HereExtended
<1> HIDE DEF n
<1>7. Replaces(y)
  BY <1>2, <1>3, <1>5, <1>6, PushReplaces
<1>8. QED
  BY <1>2, <1>4, <1>7, BecomeRight, NothingEmitted

LEMMA EndBlockRight ==
  ASSUME Sound(chain), failed \in BOOLEAN, EndBlock
  PROVE  Right
<1>1. /\ failed' = FALSE /\ Here.inside # <<>> /\ Last(Here.inside) = Block
      /\ Become(EndScope(Here)) /\ emitted' = Released(Here)
  BY DEF EndBlock
<1>2. Replaces(EndScope(Here)) /\ Kept(Here) \in 1 .. Len(Here.locals)
  BY <1>1, EndScopeReplaces
<1>3. QED
  BY <1>1, <1>2, BecomeRight, HereProperties, ReleasedRight, QuietRight

LEMMA ClassRight ==
  ASSUME Sound(chain), emitted \in Seq(Instructions), failed \in BOOLEAN,
         NEW name \in Name, BeginClass(name)
  PROVE  Right
<1>1. CASE Redeclared(name)
  BY <1>1, FailRight DEF BeginClass
<1>2. CASE ~Redeclared(name)
  <2> DEFINE x == Declaring(name)
             e == ClassBody(FALSE)
             n == x.depth
             y == [x EXCEPT !.depth = n, !.inside = Append(x.inside, e)]
  <2>1. /\ failed' = FALSE /\ ~InClassBody /\ HasRoom(1) /\ emitted' = <<>>
        /\ Become([x EXCEPT !.inside = Append(@, e)])
    BY <1>2 DEF BeginClass
  <2>2. Extended(x)
    BY <2>1, DeclaringExtended
  <2>3. x \in Compilers
    BY <2>2 DEF Extended
  <2> HIDE DEF x
  <2>4. y = [x EXCEPT !.inside = Append(@, e)] /\ n \in 0 .. DepthMax
    BY <2>3 DEF Compilers
  <2>5. e # Block /\ e \in {Block, ClassBody(FALSE)}
    BY ConstructKinds
  <2> HIDE DEF e
  <2>6. n = x.depth + (IF e = Block THEN 1 ELSE 0)
    BY <2>4, <2>5
  <2> HIDE DEF n
  <2>7. Replaces(y)
    BY <2>1, <2>2, <2>4, <2>5, <2>6, PushReplaces
  <2>8. QED
    BY <2>1, <2>4, <2>7, BecomeRight, NothingEmitted
<1>3. QED
  BY <1>1, <1>2

LEMMA SubclassRight ==
  ASSUME Sound(chain), emitted \in Seq(Instructions), failed \in BOOLEAN,
         NEW name \in Name, NEW superclass \in Name, BeginSubclass(name, superclass)
  PROVE  Right
<1>1. CASE Redeclared(name)
  BY <1>1, FailRight DEF BeginSubclass
<1>2. CASE ~Redeclared(name)
  <2> DEFINE x == Declaring(name)
             c == [chain EXCEPT ![Current] = Subclass(x)]
  <2>1. /\ failed = FALSE /\ ~InClassBody /\ HasRoom(2) /\ Here.depth < DepthMax
        /\ Variable(c, superclass)
    BY <1>2 DEF BeginSubclass
  <2>2. HereFacts
    BY HereProperties
  <2>3. HasRoom(1)
    BY <2>1, <2>2, Bounds DEF HasRoom, HereFacts
  <2>4. Extended(x)
    BY <2>3, DeclaringExtended
  <2> HIDE DEF x
  <2>5. Len(x.locals) < LocalMax /\ x.depth < DepthMax
    BY <2>1, <2>2, <2>4, Bounds DEF HasRoom, HereFacts, Extended
  <2>6. Replaces(Subclass(x))
    BY <2>1, <2>4, <2>5, SubclassReplaces
  <2>7. Sound(c) /\ Len(c) = Current
    BY <2>6, Replacing
  <2> HIDE DEF c
  <2>8. superclass \notin {"this", "super"}
    BY ResolutionAssumption
  <2>9. QED
    BY <2>1, <2>7, <2>8, VariableRight
<1>3. QED
  BY <1>1, <1>2

LEMMA EndClassRight ==
  ASSUME Sound(chain), failed \in BOOLEAN, EndClass
  PROVE  Right
<1>1. failed' = FALSE /\ InBody(Here) /\ Here.inside # <<>>
  BY DEF EndClass, InClassBody, InBody
<1>2. CASE InSubclass(Here)
  <2>1. Become(EndScope(Here)) /\ emitted' = Released(Here)
    BY <1>2 DEF EndClass, InSubclass
  <2>2. Replaces(EndScope(Here)) /\ Kept(Here) \in 1 .. Len(Here.locals)
    BY <1>1, <1>2, EndScopeReplaces
  <2>3. QED
    BY <1>1, <2>1, <2>2, BecomeRight, HereProperties, ReleasedRight, QuietRight
<1>3. CASE InClass(Here)
  <2>1. Become([Here EXCEPT !.inside = Front(@)]) /\ emitted' = <<>>
    BY <1>3 DEF EndClass, InClass
  <2>2. QED
    BY <1>1, <1>3, <2>1, EndClassReplaces, BecomeRight, NothingEmitted
<1>4. QED
  BY <1>1, <1>2, <1>3 DEF InClass, InSubclass

LEMMA EndFunctionRight ==
  ASSUME Sound(chain), failed \in BOOLEAN, EndFunction
  PROVE  Right
<1> DEFINE inst == [op |-> "CLOSURE", upvals |-> Here.upvals]
<1>1. /\ failed' = FALSE /\ Current > 1 /\ chain' = Front(chain)
      /\ emitted' = <<inst>>
  BY DEF EndFunction
<1>2. Sound(chain')
  BY <1>1, Leaving
<1>3. inst \in Instructions /\ inst.op = "CLOSURE"
  <2>1. Here.upvals \in Seq(Descriptors)
    BY HereProperties DEF HereFacts, Compilers
  <2>2. QED
    BY <2>1 DEF Instructions
<1> HIDE DEF inst
<1>4. /\ emitted' \in Seq(Instructions)
      /\ \A i \in DOMAIN emitted' : emitted'[i].op \in {"POP", "CLOSE_UPVAL", "CLOSURE"}
  BY <1>1, <1>3
<1>5. QED
  BY <1>1, <1>2, <1>4, QuietRight

LEMMA ThisRight ==
  ASSUME Sound(chain), emitted \in Seq(Instructions), failed \in BOOLEAN, UseThis
  PROVE  Right
<1>1. failed = FALSE /\ ~InBody(chain[Len(chain)]) /\ Bodies = BodiesOf(chain)
  BY DEF UseThis, InClassBody, Here, Current, Bodies, BodiesOf
<1>2. CASE Bodies = {}
  BY <1>2, FailRight DEF UseThis
<1>3. CASE Bodies # {}
  <2>1. Variable(chain, "this") /\ Len(chain) = Current
    BY <1>3 DEF UseThis, Current
  <2>2. Owners(chain, "this") # {} /\ Lexical(chain, "this") = MeaningIn(chain, "this")
    BY <1>1, <1>3, ThisMeans DEF BodiesOf
  <2>3. QED
    BY <1>1, <1>3, <2>1, <2>2, VariableRight
<1>4. QED
  BY <1>2, <1>3

LEMMA SuperRight ==
  ASSUME Sound(chain), emitted \in Seq(Instructions), failed \in BOOLEAN, UseSuper
  PROVE  Right
<1>1. failed = FALSE /\ Bodies = BodiesOf(chain)
  BY DEF UseSuper, Bodies, BodiesOf
<1>2. CASE Bodies = {} \/ ~CurClass.super
  BY <1>2, FailRight DEF UseSuper
<1>3. CASE Bodies # {} /\ CurClass.super
  <2>1. Variable(chain, "super") /\ Len(chain) = Current
    BY <1>3 DEF UseSuper, Current
  <2>2. Owners(chain, "super") # {} /\ Lexical(chain, "super") = MeaningIn(chain, "super")
    BY <1>1, <1>3, SuperMeans DEF CurClass
  <2>3. QED
    BY <1>1, <1>3, <2>1, <2>2, VariableRight
<1>4. QED
  BY <1>2, <1>3

LEMMA UseRight ==
  ASSUME Sound(chain), emitted \in Seq(Instructions), failed \in BOOLEAN,
         NEW name \in Name, Use(name)
  PROVE  Right
<1>1. failed = FALSE /\ Variable(chain, name) /\ Len(chain) = Current
  BY DEF Use, Current
<1>2. name \notin {"this", "super"}
  BY ResolutionAssumption
<1>3. QED
  BY <1>1, <1>2, VariableRight

LEMMA FunctionRight ==
  ASSUME Sound(chain), failed \in BOOLEAN,
         NEW params \in {<<>>} \cup {<<n>> : n \in Name}, BeginFunction(params)
  PROVE  Right
<1>1. failed' = FALSE /\ emitted' = <<>>
  BY DEF BeginFunction
<1>2. QED
  BY <1>1, BeginFunctionSound, NothingEmitted

-------------------------------------------------------------------------------

IInv == Sound(chain) /\ emitted \in Seq(Instructions) /\ failed \in BOOLEAN

LEMMA Starting == Init => IInv
<1> SUFFICES ASSUME Init PROVE IInv
  OBVIOUS
<1>0. emitted = <<>> /\ failed = FALSE
  BY Zenon DEF Init
<1>1. <<>> \in Seq(Instructions) /\ FALSE \in BOOLEAN
  OBVIOUS
<1>2. QED
  BY <1>0, <1>1, InitSound, Zenon DEF IInv

LEMMA Stepping == IInv /\ [Next]_resolution => IInv' /\ [AllRead']_resolution
<1> SUFFICES ASSUME IInv, [Next]_resolution PROVE IInv' /\ [AllRead']_resolution
  OBVIOUS
<1>1. Sound(chain) /\ emitted \in Seq(Instructions) /\ failed \in BOOLEAN
  BY DEF IInv
<1>2. CASE UNCHANGED resolution
  BY <1>1, <1>2 DEF resolution, IInv
<1>3. CASE Stop
  BY <1>1, <1>3 DEF Stop, resolution, IInv
<1>4. ASSUME Right PROVE IInv' /\ AllRead'
  <2>1. AllRead'
    BY <1>4, AllReadIn DEF Right
  <2>2. QED
    BY <1>4, <2>1 DEF Right, IInv
<1>5. ASSUME NEW n \in Name, Declare(n) PROVE Right
  BY <1>1, <1>5, DeclareRight
<1>6. ASSUME NEW n \in Name, Use(n) PROVE Right
  BY <1>1, <1>6, UseRight
<1>7. CASE BeginBlock
  BY <1>1, <1>4, <1>7, BlockRight
<1>8. CASE EndBlock
  BY <1>1, <1>4, <1>8, EndBlockRight
<1>9. ASSUME NEW params \in {<<>>} \cup {<<n>> : n \in Name}, BeginFunction(params) PROVE Right
  BY <1>1, <1>9, FunctionRight
<1>10. CASE EndFunction
  BY <1>1, <1>4, <1>10, EndFunctionRight
<1>11. ASSUME NEW n \in Name, BeginClass(n) PROVE Right
  BY <1>1, <1>11, ClassRight
<1>12. ASSUME NEW n \in Name, NEW m \in Name, BeginSubclass(n, m) PROVE Right
  BY <1>1, <1>12, SubclassRight
<1>13. CASE EndClass
  BY <1>1, <1>4, <1>13, EndClassRight
<1>14. CASE UseThis
  BY <1>1, <1>4, <1>14, ThisRight
<1>15. CASE UseSuper
  BY <1>1, <1>4, <1>15, SuperRight
<1>16. QED
  BY <1>2, <1>3, <1>4, <1>5, <1>6, <1>7, <1>8, <1>9, <1>10, <1>11, <1>12, <1>13, <1>14, <1>15
     DEF Next

LEMMA Always == Spec => []IInv
<1>1. IInv /\ [Next]_resolution => IInv'
  BY Stepping
<1>2. QED
  BY <1>1, Starting, PTL DEF Spec

(* The Compilers are well-formed: every local, upvalue and scope is within *)
(* its limit, and every instruction is one of the compiler's.              *)
THEOREM Typing == Spec => []TypeOK
<1>1. IInv => TypeOK
  BY DEF IInv, Sound, Typed, TypeOK
<1>2. QED
  BY <1>1, Always, PTL

(* However deep the functions are nested, and whatever the functions       *)
(* between declare, a descriptor that resolve_upvalue adds leads to the    *)
(* variable that the name meant where it was used.                         *)
THEOREM Denoted == Spec => []DescriptorsDenote
<1>1. IInv => DescriptorsDenote
  BY DEF IInv, Sound, Denoting, DescriptorsDenote
<1>2. QED
  BY <1>1, Always, PTL

(* add_upvalue never gives a function two upvalues for one variable, so a  *)
(* closure has one cell for it.                                            *)
THEOREM CapturedAtMostOnce == Spec => []CapturedOnce
<1>1. IInv => CapturedOnce
  BY DEF IInv, Sound, Once, CapturedOnce
<1>2. QED
  BY <1>1, Always, PTL

(* A local that an inner function uses is marked captured, and no other    *)
(* local is: end_scope emits OP_CLOSE_UPVAL for these and OP_POP for the   *)
(* others.                                                                 *)
THEOREM CapturedExactly == Spec => []CapturedIffUsed
<1>1. IInv => CapturedIffUsed
  BY DEF IInv, Sound, Marked, MarkedAt, CapturedIffUsed
<1>2. QED
  BY <1>1, Always, PTL

(* For every program: the instruction that variable() emits for a name     *)
(* reads the innermost variable of that name, `this' reads slot 0 of the   *)
(* innermost method, `super' the variable of the innermost class, and a    *)
(* global is read only where no function around declares the name.         *)
THEOREM Innermost == Spec => NamesMeanInnermost
<1>1. IInv /\ [Next]_resolution => [AllRead']_resolution
  BY Stepping
<1>2. QED
  BY <1>1, Always, PTL DEF Spec, NamesMeanInnermost

=================================================================================
