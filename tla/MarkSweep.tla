------------------------------- MODULE MarkSweep -------------------------------
(***************************************************************************)
(* The garbage collector (src/src/memory.c): the list of all objects, the  *)
(* mark bits, the worklist of marking, the weak table of interned strings  *)
(* and the sweep.                                                          *)
(*                                                                         *)
(* Between collections the rest of the interpreter, the mutator, changes   *)
(* the graph: it is any program that refers only to what it can reach or   *)
(* look up in the string table.  reallocate may start a collection at any  *)
(* allocation, and a collection runs to its end: no step of the mutator    *)
(* comes between two steps of the collector.  What the C code of one       *)
(* operation must root while it allocates is the business of its callers   *)
(* and not of this module.                                                 *)
(***************************************************************************)
EXTENDS Integers, Sequences, SequencesExt

CONSTANTS
  Obj,      \* the addresses an object may have
  Kinds,    \* the kinds of object in this instance (ObjType)
  Place     \* where the interpreter refers to objects, in this instance

AllKinds == {"string", "function", "closure", "upvalue", "native",
             "class", "instance", "bound"}

(* The kinds of object a Value may hold.                                   *)
InValues == {"string", "closure", "native", "class", "instance", "bound"}

(* The references an object of each kind has.                              *)
FieldsOf == [string   |-> {},
             native   |-> {},
             function |-> {"name", "constants"},
             closure  |-> {"function", "upvalues"},
             upvalue  |-> {"value"},
             class    |-> {"name", "methods"},
             instance |-> {"klass", "fields"},
             bound    |-> {"receiver", "method"}]

(* What they may refer to, and those that refer to one object at most.     *)
Target == [name     |-> {"string"},   constants |-> {"string", "closure"},
           function |-> {"function"}, upvalues  |-> {"upvalue"},
           value    |-> InValues,     methods   |-> {"closure"},
           klass    |-> {"class"},    fields    |-> InValues,
           receiver |-> {"instance"}, method    |-> {"closure"}]
Single == {"name", "function", "value", "klass", "receiver", "method"}

(* The references that are set when the object is made.                    *)
Constructed == [string   |-> {}, native |-> {}, function |-> {},
                closure  |-> {"function"}, upvalue |-> {"value"},
                class    |-> {"name"}, instance |-> {"klass"},
                bound    |-> {"receiver", "method"}]

(* Those that are never set again, and are there as long as the object is. *)
(* An upvalue's value is neither: it may be no object, and assignments to  *)
(* the variable write it, through its slot or through the upvalue.         *)
Fixed(k) == Constructed[k] \ {"value"}

(* The kinds of object that each place may refer to.                       *)
RootKinds == [stack  |-> InValues,    globals |-> InValues,
              init   |-> {"string"},  frames  |-> {"closure"},
              open   |-> {"upvalue"}, compilers |-> {"function"}]

(* Where a new object is put.                                              *)
Home == [k \in AllKinds |-> CASE k = "function" -> "compilers"
                              [] k = "upvalue"  -> "open"
                              [] OTHER          -> "stack"]

ASSUME InstanceAssumption ==
  /\ Kinds \subseteq AllKinds
  /\ Place \subseteq DOMAIN RootKinds
  /\ \A k \in Kinds : Home[k] \in Place

VARIABLES
  objects,   \* vm.objects, from its head
  kind,      \* Obj.type
  refs,      \* <<o, f, p>>: field f of object o refers to p
  roots,     \* <<q, p>>: place q refers to p
  strings,   \* the keys of vm.strings
  marked,    \* the objects whose gc_marked is set
  gray,      \* vm.gc.objects, as a set: the order does not matter
  phase,     \* "run", or what collect_garbage is about to do
  cursor,    \* where sweep_unreachable is in the list (current)
  prev       \* where the object is that it kept last, or 0 (NULL)

graph == <<kind, refs, roots>>
sweep == <<cursor, prev>>
vars  == <<objects, graph, strings, marked, gray, phase, sweep>>

-------------------------------------------------------------------------------
Allocated == Range(objects)

(* What the program follows from an object.  It follows the name of a      *)
(* class too, which NamesLive is about and the others leave out.           *)
References(o) ==
  {r[3] : r \in {x \in refs : x[1] = o /\ ~(x[2] = "name" /\ kind[o] = "class")}}

RootSet == {r[2] : r \in roots}

(* What the program can reach.                                             *)
Reachable ==
  {o \in Obj : \A C \in SUBSET Obj :
     RootSet \subseteq C /\ (\A x \in C : References(x) \subseteq C) => o \in C}

(* What the mutator can lay its hands on: what it can reach, and any       *)
(* string that find_existing_string_entry finds.                           *)
Known == Reachable \cup strings
KnownOf(kinds) == {o \in Known : kind[o] \in kinds}

-------------------------------------------------------------------------------
(* The mutator.                                                            *)

(* References of object o for the fields in F.                             *)
Contents(o, F) ==
  {R \in SUBSET {<<o, f, p>> : f \in F, p \in Known} :
     \A r \in R : /\ kind[r[3]] \in Target[r[2]]
                  /\ r[2] \in Single =>
                       \A x \in R : x[2] = r[2] => x = r}

(* Those that cannot be missing, if the instance has what they refer to.   *)
Needed(k) == {f \in Fixed(k) : Target[f] \cap Kinds # {}}

(* A new object goes to the head of the list, its mark clear, and becomes  *)
(* known; a string goes into the table too.                                *)
Allocate ==
  /\ phase = "run"
  /\ \E o \in Obj \ Allocated, k \in Kinds :
       /\ objects' = <<o>> \o objects
       /\ kind'    = [kind EXCEPT ![o] = k]
       /\ marked'  = marked \ {o}
       /\ \E R \in Contents(o, Constructed[k]) :
            /\ \A f \in Needed(k) : \E r \in R : r[2] = f
            /\ refs' = refs \cup R
       /\ roots'   = roots \cup {<<Home[k], o>>}
       /\ strings' = IF k = "string" THEN strings \cup {o} ELSE strings
  /\ UNCHANGED <<gray, phase, sweep>>

(* A field of a known object gets other contents.                          *)
Write ==
  /\ phase = "run"
  /\ \E o \in Known :
       \E f \in FieldsOf[kind[o]] \ Fixed(kind[o]) :
         \E R \in Contents(o, {f}) :
           refs' = {r \in refs : ~(r[1] = o /\ r[2] = f)} \cup R
  /\ UNCHANGED <<objects, kind, roots, strings, marked, gray, phase, sweep>>

(* A place comes to refer to one more object, or to one less.  The string  *)
(* "init" is set once.                                                     *)
AddRoot ==
  /\ phase = "run"
  /\ \E q \in Place :
       /\ q = "init" => \A r \in roots : r[1] # "init"
       /\ \E p \in KnownOf(RootKinds[q]) : roots' = roots \cup {<<q, p>>}
  /\ UNCHANGED <<objects, kind, refs, strings, marked, gray, phase, sweep>>

DropRoot ==
  /\ phase = "run"
  /\ \E r \in roots : r[1] # "init" /\ roots' = roots \ {r}
  /\ UNCHANGED <<objects, kind, refs, strings, marked, gray, phase, sweep>>

-------------------------------------------------------------------------------
(* The collector.                                                          *)

(* Mutant: the open upvalues are not roots.                                *)
MarkedRootsNoOpen == {r[2] : r \in {x \in roots : x[1] # "open"}}

(* mark_vm_roots and mark_compiler_roots mark what every place refers to.  *)
MarkedRoots ==
  {r[2] : r \in {x \in roots : x[1] \in {"stack", "globals", "init", "frames",
                                         "open", "compilers"}}}

(* The references that mark_reachable_objects follows.                     *)
MarkedFields == [string   |-> {},
                 native   |-> {},
                 closure  |-> {"function", "upvalues"},
                 function |-> {"name", "constants"},
                 upvalue  |-> {"value"},
                 class    |-> {"methods"},
                 instance |-> {"klass", "fields"},
                 bound    |-> {"receiver", "method"}]

(* Mutants: the upvalues of a closure, the receiver of a bound method are  *)
(* not marked.                                                             *)
ChildrenNoUpvalues(o) ==
  {r[3] : r \in {x \in refs : x[1] = o /\
                   x[2] \in MarkedFields[kind[o]] \ {"upvalues"}}}
ChildrenNoReceiver(o) ==
  {r[3] : r \in {x \in refs : x[1] = o /\
                   x[2] \in MarkedFields[kind[o]] \ {"receiver"}}}

Children(o) ==
  {r[3] : r \in {x \in refs : x[1] = o /\ x[2] \in MarkedFields[kind[o]]}}

(* mark_object sets the bit and pushes what was not marked before.         *)
Mark(S) == /\ marked' = marked \cup S
           /\ gray'   = gray \cup (S \ marked)

MarkRoots ==
  /\ phase = "run"
  /\ Mark(MarkedRoots)
  /\ phase' = "trace"
  /\ UNCHANGED <<objects, graph, strings, sweep>>

(* Mutant: what is marked already is pushed again.                         *)
TraceAgain ==
  /\ phase = "trace"
  /\ \E o \in gray : /\ gray'   = (gray \ {o}) \cup Children(o)
                     /\ marked' = marked \cup Children(o)
  /\ UNCHANGED <<objects, graph, strings, phase, sweep>>

(* One object is popped and what it refers to is marked.                   *)
Trace ==
  /\ phase = "trace"
  /\ \E o \in gray : /\ gray'   = (gray \ {o}) \cup (Children(o) \ marked)
                     /\ marked' = marked \cup Children(o)
  /\ UNCHANGED <<objects, graph, strings, phase, sweep>>

(* Mutant: the table of strings keeps the strings to be freed.             *)
PurgeNothing ==
  /\ phase = "trace" /\ gray = {}
  /\ phase' = "sweep" /\ cursor' = 1 /\ prev' = 0
  /\ UNCHANGED <<objects, graph, strings, marked, gray>>

(* The worklist is empty: the table of strings forgets the unmarked ones.  *)
PurgeStrings ==
  /\ phase = "trace" /\ gray = {}
  /\ strings' = strings \cap marked
  /\ phase' = "sweep" /\ cursor' = 1 /\ prev' = 0
  /\ UNCHANGED <<objects, graph, marked, gray>>

(* Mutant: the mark is left set.                                           *)
SweepKeepMarked ==
  /\ phase = "sweep" /\ cursor \in DOMAIN objects
  /\ objects[cursor] \in marked
  /\ prev' = cursor /\ cursor' = cursor + 1
  /\ UNCHANGED <<objects, graph, strings, marked, gray, phase>>

(* A marked object stays, and its mark is cleared for the next time.       *)
SweepKeep ==
  /\ phase = "sweep" /\ cursor \in DOMAIN objects
  /\ objects[cursor] \in marked
  /\ marked' = marked \ {objects[cursor]}
  /\ prev' = cursor /\ cursor' = cursor + 1
  /\ UNCHANGED <<objects, graph, strings, gray, phase>>

(* Mutant: the head of the list is set whether or not an object was kept.  *)
UnlinkedHead == SubSeq(objects, cursor + 1, Len(objects))

(* The next object becomes the head, or follows the one that was kept last.*)
Unlinked ==
  LET rest == SubSeq(objects, cursor + 1, Len(objects)) IN
  IF prev = 0 THEN rest ELSE SubSeq(objects, 1, prev) \o rest

(* An unmarked object is unlinked and freed.                               *)
SweepFree ==
  /\ phase = "sweep" /\ cursor \in DOMAIN objects
  /\ objects[cursor] \notin marked
  /\ objects' = Unlinked
  /\ cursor'  = prev + 1
  /\ refs'    = {r \in refs : r[1] # objects[cursor]}
  /\ UNCHANGED <<kind, roots, strings, marked, gray, phase, prev>>

SweepEnd ==
  /\ phase = "sweep" /\ cursor \notin DOMAIN objects
  /\ phase' = "run" /\ cursor' = 1 /\ prev' = 0
  /\ UNCHANGED <<objects, graph, strings, marked, gray>>

-------------------------------------------------------------------------------
Init ==
  /\ objects = <<>> /\ refs = {} /\ roots = {} /\ strings = {}
  /\ \E k \in Kinds : kind = [o \in Obj |-> k]
  /\ marked = {} /\ gray = {} /\ phase = "run" /\ cursor = 1 /\ prev = 0

Mutator   == Allocate \/ Write \/ AddRoot \/ DropRoot
Collector == Trace \/ PurgeStrings \/ SweepKeep \/ SweepFree \/ SweepEnd

Next == Mutator \/ MarkRoots \/ Collector

Spec == Init /\ [][Next]_vars

(* A collection is one call of collect_garbage, which nothing suspends.    *)
FairSpec == Spec /\ WF_vars(Collector)

-------------------------------------------------------------------------------
(* Properties.                                                             *)

TypeOK ==
  /\ objects \in Seq(Obj)
  /\ kind \in [Obj -> Kinds]
  /\ refs \subseteq Obj \X (DOMAIN Target) \X Obj
  /\ roots \subseteq Place \X Obj
  /\ strings \subseteq Obj /\ marked \subseteq Obj /\ gray \subseteq Obj
  /\ phase \in {"run", "trace", "sweep"}
  /\ cursor \in 1 .. Len(objects) + 1 /\ prev \in 0 .. Len(objects)

(* Nothing that is still in use is ever freed, not even for the time of a  *)
(* sweep: what can be reached, or found in the table of strings, exists,   *)
(* and is not listed twice (it would be freed twice).                      *)
NoDangling ==
  /\ Reachable \subseteq Allocated
  /\ strings \subseteq Allocated
  /\ IsInjective(objects)

(* Every mark is clear and the worklist empty when a collection begins: a  *)
(* mark left over would stop marking short of what lies behind it.         *)
MarksCleared == phase = "run" => marked = {} /\ gray = {}

(* The collector implements an atomic one.  While the sweep goes on, the   *)
(* objects that count as live are those it has kept or will keep.          *)
Kept == {objects[i] : i \in 1 .. cursor - 1} \cup (marked \cap Allocated)
Live  == IF phase = "sweep" THEN Kept ELSE Allocated
Edges == {e \in Live \X Obj : e[2] \in References(e[1])}

Atomic == INSTANCE Heap WITH
            live <- Live, edges <- Edges, roots <- RootSet
CollectsGarbage == Atomic!Spec

(* A collection ends, whatever cycles there are in the graph.              *)
CollectionEnds == phase # "run" ~> phase = "run"

(* vm.h:94-96: "mark all reachable objects", so an object that a live one  *)
(* refers to exists, the name of a class included.                         *)
NamesLive ==
  \A r \in refs : r[1] \in Reachable => r[3] \in Allocated
===============================================================================
