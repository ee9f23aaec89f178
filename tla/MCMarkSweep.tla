----------------------------- MODULE MCMarkSweep -----------------------------
(***************************************************************************)
(* Small heaps for MarkSweep.                                              *)
(***************************************************************************)
EXTENDS MarkSweep, TLC

CONSTANTS MaxRoots, MaxRefs

(* All kinds of object but natives, which refer to nothing, and bound      *)
(* methods, which would need two objects more; bound methods with what they*)
(* hold, and cycles, where classes and functions are left out; the names   *)
(* of classes.                                                             *)
HeapKinds     == AllKinds \ {"bound", "native"}
InstanceKinds == {"closure", "upvalue", "instance", "bound"}
NamesKinds    == {"string", "class", "instance"}

HeapPlaces     == {"stack", "open", "compilers", "frames"}
InstancePlaces == {"stack", "globals", "open"}
NamesPlaces    == {"stack", "globals", "init"}

(* Bounds: references held by the interpreter and by the objects.          *)
Small == Cardinality(roots) <= MaxRoots /\ Cardinality(refs) <= MaxRefs

Renamings == Permutations(Obj)

(* The kind of an address that holds no object is not read.                *)
View == <<[o \in Allocated |-> kind[o]], objects, refs, roots, strings,
          marked, gray, phase, sweep>>
==============================================================================
