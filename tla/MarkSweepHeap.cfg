SPECIFICATION Spec
CONSTANTS
  Obj = {o1, o2, o3, o4}
  MaxRoots = 2
  MaxRefs = 4
  Place <- HeapPlaces
  Kinds <- HeapKinds
VIEW View
SYMMETRY Renamings
CONSTRAINT Small
INVARIANTS NoDangling MarksCleared
PROPERTY CollectsGarbage
