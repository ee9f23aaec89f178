SPECIFICATION Spec
CONSTANTS
  Obj = {o1, o2, o3}
  MaxRoots = 2
  MaxRefs = 3
  Place <- NamesPlaces
  Kinds <- NamesKinds
CONSTRAINT Small
INVARIANT NamesLive
