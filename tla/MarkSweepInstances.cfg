SPECIFICATION FairSpec
CONSTANTS
  Obj = {o1, o2, o3}
  MaxRoots = 2
  MaxRefs = 3
  Place <- InstancePlaces
  Kinds <- InstanceKinds
CONSTRAINT Small
INVARIANT NoDangling
PROPERTY CollectionEnds
