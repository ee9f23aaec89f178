SPECIFICATION MCSpec
CONSTANTS
  k1 = k1
  k2 = k2
  k3 = k3
  k4 = k4
  c1 = c1
  c2 = c2
  c3 = c3
  c4 = c4
  Key = {k1, k2, k3, k4}
  Null = Null
  Least = 2
  Owner = {sub, super}
  Value = {v1, v2}
  Hash <- KeyHashes
  Content = {c1, c2, c3, c4}
  HashOf <- ContentHashes
  PairsMax = 2
  StackMax = 4
  Room <- CasesRoom
VIEW View
SYMMETRY Renamings
CONSTRAINT CasesBounded
INVARIANTS FreeSpace StringsFindable EntryStaysValid BoxedAsTagged InUseLive
PROPERTIES TablesAreMaps Interns
