SPECIFICATION Spec
CONSTANTS
  Program <- AcrossPrograms
  AcrossLocals = TRUE
INVARIANT StackMirrorsScopes
