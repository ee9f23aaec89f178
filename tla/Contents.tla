-------------------------------- MODULE Contents --------------------------------
(***************************************************************************)
(* The contents that strings may have, and the hash of each.               *)
(***************************************************************************)
EXTENDS Naturals

CONSTANTS
  Content,    \* contents of strings
  HashOf      \* hash_string

ASSUME ContentAssumption == HashOf \in [Content -> Nat]
================================================================================
