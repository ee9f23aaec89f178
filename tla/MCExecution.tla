------------------------------ MODULE MCExecution ------------------------------
(***************************************************************************)
(* Execution with a break or a continue in a block that has locals.        *)
(***************************************************************************)
EXTENDS Execution

P == INSTANCE Programs
AcrossPrograms == P!AcrossPrograms
===============================================================================
