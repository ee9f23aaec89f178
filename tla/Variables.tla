------------------------------ MODULE Variables ------------------------------
(***************************************************************************)
(* What lexical scoping promises of variables, with no stack and no        *)
(* upvalue in sight: every execution of a declaration makes a cell of its  *)
(* own, an assignment stores an operand in that one cell and changes no    *)
(* other, and a cell keeps its value for as long as some code can name it. *)
(* Nothing is promised of what runs after an error.                        *)
(***************************************************************************)

CONSTANTS VarId,     \* the cells that may exist at one time
          Place,     \* where operands may stand
          Value,     \* what a cell or an operand may be
          Unbound    \* the content of a cell that no code can name

VARIABLES cell,      \* the content of every cell
          operands,  \* the values computed and not yet consumed
          broken     \* has a runtime error ended a program?

Cells == [VarId -> Value \cup {Unbound}]

Init == /\ cell = [v \in VarId |-> Unbound]
        /\ operands = <<>>
        /\ broken = FALSE

(* Anything that computes: operands come and go.                           *)
Compute == /\ DOMAIN operands' \subseteq Place
           /\ operands' \in [DOMAIN operands' -> Value]

(* Declarations are executed: cells come into being, and no other changes. *)
Bind == /\ cell' \in Cells
        /\ \A v \in VarId : cell[v] # Unbound => cell'[v] = cell[v]
        /\ Compute

(* One variable is assigned an operand.                                    *)
Assign(v) == /\ cell[v] # Unbound
             /\ \E p \in DOMAIN operands :
                  cell' = [cell EXCEPT ![v] = operands[p]]
             /\ UNCHANGED <<operands, broken>>

(* The last code that could name some cells is gone.                       *)
Forget == /\ \A v \in VarId : cell'[v] \in {cell[v], Unbound}
          /\ cell' \in Cells
          /\ Compute

AfterError == broken /\ broken'

Next == AfterError \/ Bind \/ Forget \/ \E v \in VarId : Assign(v)

Spec == Init /\ [][Next]_<<cell, operands, broken>>
=============================================================================
