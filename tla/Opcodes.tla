-------------------------------- MODULE Opcodes --------------------------------
(***************************************************************************)
(* The opcodes (src/include/chunk.h), by their numbers, and what operands  *)
(* the instructions have.  The long form of an instruction is the opcode   *)
(* after its short one.                                                    *)
(***************************************************************************)
EXTENDS Integers, Sequences

Byte == 256

OpcodeList == <<
  "CONST", "CONST_LONG", "RETURN", "NEGATE", "EXIT", "NOT", "PRINT", "POP",
  "DEFINE_GLOBAL", "DEFINE_GLOBAL_LONG", "GET_GLOBAL", "GET_GLOBAL_LONG",
  "SET_GLOBAL", "SET_GLOBAL_LONG", "GET_UPVAL", "GET_UPVAL_LONG", "SET_UPVAL",
  "SET_UPVAL_LONG", "TRUE", "FALSE", "NIL", "LESS", "GREATER", "EQUAL", "ADD",
  "SUBTRACT", "MUL", "DIV", "GET_LOCAL", "GET_LOCAL_LONG", "SET_LOCAL",
  "SET_LOCAL_LONG", "JMP_IF_FALSE", "JMP", "LOOP", "CALL", "CLOSURE",
  "CLOSURE_LONG", "CLOSE_UPVAL", "CLASS", "CLASS_LONG", "GET_PROPERTY",
  "GET_PROPERTY_LONG", "SET_PROPERTY", "SET_PROPERTY_LONG", "METHOD",
  "METHOD_LONG", "INVOKE", "INVOKE_LONG", "INHERIT", "GET_SUPER",
  "GET_SUPER_LONG", "SUPER_INVOKE", "SUPER_INVOKE_LONG">>

Code(op) == CHOOSE k \in 0 .. Len(OpcodeList) - 1 : OpcodeList[k + 1] = op
OpAt(b)  == IF b < Len(OpcodeList) THEN OpcodeList[b + 1] ELSE "unknown"
Long(op) == OpAt(Code(op) + 1)
ShortOf(op) == OpAt(Code(op) - 1)

ConstOps == {"CONST", "CLOSURE", "CLASS", "DEFINE_GLOBAL", "GET_GLOBAL", "SET_GLOBAL",
             "GET_PROPERTY", "SET_PROPERTY", "METHOD", "GET_SUPER", "INVOKE", "SUPER_INVOKE"}
LocalOps == {"GET_LOCAL", "SET_LOCAL"}
UpvalOps == {"GET_UPVAL", "SET_UPVAL"}
JumpOps  == {"JMP", "JMP_IF_FALSE", "LOOP"}
LongOps  == {Long(op) : op \in ConstOps \cup LocalOps \cup UpvalOps}

(* Those with a name that is all of the operand.                           *)
NameOps  == {"DEFINE_GLOBAL", "GET_GLOBAL", "SET_GLOBAL", "GET_PROPERTY", "SET_PROPERTY",
             "METHOD", "GET_SUPER"}
PlainOps == {"RETURN", "NEGATE", "NOT", "PRINT", "POP", "TRUE", "FALSE", "NIL", "LESS", "GREATER",
             "EQUAL", "ADD", "SUBTRACT", "MUL", "DIV", "CLOSE_UPVAL", "INHERIT"}

(* LONG_CONST_OFFSET_SIZE, LONG_LOCAL_OFFSET_SIZE, LONG_UPVAL_OFFSET_SIZE. *)
LongSize(op) == IF op \in UpvalOps THEN 2 ELSE 4
================================================================================
