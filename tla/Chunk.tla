--------------------------------- MODULE Chunk ---------------------------------
(***************************************************************************)
(* A chunk of bytecode: the bytes, the size of the constant pool and the   *)
(* lines (src/src/chunk.c); how the compiler writes instructions, in their *)
(* short and long forms (src/src/compiler.c), and how the machine and the  *)
(* disassembler read them (src/src/vm.c, src/src/debug.c).                 *)
(*                                                                         *)
(* A constant is its place in the pool: nothing is added twice to one      *)
(* place, and nothing is looked up.  Positions and constants count from 0. *)
(* The code before position 0, which made the first constants, is not kept.*)
(***************************************************************************)
EXTENDS Opcodes, FiniteSets

CONSTANTS
  Pools,       \* sizes of the pool to begin with
  PoolMax,     \* CHUNK_CONST_POOL_MAX, which is also CHUNK_CONST_POOL_EFULL
  JumpMax,     \* UINT16_MAX for distances of jumps
  CodeMax,     \* bound: instructions
  NameMax,     \* bound: identifiers
  Line,        \* line numbers, below 2^16
  Ops,         \* which of the opcodes that are written alike are tried
  Slots,       \* numbers of locals and upvalues
  Counts,      \* numbers of arguments, each in a byte
  CapturedMax  \* bound: upvalues of a function

VARIABLES
  bytes,     \* chunk.bytecodes
  lines,     \* chunk.line_tracker from its last element: [pos, line]
  pool,      \* chunk.constants.size
  names,     \* the constants that are identifiers, which any instruction may use
  reported,  \* has an error been reported?
  written    \* what was written: [at, op, args, line], args as they were meant

chunk == <<bytes, lines, pool, names, reported, written>>

-------------------------------------------------------------------------------
(* Bytes.                                                                  *)

(* What each byte of a number counts, the lowest first.                    *)
Weight == <<1, Byte, Byte * Byte, Byte * Byte * Byte>>

(* A constant, a local and a jump can be told by their operand's bytes.    *)
Fits(n, size) == n \in Nat /\ n \div Weight[size] < Byte

ASSUME ChunkAssumption ==
  /\ Fits(PoolMax, 4) /\ Pools \subseteq 0 .. PoolMax
  /\ Fits(JumpMax, 2)
  /\ \A n \in Slots : Fits(n, 4)
  /\ Counts \subseteq 0 .. Byte - 1
  /\ CodeMax \in Nat /\ NameMax \in Nat /\ CapturedMax \in Nat

Digits(n, size) == [k \in 1 .. size |-> (n \div Weight[k]) % Byte]

ByteAt(pos) == bytes[pos + 1]

(* read_bytes, at most four                                                *)
ReadBytes(pos, size) ==
  LET Part(k) == IF k <= size THEN Weight[k] * ByteAt(pos + k - 1) ELSE 0
  IN Part(1) + Part(2) + Part(3) + Part(4)

(* Mutant: the first entry that is not behind the position.                *)
GetLineFirst(pos) ==
  lines[CHOOSE k \in DOMAIN lines : lines[k].pos <= pos
          /\ \A j \in DOMAIN lines : lines[j].pos <= pos => k <= j].line

(* chunk_get_line                                                          *)
GetLine(pos) ==
  lines[CHOOSE k \in DOMAIN lines : lines[k].pos <= pos
          /\ \A j \in DOMAIN lines : lines[j].pos <= pos => j <= k].line

-------------------------------------------------------------------------------
(* Writing.                                                                *)

Size == Len(bytes)

(* An instruction: op and the bytes after it, some with a line of their own*)
(* (emit_byte) and some not (emit_bytes); and how it was meant.  As        *)
(* current_line stays 0, each byte with a line has an entry.               *)
Write(op, operand, lined, line, meant, args) ==
  /\ Len(written) < CodeMax                                 \* bound
  /\ bytes' = bytes \o <<Code(op)>> \o operand
  /\ lines' = lines \o <<[pos |-> Size, line |-> line]>>
                    \o [k \in 1 .. Len(lined) |-> [pos |-> Size + lined[k], line |-> line]]
  /\ written' = Append(written, [at |-> Size, op |-> meant, args |-> args, line |-> line])

(* chunk_add_const                                                         *)
AddConst == IF pool + 1 > PoolMax THEN [size |-> pool, offset |-> PoolMax]
            ELSE [size |-> pool + 1, offset |-> pool]

(* Mutant: 256 has the short form.                                         *)
ShortUpTo256(n) == n <= Byte

Short(n) == n < Byte

(* emit_param_inst, in the form that the parameter needs.                  *)
Param(op, n, line) ==
  IF Short(n) THEN Write(op, Digits(n, 1), <<>>, line, op, <<n>>)
  ELSE Write(Long(op), Digits(n, LongSize(op)), <<>>, line, op, <<n>>)

Simple(op, line) ==
  Write(op, <<>>, <<>>, line, op, <<>>) /\ UNCHANGED <<pool, names, reported>>

(* emit_const_inst: a full pool is reported, and the instruction written.  *)
Const(line) ==
  LET c == AddConst
  IN /\ Param("CONST", c.offset, line)
     /\ pool' = c.size /\ reported' = (reported \/ pool >= PoolMax)
     /\ UNCHANGED names

(* identifier_constant; what uses the name comes later.                    *)
Identifier ==
  LET c == AddConst
  IN /\ Cardinality(names) < NameMax                         \* bound
     /\ pool' = c.size /\ reported' = (reported \/ c.offset = PoolMax)
     /\ names' = names \cup {c.offset}
     /\ UNCHANGED <<bytes, lines, written>>

UseName(op, n, line) == Param(op, n, line) /\ UNCHANGED <<pool, names, reported>>

(* class_declaration has the long form for the last short one too.         *)
Class(n, line) ==
  /\ IF n < Byte - 1 THEN Write("CLASS", Digits(n, 1), <<>>, line, "CLASS", <<n>>)
     ELSE Write("CLASS_LONG", Digits(n, 4), <<>>, line, "CLASS", <<n>>)
  /\ UNCHANGED <<pool, names, reported>>

UseVariable(op, n, line) == Param(op, n, line) /\ UNCHANGED <<pool, names, reported>>

(* dot: the name in a byte, whatever it is.                                *)
Invoke(n, count, line) ==
  /\ Write("INVOKE", <<n % Byte, count>>, <<1, 2>>, line, "INVOKE", <<n, count>>)
  /\ UNCHANGED <<pool, names, reported>>

(* super_                                                                  *)
SuperInvoke(n, count, line) ==
  /\ LET size == IF Short(n) THEN 1 ELSE 4
     IN Write(IF Short(n) THEN "SUPER_INVOKE" ELSE "SUPER_INVOKE_LONG",
              Append(Digits(n, size), count), <<size + 1>>, line, "SUPER_INVOKE", <<n, count>>)
  /\ UNCHANGED <<pool, names, reported>>

(* function: the closure, and two bytes for each upvalue.                  *)
Closure(upvals, line) ==
  LET c    == AddConst
      size == IF Short(c.offset) THEN 1 ELSE 4
      descriptors == [k \in 1 .. 2 * Len(upvals) |-> upvals[(k + 1) \div 2][2 - (k % 2)]]
  IN /\ Write(IF size = 1 THEN "CLOSURE" ELSE "CLOSURE_LONG",
              Digits(c.offset, size) \o descriptors,
              [k \in 1 .. Len(upvals) |-> size + 2 * k - 1], line,
              "CLOSURE", <<c.offset, upvals>>)
     /\ pool' = c.size /\ reported' = (reported \/ pool >= PoolMax)
     /\ UNCHANGED names

Call(count, line) ==
  /\ Write("CALL", <<count>>, <<1>>, line, "CALL", <<count>>)
  /\ UNCHANGED <<pool, names, reported>>

(* emit_jump, with a placeholder; patch_jump.                              *)
NoTarget == -1
Jump(op, line) ==
  /\ Write(op, <<255, 255>>, <<1, 2>>, line, op, <<NoTarget>>)
  /\ UNCHANGED <<pool, names, reported>>

Distance(i) == Size - (written[i].at + 3)

PatchJump(i) ==
  /\ written[i].op \in {"JMP", "JMP_IF_FALSE"} /\ written[i].args = <<NoTarget>>
  /\ IF Distance(i) >= JumpMax
     THEN reported' = TRUE /\ UNCHANGED <<bytes, written>>
     ELSE /\ bytes' = [k \in DOMAIN bytes |->
               IF k = written[i].at + 2 THEN Digits(Distance(i), 2)[1]
               ELSE IF k = written[i].at + 3 THEN Digits(Distance(i), 2)[2] ELSE bytes[k]]
          /\ written' = [written EXCEPT ![i].args = <<Size>>]
          /\ UNCHANGED reported
  /\ UNCHANGED <<lines, pool, names>>

(* emit_loop, back to the beginning of an instruction.                     *)
Loop(i, line) ==
  LET distance == Size + 3 - written[i].at
  IN /\ Write("LOOP", Digits(distance, 2), <<>>, line, "LOOP", <<written[i].at>>)
     /\ reported' = (reported \/ distance > JumpMax)
     /\ UNCHANGED <<pool, names>>

Upvals == UNION {[1 .. k -> {0, 1} \X (Slots \cap 0 .. Byte - 1)] : k \in 0 .. CapturedMax}

ChunkStop == (reported \/ Len(written) = CodeMax) /\ UNCHANGED chunk

(* What is behind an error is not read.                                    *)
ChunkNext ==
  \/ ~reported /\ \E line \in Line :
       \/ \E op \in Ops \cap PlainOps : Simple(op, line)
       \/ Const(line)
       \/ \E n \in names :
            \/ \E op \in Ops \cap NameOps : UseName(op, n, line)
            \/ Class(n, line)
            \/ \E count \in Counts : Invoke(n, count, line) \/ SuperInvoke(n, count, line)
       \/ \E n \in Slots : \E op \in Ops \cap (LocalOps \cup UpvalOps) :
            (op \in UpvalOps => n < Byte) /\ UseVariable(op, n, line)
       \/ \E upvals \in Upvals : Closure(upvals, line)
       \/ \E count \in Counts : Call(count, line)
       \/ \E op \in Ops \cap {"JMP", "JMP_IF_FALSE"} : Jump(op, line)
       \/ \E i \in DOMAIN written : Loop(i, line)
  \/ ~reported /\ (Identifier \/ \E i \in DOMAIN written : PatchJump(i))
  \/ ChunkStop

ChunkInit ==
  /\ bytes = <<>> /\ lines = <<>> /\ pool \in Pools /\ names = {}
  /\ reported = FALSE /\ written = <<>>

ChunkSpec == ChunkInit /\ [][ChunkNext]_chunk

-------------------------------------------------------------------------------
(* Reading.                                                                *)

(* Mutant: no descriptors are expected.                                    *)
UpvalCountNone(constant) == 0

(* How many descriptors follow OP_CLOSURE is in the constant.              *)
UpvalCount(constant) ==
  LET k == {i \in DOMAIN written : written[i].op = "CLOSURE" /\ written[i].args[1] = constant}
  IN IF k = {} THEN 0 ELSE Len(written[CHOOSE i \in k : TRUE].args[2])

(* Those with one operand and nothing behind it.                           *)
SoleOps == (ConstOps \ {"CLOSURE", "INVOKE", "SUPER_INVOKE"}) \cup LocalOps \cup UpvalOps
             \cup {"CALL"}

(* The machine at position pos.                                            *)
Decode(pos) ==
  LET code == OpAt(ByteAt(pos))
      long == code \in LongOps
      op   == IF long THEN ShortOf(code) ELSE code
      size == IF long THEN LongSize(op) ELSE 1
      n    == ReadBytes(pos + 1, size)
      after == pos + 1 + size
      Is(args, next) == [op |-> op, args |-> args, next |-> next]
  IN CASE op = "CLOSURE" ->
            LET count == UpvalCount(n)
            IN Is(<<n, [k \in 1 .. count |-> <<ByteAt(after + 2 * k - 2), ByteAt(after + 2 * k - 1)>>]>>,
                  after + 2 * count)
       [] op \in {"INVOKE", "SUPER_INVOKE"} -> Is(<<n, ByteAt(after)>>, after + 1)
       [] op \in {"JMP", "JMP_IF_FALSE"}   -> Is(<<pos + 3 + ReadBytes(pos + 1, 2)>>, pos + 3)
       [] op = "LOOP"                     -> Is(<<pos + 3 - ReadBytes(pos + 1, 2)>>, pos + 3)
       [] op \in SoleOps                  -> Is(<<n>>, after)
       [] OTHER -> Is(<<>>, pos + 1)

(* disassemble_inst: where the next instruction is.                        *)
Disassemble(pos) ==
  LET op == OpAt(ByteAt(pos))
  IN CASE op = "CLOSURE" -> pos + 2 + 2 * UpvalCount(ByteAt(pos + 1))
       [] op \in JumpOps \cup {"INVOKE", "SUPER_INVOKE", "INVOKE_LONG", "SUPER_INVOKE_LONG"} ->
            pos + 3
       [] op \in SoleOps -> pos + 2
       [] op \in {"CONST_LONG", "CLOSURE_LONG", "CLASS_LONG", "GET_PROPERTY_LONG",
                  "SET_PROPERTY_LONG", "METHOD_LONG", "GET_SUPER_LONG"} -> pos + 4
       [] OTHER -> pos + 1

-------------------------------------------------------------------------------
(* Properties.                                                             *)

EndOf(i) == IF i < Len(written) THEN written[i + 1].at ELSE Size
Patched(i)  == written[i].args # <<NoTarget>>
Constant(i) == written[i].op \in ConstOps

(* The machine reads every instruction as it was meant, in its short and   *)
(* in its long form, goes on at the next one, and finds its constant in    *)
(* the pool.  Not so a call of a method whose name is behind the 256th     *)
(* constant.                                                               *)
CodeReadsBack ==
  ~reported => \A i \in DOMAIN written :
    LET d == Decode(written[i].at)
    IN \/ written[i].op = "INVOKE" /\ ~Short(written[i].args[1])
       \/ /\ d.op = written[i].op /\ d.next = EndOf(i)
          /\ Patched(i) => d.args = written[i].args
          /\ Constant(i) => d.args[1] < pool

(* Each byte has the line of its instruction, whatever came before it.     *)
LinesKept ==
  \A i \in DOMAIN written : \A pos \in written[i].at .. EndOf(i) - 1 :
    GetLine(pos) = written[i].line

(* The disassembler keeps in step with the code as long as there are no    *)
(* long forms.                                                             *)
DisassemblerFollows ==
  ~reported => \A i \in DOMAIN written :
    OpAt(ByteAt(written[i].at)) \notin LongOps => Disassemble(written[i].at) = EndOf(i)

(* The assertion of vm.c:763-765 on a call of a method: the constant that  *)
(* is read is a name.                                                      *)
InvokesName ==
  ~reported => \A i \in DOMAIN written :
    written[i].op = "INVOKE" => Decode(written[i].at).args[1] \in names
================================================================================
