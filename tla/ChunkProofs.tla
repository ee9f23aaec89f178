------------------------------ MODULE ChunkProofs ------------------------------
(***************************************************************************)
(* What Chunk keeps for every pool of constants, number and order of       *)
(* instructions, operands, lines and distances of jumps: the machine reads *)
(* each instruction as the compiler meant it, the disassembler keeps in    *)
(* step, and each byte has the line of its instruction.                    *)
(***************************************************************************)
EXTENDS Chunk, SequenceTheorems, WellFoundedInduction, TLAPS

-------------------------------------------------------------------------------
(* Opcodes.                                                                *)

Params  == ConstOps \cup LocalOps \cup UpvalOps
Emitted == PlainOps \cup Params \cup JumpOps \cup {"CALL"}

LEMMA ListIs ==
  /\ Len(OpcodeList) = 54
  /\ OpcodeList[1] = "CONST"
  /\ OpcodeList[2] = "CONST_LONG"
  /\ OpcodeList[3] = "RETURN"
  /\ OpcodeList[4] = "NEGATE"
  /\ OpcodeList[5] = "EXIT"
  /\ OpcodeList[6] = "NOT"
  /\ OpcodeList[7] = "PRINT"
  /\ OpcodeList[8] = "POP"
  /\ OpcodeList[9] = "DEFINE_GLOBAL"
  /\ OpcodeList[10] = "DEFINE_GLOBAL_LONG"
  /\ OpcodeList[11] = "GET_GLOBAL"
  /\ OpcodeList[12] = "GET_GLOBAL_LONG"
  /\ OpcodeList[13] = "SET_GLOBAL"
  /\ OpcodeList[14] = "SET_GLOBAL_LONG"
  /\ OpcodeList[15] = "GET_UPVAL"
  /\ OpcodeList[16] = "GET_UPVAL_LONG"
  /\ OpcodeList[17] = "SET_UPVAL"
  /\ OpcodeList[18] = "SET_UPVAL_LONG"
  /\ OpcodeList[19] = "TRUE"
  /\ OpcodeList[20] = "FALSE"
  /\ OpcodeList[21] = "NIL"
  /\ OpcodeList[22] = "LESS"
  /\ OpcodeList[23] = "GREATER"
  /\ OpcodeList[24] = "EQUAL"
  /\ OpcodeList[25] = "ADD"
  /\ OpcodeList[26] = "SUBTRACT"
  /\ OpcodeList[27] = "MUL"
  /\ OpcodeList[28] = "DIV"
  /\ OpcodeList[29] = "GET_LOCAL"
  /\ OpcodeList[30] = "GET_LOCAL_LONG"
  /\ OpcodeList[31] = "SET_LOCAL"
  /\ OpcodeList[32] = "SET_LOCAL_LONG"
  /\ OpcodeList[33] = "JMP_IF_FALSE"
  /\ OpcodeList[34] = "JMP"
  /\ OpcodeList[35] = "LOOP"
  /\ OpcodeList[36] = "CALL"
  /\ OpcodeList[37] = "CLOSURE"
  /\ OpcodeList[38] = "CLOSURE_LONG"
  /\ OpcodeList[39] = "CLOSE_UPVAL"
  /\ OpcodeList[40] = "CLASS"
  /\ OpcodeList[41] = "CLASS_LONG"
  /\ OpcodeList[42] = "GET_PROPERTY"
  /\ OpcodeList[43] = "GET_PROPERTY_LONG"
  /\ OpcodeList[44] = "SET_PROPERTY"
  /\ OpcodeList[45] = "SET_PROPERTY_LONG"
  /\ OpcodeList[46] = "METHOD"
  /\ OpcodeList[47] = "METHOD_LONG"
  /\ OpcodeList[48] = "INVOKE"
  /\ OpcodeList[49] = "INVOKE_LONG"
  /\ OpcodeList[50] = "INHERIT"
  /\ OpcodeList[51] = "GET_SUPER"
  /\ OpcodeList[52] = "GET_SUPER_LONG"
  /\ OpcodeList[53] = "SUPER_INVOKE"
  /\ OpcodeList[54] = "SUPER_INVOKE_LONG"
BY DEF OpcodeList

LEMMA Injective ==
  \A j, k \in 1 .. 54 : OpcodeList[j] = OpcodeList[k] => j = k
BY ListIs

LEMMA CodeIs ==
  ASSUME NEW k \in 0 .. 53
  PROVE  /\ Code(OpcodeList[k + 1]) = k
         /\ OpAt(k) = OpcodeList[k + 1]
<1>1. \A j \in 0 .. 53 : OpcodeList[j + 1] = OpcodeList[k + 1] => j = k
  BY Injective
<1>2. Len(OpcodeList) - 1 = 53
  BY ListIs
<1> HIDE DEF OpcodeList
<1>3. \E j \in 0 .. 53 : OpcodeList[j + 1] = OpcodeList[k + 1]
  OBVIOUS
<1>4. Code(OpcodeList[k + 1]) = k
  BY <1>1, <1>2, <1>3 DEF Code
<1>5. QED
  BY <1>4, ListIs DEF OpAt

(* The place of each opcode that has a long form, which is behind it.      *)
LEMMA LongAre ==
  /\ \A op \in Params : \E k \in {0, 8, 10, 12, 14, 16, 28, 30, 36, 39, 41, 43, 45, 47, 50, 52} :
       op = OpcodeList[k + 1]
  /\ \A op \in Emitted : \E k \in 0 .. 53 :
       /\ op = OpcodeList[k + 1]
       /\ k \notin {1, 9, 11, 13, 15, 17, 29, 31, 37, 40, 42, 44, 46, 48, 51, 53}
BY ListIs DEF Emitted, Params, PlainOps, ConstOps, LocalOps, UpvalOps, JumpOps

LEMMA LongCode ==
  ASSUME NEW op \in Params
  PROVE  /\ Code(Long(op)) \in 0 .. Byte - 1
         /\ OpAt(Code(Long(op))) = Long(op)
         /\ Long(op) \in LongOps
         /\ ShortOf(Long(op)) = op
<1>1. PICK k \in 0 .. 52 : op = OpcodeList[k + 1]
  BY LongAre
<1> HIDE DEF OpcodeList
<1>2. Code(op) = k
  BY <1>1, CodeIs
<1>3. Long(op) = OpcodeList[k + 2]
  BY <1>2, CodeIs, k + 1 \in 0 .. 53, (k + 1) + 1 = k + 2 DEF Long
<1>4. Code(Long(op)) = k + 1 /\ OpAt(k + 1) = Long(op)
  BY <1>3, CodeIs, k + 1 \in 0 .. 53, (k + 1) + 1 = k + 2
<1>5. Long(op) \in LongOps
  BY DEF LongOps, Params
<1>6. ShortOf(Long(op)) = op
  BY <1>4, <1>1, CodeIs, k + 1 - 1 = k DEF ShortOf
<1>7. QED
  BY <1>4, <1>5, <1>6 DEF Byte

LEMMA ShortCode ==
  ASSUME NEW op \in Emitted
  PROVE  /\ Code(op) \in 0 .. Byte - 1
         /\ OpAt(Code(op)) = op
         /\ op \notin LongOps
<1>1. PICK k \in 0 .. 53 :
        /\ op = OpcodeList[k + 1]
        /\ k \notin {1, 9, 11, 13, 15, 17, 29, 31, 37, 40, 42, 44, 46, 48, 51, 53}
  BY LongAre
<1> HIDE DEF OpcodeList
<1>2. Code(op) = k /\ OpAt(k) = op
  BY <1>1, CodeIs
<1>3. ASSUME NEW o \in Params, op = Long(o)
      PROVE  FALSE
  <2>1. PICK j \in {0, 8, 10, 12, 14, 16, 28, 30, 36, 39, 41, 43, 45, 47, 50, 52} :
          o = OpcodeList[j + 1]
    BY LongAre, <1>3
  <2>2. j \in 0 .. 53 /\ j + 1 \in 0 .. 53
    OBVIOUS
  <2>3. Code(o) = j
    BY <2>1, <2>2, CodeIs
  <2>4. Code(op) = j + 1
    BY <1>3, <2>2, <2>3, CodeIs DEF Long
  <2>5. QED
    BY <1>1, <1>2, <2>4
<1>4. op \notin LongOps
  BY <1>3 DEF LongOps, Params
<1>5. QED
  BY <1>2, <1>4 DEF Byte

-------------------------------------------------------------------------------
(* Numbers.                                                                *)

LEMMA WeightIs ==
  /\ Byte = 256
  /\ Weight[1] = 1 /\ Weight[2] = 256 /\ Weight[3] = 256 * 256 /\ Weight[4] = 256 * 256 * 256
BY DEF Weight, Byte

LEMMA DigitsAre ==
  ASSUME NEW n \in Nat, NEW size \in {1, 2, 4}
  PROVE  /\ Digits(n, size) \in Seq(0 .. Byte - 1)
         /\ Len(Digits(n, size)) = size
         /\ \A k \in 1 .. size : Digits(n, size)[k] = (n \div Weight[k]) % Byte
<1>1. \A k \in 1 .. size : (n \div Weight[k]) % Byte \in 0 .. Byte - 1
  BY WeightIs
<1>2. /\ Digits(n, size) = [k \in 1 .. size |-> (n \div Weight[k]) % Byte]
      /\ size \in Nat
  BY DEF Digits
<1>3. Digits(n, size) \in [1 .. size -> 0 .. Byte - 1]
  BY <1>1, <1>2
<1>4. QED
  BY <1>2, <1>3

(* A number that fits is the sum of its bytes.                             *)
LEMMA SumOfDigits ==
  ASSUME NEW n, NEW size \in {1, 2, 4}, Fits(n, size), NEW pos \in Nat,
         \A k \in 1 .. size : ByteAt(pos + k - 1) = (n \div Weight[k]) % Byte
  PROVE  ReadBytes(pos, size) = n
<1>1. /\ n \in Nat /\ n \div Weight[size] < 256
      /\ \A k \in 1 .. size : ByteAt(pos + k - 1) = (n \div Weight[k]) % 256
  BY WeightIs DEF Fits
<1> DEFINE B(k) == ByteAt(pos + k - 1)
<1>p. ReadBytes(pos, size) =
        (IF 1 <= size THEN Weight[1] * B(1) ELSE 0) + (IF 2 <= size THEN Weight[2] * B(2) ELSE 0)
          + (IF 3 <= size THEN Weight[3] * B(3) ELSE 0)
          + (IF 4 <= size THEN Weight[4] * B(4) ELSE 0)
  BY DEF ReadBytes
<1> HIDE DEF B
<1>2. CASE size = 1
  <2>1. B(1) = n
    BY <1>1, <1>2, WeightIs DEF B
  <2>2. QED
    BY <1>p, <1>1, <1>2, <2>1, WeightIs
<1>3. CASE size = 2
  <2>1. B(1) = n % 256 /\ B(2) = (n \div 256) % 256 /\ n \div 256 < 256
    BY <1>1, <1>3, WeightIs DEF B
  <2>2. QED
    BY <1>p, <1>1, <1>3, <2>1, WeightIs
<1>4. CASE size = 4
  <2>1. /\ B(1) = n % 256 /\ B(2) = (n \div 256) % 256
        /\ B(3) = (n \div (256 * 256)) % 256
        /\ B(4) = (n \div (256 * 256 * 256)) % 256 /\ n \div (256 * 256 * 256) < 256
    BY <1>1, <1>4, WeightIs DEF B
  <2>2. ReadBytes(pos, size) =
          1 * B(1) + 256 * B(2) + 256 * 256 * B(3) + 256 * 256 * 256 * B(4)
    BY <1>p, <1>4, WeightIs
  <2>3. n = (n % 256) + 256 * ((n \div 256) % 256) + 256 * 256 * ((n \div (256 * 256)) % 256)
              + 256 * 256 * 256 * ((n \div (256 * 256 * 256)) % 256)
    BY <1>1, <2>1
  <2>4. QED
    BY <2>1, <2>2, <2>3, <1>1
<1>5. QED
  BY <1>2, <1>3, <1>4

-------------------------------------------------------------------------------
(* Where the instructions are, and the lines.                              *)

Args == {<<>>} \cup {<<n>> : n \in Int} \cup {<<n, count>> : n \in Nat, count \in Counts}
          \cup {<<n, upvals>> : n \in Nat, upvals \in Upvals}

Instr    == [at : Nat, op : Emitted, args : Args, line : Line]
LineInfo == [pos : Nat, line : Line]

Typed ==
  /\ bytes \in Seq(0 .. Byte - 1)
  /\ lines \in Seq(LineInfo)
  /\ pool \in 0 .. PoolMax /\ names \subseteq Nat /\ reported \in BOOLEAN
  /\ written \in Seq(Instr)

(* Each instruction begins behind the one before it.                       *)
Ordered ==
  /\ \A i \in DOMAIN written : written[i].at < Size
  /\ \A i, j \in DOMAIN written : i < j => written[i].at < written[j].at

(* The lines ascend; each is that of the instruction it is in, and each    *)
(* instruction begins with one.                                            *)
Lined ==
  /\ \A j, k \in DOMAIN lines : j < k => lines[j].pos < lines[k].pos
  /\ \A k \in DOMAIN lines : \E i \in DOMAIN written :
       /\ written[i].at <= lines[k].pos /\ lines[k].pos < EndOf(i)
       /\ lines[k].line = written[i].line
  /\ \A i \in DOMAIN written : \E k \in DOMAIN lines : lines[k].pos = written[i].at

LEMMA Joined ==
  ASSUME NEW S, NEW s \in Seq(S), NEW e \in S, NEW t \in Seq(S), NEW r, r = s \o <<e>> \o t
  PROVE  /\ r \in Seq(S) /\ Len(r) = Len(s) + 1 + Len(t)
         /\ Len(s) \in Nat /\ Len(t) \in Nat
         /\ \A k \in 1 .. Len(s) : r[k] = s[k]
         /\ r[Len(s) + 1] = e
         /\ \A k \in 1 .. Len(t) : r[Len(s) + 1 + k] = t[k]
<1> DEFINE a == s \o <<e>>
<1>1. /\ a \in Seq(S) /\ Len(a) = Len(s) + 1 /\ Len(s) \in Nat /\ Len(t) \in Nat
      /\ \A k \in 1 .. Len(s) : a[k] = s[k]
      /\ a[Len(s) + 1] = e
  <2>1. a = Append(s, e) /\ Len(s) \in Nat /\ Len(t) \in Nat
    BY AppendIsConcat, LenProperties
  <2>2. /\ Append(s, e) \in Seq(S) /\ Len(Append(s, e)) = Len(s) + 1
        /\ \A k \in 1 .. Len(s) : Append(s, e)[k] = s[k]
        /\ Append(s, e)[Len(s) + 1] = e
    BY AppendProperties
  <2> HIDE DEF a
  <2>3. QED
    BY <2>1, <2>2
<1>2. r = a \o t
  OBVIOUS
<1> HIDE DEF a
<1>3. /\ a \o t \in Seq(S)
      /\ Len(a \o t) = Len(a) + Len(t)
      /\ \A k \in 1 .. Len(a) + Len(t) :
           (a \o t)[k] = IF k <= Len(a) THEN a[k] ELSE t[k - Len(a)]
  BY <1>1, ConcatProperties, Zenon
<1>4. QED
  BY <1>1, <1>2, <1>3

LEMMA LinesJoined ==
  ASSUME NEW s \in Seq(LineInfo), NEW e \in LineInfo, NEW t \in Seq(LineInfo),
         NEW r, r = s \o <<e>> \o t
  PROVE  /\ r \in Seq(LineInfo) /\ Len(r) = Len(s) + 1 + Len(t)
         /\ \A k \in 1 .. Len(s) : r[k] = s[k]
         /\ r[Len(s) + 1] = e
         /\ \A k \in 1 .. Len(t) : r[Len(s) + 1 + k] = t[k]
BY Joined

LEMMA WrittenTyped ==
  ASSUME Typed
  PROVE  /\ Size \in Nat /\ Len(written) \in Nat /\ DOMAIN written = 1 .. Len(written)
         /\ Len(lines) \in Nat /\ DOMAIN lines = 1 .. Len(lines)
         /\ \A i \in 1 .. Len(written) : written[i] \in Instr /\ written[i].at \in Nat
         /\ \A k \in 1 .. Len(lines) : lines[k] \in LineInfo /\ lines[k].pos \in Nat
<1>1. /\ written \in Seq(Instr) /\ lines \in Seq(LineInfo) /\ Size \in Nat
  BY LenProperties DEF Typed, Size
<1>2. /\ Len(written) \in Nat /\ DOMAIN written = 1 .. Len(written)
      /\ Len(lines) \in Nat /\ DOMAIN lines = 1 .. Len(lines)
  BY <1>1, LenProperties
<1>3. \A w \in Instr : w.at \in Nat
  BY DEF Instr
<1>4. \A w \in LineInfo : w.pos \in Nat
  BY DEF LineInfo
<1>5. \A i \in 1 .. Len(written) : written[i] \in Instr
  BY <1>1, ElementOfSeq
<1>6. \A k \in 1 .. Len(lines) : lines[k] \in LineInfo
  BY <1>1, ElementOfSeq
<1>7. QED
  BY <1>1, <1>2, <1>3, <1>4, <1>5, <1>6

(* What an instruction of n bytes from here on changes.                    *)
LEMMA WriteGrows ==
  ASSUME Typed, Ordered, Lined,
         NEW op, Code(op) \in 0 .. Byte - 1, NEW operand \in Seq(0 .. Byte - 1),
         NEW lined \in Seq(1 .. Len(operand)),
         \A j, k \in DOMAIN lined : j < k => lined[j] < lined[k],
         NEW meant \in Emitted, NEW args \in Args, NEW line \in Line,
         Write(op, operand, lined, line, meant, args),
         NEW here, here = Size, NEW last, last = Len(written) + 1
  PROVE  /\ here \in Nat /\ Len(operand) \in Nat
         /\ bytes' \in Seq(0 .. Byte - 1)
         /\ lines' \in Seq(LineInfo)
         /\ written' \in Seq(Instr)
         /\ Size' = here + 1 + Len(operand)
         /\ \A k \in 1 .. here : bytes'[k] = bytes[k]
         /\ bytes'[here + 1] = Code(op)
         /\ \A k \in 1 .. Len(operand) : bytes'[here + 1 + k] = operand[k]
         /\ Len(written') = Len(written) + 1
         /\ \A i \in 1 .. Len(written) : written'[i] = written[i] /\ EndOf(i)' = EndOf(i)
         /\ written'[last] = [at |-> here, op |-> meant, args |-> args, line |-> line]
         /\ EndOf(last)' = Size'
         /\ Ordered'
         /\ Lined'
<1>1. /\ here \in Nat /\ Len(operand) \in Nat /\ here = Len(bytes)
      /\ Len(written) \in Nat /\ DOMAIN written = 1 .. Len(written)
      /\ Len(lines) \in Nat /\ DOMAIN lines = 1 .. Len(lines)
      /\ Len(lined) \in Nat /\ DOMAIN lined = 1 .. Len(lined)
  BY WrittenTyped, LenProperties, ElementOfSeq DEF Size
<1>l. /\ \A k \in 1 .. Len(lined) : lined[k] \in 1 .. Len(operand)
      /\ \A j, k \in 1 .. Len(lined) : j < k => lined[j] < lined[k]
  BY <1>1, ElementOfSeq
<1>2. /\ bytes' \in Seq(0 .. Byte - 1)
      /\ Size' = here + 1 + Len(operand)
      /\ \A k \in 1 .. here : bytes'[k] = bytes[k]
      /\ bytes'[here + 1] = Code(op)
      /\ \A k \in 1 .. Len(operand) : bytes'[here + 1 + k] = operand[k]
  <2>1. bytes' = bytes \o <<Code(op)>> \o operand /\ bytes \in Seq(0 .. Byte - 1)
    BY DEF Write, Typed
  <2>2. PICK b : b = bytes'
    OBVIOUS
  <2>3. /\ b \in Seq(0 .. Byte - 1) /\ Len(b) = Len(bytes) + 1 + Len(operand)
        /\ \A k \in 1 .. Len(bytes) : b[k] = bytes[k]
        /\ b[Len(bytes) + 1] = Code(op)
        /\ \A k \in 1 .. Len(operand) : b[Len(bytes) + 1 + k] = operand[k]
    BY <2>1, <2>2, Joined
  <2>4. QED
    BY <2>2, <2>3, <1>1 DEF Size
<1>3. PICK w : w = [at |-> here, op |-> meant, args |-> args, line |-> line]
  OBVIOUS
<1>4. w \in Instr /\ w.at = here /\ w.line = line
  BY <1>3, <1>1 DEF Instr
<1>5. /\ written' \in Seq(Instr) /\ Len(written') = Len(written) + 1
      /\ \A i \in 1 .. Len(written) : written'[i] = written[i]
      /\ written'[last] = w
  <2>1. written' = Append(written, w) /\ written \in Seq(Instr)
    BY <1>3 DEF Write, Typed
  <2>2. QED
    BY <2>1, <1>4, AppendProperties
<1>6. DOMAIN written' = 1 .. Len(written) + 1
  BY <1>5, LenProperties
<1>7. /\ \A i \in 1 .. Len(written) : EndOf(i)' = EndOf(i)
      /\ EndOf(last)' = Size'
  <2>1. ASSUME NEW i \in 1 .. Len(written) PROVE EndOf(i)' = EndOf(i)
    <3>1. CASE i < Len(written)
      <4>1. written'[i + 1] = written[i + 1]
        BY <1>5, <1>1, <3>1
      <4>2. QED
        BY <4>1, <1>5, <1>1, <3>1 DEF EndOf
    <3>2. CASE i = Len(written)
      BY <1>5, <1>1, <1>4, <3>2 DEF EndOf
    <3>3. Len(written) \in Nat
      BY <1>1
    <3>4. i < Len(written) \/ i = Len(written)
      BY <3>3
    <3>5. QED
      BY <3>1, <3>2, <3>4
  <2>2. EndOf(last)' = Size'
    BY <1>5, <1>1 DEF EndOf
  <2>3. QED
    BY <2>1, <2>2
<1>8. Ordered'
  <2>1. \A i \in 1 .. Len(written) : written[i].at < here
    BY <1>1 DEF Ordered
  <2>2. \A i \in 1 .. Len(written) : written[i].at \in Nat
    BY WrittenTyped
  <2>3. ASSUME NEW i \in DOMAIN written' PROVE written'[i].at < Size'
    <3>1. i \in 1 .. Len(written) \/ i = last
      BY <1>1, <1>6
    <3>2. QED
      BY <3>1, <1>1, <1>2, <1>4, <1>5, <2>1, <2>2
  <2>4. ASSUME NEW i \in DOMAIN written', NEW j \in DOMAIN written', i < j
        PROVE  written'[i].at < written'[j].at
    <3>1. /\ i \in 1 .. Len(written)
          /\ j \in 1 .. Len(written) \/ j = last
      BY <2>4, <1>1, <1>6
    <3>2. CASE j \in 1 .. Len(written)
      BY <3>1, <3>2, <2>4, <1>1, <1>5 DEF Ordered
    <3>3. CASE j = last
      BY <3>1, <3>3, <2>1, <1>4, <1>5
    <3>4. QED
      BY <3>1, <3>2, <3>3
  <2>5. QED
    BY <2>3, <2>4 DEF Ordered
<1>9. PICK first : first = [pos |-> here, line |-> line]
  OBVIOUS
<1>10. PICK more : more = [k \in 1 .. Len(lined) |-> [pos |-> here + lined[k], line |-> line]]
  OBVIOUS
<1>11. /\ first \in LineInfo /\ first.pos = here /\ first.line = line
       /\ more \in Seq(LineInfo) /\ Len(more) = Len(lined)
       /\ \A k \in 1 .. Len(lined) : more[k].pos = here + lined[k] /\ more[k].line = line
  <2>1. \A k \in 1 .. Len(lined) : here + lined[k] \in Nat
    BY <1>1, <1>l
  <2>2. \A k \in 1 .. Len(lined) : [pos |-> here + lined[k], line |-> line] \in LineInfo
    BY <2>1 DEF LineInfo
  <2>3. more \in [1 .. Len(lined) -> LineInfo]
    BY <2>2, <1>10
  <2>4. QED
    BY <2>3, <1>1, <1>9, <1>10 DEF LineInfo
<1>12. /\ lines' \in Seq(LineInfo) /\ Len(lines') = Len(lines) + 1 + Len(lined)
       /\ \A k \in 1 .. Len(lines) : lines'[k] = lines[k]
       /\ lines'[Len(lines) + 1] = first
       /\ \A k \in 1 .. Len(lined) : lines'[Len(lines) + 1 + k] = more[k]
  <2>1. lines' = lines \o <<first>> \o more /\ lines \in Seq(LineInfo)
    BY <1>9, <1>10 DEF Write, Typed, Size
  <2>2. PICK l : l = lines'
    OBVIOUS
  <2>3. /\ l \in Seq(LineInfo) /\ Len(l) = Len(lines) + 1 + Len(more)
        /\ \A k \in 1 .. Len(lines) : l[k] = lines[k]
        /\ l[Len(lines) + 1] = first
        /\ \A k \in 1 .. Len(more) : l[Len(lines) + 1 + k] = more[k]
    <3>1. first \in LineInfo /\ more \in Seq(LineInfo)
      BY <1>11
    <3>2. l = lines \o <<first>> \o more /\ lines \in Seq(LineInfo)
      BY <2>1, <2>2
    <3>3. QED
      BY <3>1, <3>2, LinesJoined
  <2>4. QED
    BY <2>2, <2>3, <1>11
<1>13. DOMAIN lines' = 1 .. Len(lines) + 1 + Len(lined)
  BY <1>12, LenProperties
<1>14. \A k \in 1 .. Len(lines) : lines[k].pos \in Nat /\ lines[k].pos < here
  <2>1. ASSUME NEW i \in 1 .. Len(written) PROVE EndOf(i) <= here /\ EndOf(i) \in Nat
    <3>1. CASE i < Len(written)
      <4>1. i + 1 \in 1 .. Len(written)
        BY <3>1, <1>1
      <4>2. written[i + 1].at \in Nat /\ written[i + 1].at < here
        BY <4>1, <1>1, WrittenTyped DEF Ordered
      <4>3. QED
        BY <4>2, <3>1, <1>1 DEF EndOf
    <3>2. CASE ~(i < Len(written))
      BY <3>2, <1>1 DEF EndOf
    <3>3. QED
      BY <3>1, <3>2
  <2>2. ASSUME NEW k \in 1 .. Len(lines) PROVE lines[k].pos \in Nat /\ lines[k].pos < here
    <3>1. lines[k].pos \in Nat /\ k \in DOMAIN lines
      BY <1>1, WrittenTyped
    <3>2. PICK i \in 1 .. Len(written) : lines[k].pos < EndOf(i)
      BY <3>1, <1>1 DEF Lined
    <3>3. QED
      BY <3>1, <3>2, <2>1, <1>1
  <2>3. QED
    BY <2>2
<1> DEFINE new == Len(lines) + 1 .. Len(lines) + 1 + Len(lined)
<1>15. /\ \A k \in new : /\ lines'[k].pos \in Nat /\ lines'[k].line = line
                         /\ here <= lines'[k].pos /\ lines'[k].pos < Size'
       /\ \A j, k \in new : j < k => lines'[j].pos < lines'[k].pos
  <2>1. ASSUME NEW k \in new, k # Len(lines) + 1
        PROVE  \E m \in 1 .. Len(lined) : /\ k = Len(lines) + 1 + m
                                          /\ lines'[k].pos = here + lined[m]
                                          /\ lines'[k].line = line
    <3>1. k - (Len(lines) + 1) \in 1 .. Len(lined) /\ k = Len(lines) + 1 + (k - (Len(lines) + 1))
      BY <2>1, <1>1
    <3>2. PICK m \in 1 .. Len(lined) : k = Len(lines) + 1 + m
      BY <3>1
    <3>3. lines'[k] = more[m]
      BY <3>2, <1>12
    <3>4. more[m].pos = here + lined[m] /\ more[m].line = line
      BY <1>11
    <3>5. QED
      BY <3>2, <3>3, <3>4
  <2>2. ASSUME NEW k \in new
        PROVE  /\ lines'[k].pos \in Nat /\ lines'[k].line = line
               /\ here <= lines'[k].pos /\ lines'[k].pos < Size'
    <3>1. CASE k = Len(lines) + 1
      <4>1. lines'[k] = first
        BY <3>1, <1>12
      <4>2. first.pos = here /\ first.line = line
        BY <1>11
      <4>3. here \in Nat /\ here <= here /\ here < Size'
        BY <1>1, <1>2
      <4>4. QED
        BY <4>1, <4>2, <4>3
    <3>2. CASE k # Len(lines) + 1
      <4>1. PICK m \in 1 .. Len(lined) : /\ lines'[k].pos = here + lined[m]
                                         /\ lines'[k].line = line
        BY <2>1, <3>2
      <4>2. lined[m] \in 1 .. Len(operand) /\ Size' = here + 1 + Len(operand)
        BY <1>2, <1>l
      <4>3. here \in Nat /\ Len(operand) \in Nat
        BY <1>1
      <4>4. \A x \in 1 .. Len(operand) :
              here + x \in Nat /\ here <= here + x /\ here + x < here + 1 + Len(operand)
        BY <4>3
      <4>5. QED
        BY <4>1, <4>2, <4>4
    <3>3. QED
      BY <3>1, <3>2
  <2>3. ASSUME NEW j \in new, NEW k \in new, j < k
        PROVE  lines'[j].pos < lines'[k].pos
    <3>1. k # Len(lines) + 1 /\ j \in Int /\ k \in Int
      BY <2>3, <1>1
    <3>2. PICK m \in 1 .. Len(lined) : k = Len(lines) + 1 + m /\ lines'[k].pos = here + lined[m]
      BY <2>1, <3>1
    <3>3. CASE j = Len(lines) + 1
      <4>1. lines'[j].pos = here
        BY <3>3, <1>11, <1>12
      <4>2. lined[m] \in 1 .. Len(operand)
        BY <1>l
      <4>3. QED
        BY <4>1, <4>2, <3>2, <1>1
    <3>4. CASE j # Len(lines) + 1
      <4>1. PICK l \in 1 .. Len(lined) : j = Len(lines) + 1 + l /\ lines'[j].pos = here + lined[l]
        BY <2>1, <3>4
      <4>2. l < m
        BY <4>1, <3>2, <2>3, <1>1
      <4>3. lined[l] < lined[m] /\ lined[l] \in Int /\ lined[m] \in Int
        BY <4>2, <1>l
      <4>4. QED
        BY <4>1, <4>3, <3>2, <1>1
    <3>5. QED
      BY <3>3, <3>4
  <2>4. QED
    BY <2>2, <2>3
<1>16. \A k \in DOMAIN lines' : k \in 1 .. Len(lines) \/ k \in new
  BY <1>13, <1>1
<1> HIDE DEF new
<1>17. \A j, k \in DOMAIN lines' : j < k => lines'[j].pos < lines'[k].pos
  <2> SUFFICES ASSUME NEW j \in DOMAIN lines', NEW k \in DOMAIN lines', j < k
               PROVE  lines'[j].pos < lines'[k].pos
    OBVIOUS
  <2>1. CASE j \in 1 .. Len(lines) /\ k \in 1 .. Len(lines)
    BY <2>1, <1>1, <1>12 DEF Lined
  <2>2. CASE j \in 1 .. Len(lines) /\ k \in new
    BY <2>2, <1>1, <1>12, <1>14, <1>15
  <2>3. CASE j \in new /\ k \in new
    BY <2>3, <1>15
  <2>4. CASE j \in new /\ k \in 1 .. Len(lines)
    BY <2>4, <1>1 DEF new
  <2>5. QED
    BY <1>16, <2>1, <2>2, <2>3, <2>4
<1>18. ASSUME NEW k \in DOMAIN lines'
       PROVE  \E i \in DOMAIN written' :
                /\ written'[i].at <= lines'[k].pos /\ lines'[k].pos < EndOf(i)'
                /\ lines'[k].line = written'[i].line
  <2>1. CASE k \in 1 .. Len(lines)
    <3>1. PICK i \in 1 .. Len(written) :
            /\ written[i].at <= lines[k].pos /\ lines[k].pos < EndOf(i)
            /\ lines[k].line = written[i].line
      BY <2>1, <1>1 DEF Lined
    <3>2. i \in DOMAIN written' /\ written'[i] = written[i] /\ EndOf(i)' = EndOf(i)
      <4>1. i \in DOMAIN written'
        BY <1>1, <1>6
      <4>2. written'[i] = written[i]
        BY <1>5
      <4>3. EndOf(i)' = EndOf(i)
        BY <1>7
      <4>4. QED
        BY <4>1, <4>2, <4>3
    <3>3. QED
      BY <3>1, <3>2, <2>1, <1>12
  <2>2. CASE k \in new
    <3>1. last \in DOMAIN written'
      BY <1>1, <1>6
    <3>2. lines'[k].line = line /\ here <= lines'[k].pos /\ lines'[k].pos < Size'
      BY <2>2, <1>15
    <3>3. /\ written'[last].at = here /\ written'[last].line = line
          /\ EndOf(last)' = Size'
      BY <1>4, <1>5, <1>7
    <3>4. QED
      BY <3>1, <3>2, <3>3
  <2>3. QED
    BY <2>1, <2>2, <1>16
<1>19. ASSUME NEW i \in DOMAIN written'
       PROVE  \E k \in DOMAIN lines' : lines'[k].pos = written'[i].at
  <2>1. CASE i \in 1 .. Len(written)
    <3>1. PICK k \in 1 .. Len(lines) : lines[k].pos = written[i].at
      BY <2>1, <1>1 DEF Lined
    <3>2. k \in DOMAIN lines' /\ lines'[k] = lines[k]
      BY <1>1, <1>12, <1>13
    <3>3. QED
      BY <3>1, <3>2, <2>1, <1>5
  <2>2. CASE i = last
    <3>1. Len(lines) + 1 \in DOMAIN lines'
      BY <1>1, <1>13
    <3>2. QED
      BY <3>1, <2>2, <1>4, <1>5, <1>11, <1>12
  <2>3. i \in 1 .. Len(written) \/ i = last
    BY <1>1, <1>6
  <2>4. QED
    BY <2>1, <2>2, <2>3
<1>20. Lined'
  BY <1>17, <1>18, <1>19 DEF Lined
<1>21. QED
  BY <1>1, <1>2, <1>3, <1>5, <1>7, <1>8, <1>12, <1>20

-------------------------------------------------------------------------------
(* Instructions as they stand in the bytes: w from w.at up to e.           *)

Sizes == {1, 2, 4}

Operand(pos, size, n) ==
  /\ Fits(n, size)
  /\ \A k \in 1 .. size : ByteAt(pos + k - 1) = (n \div Weight[k]) % Byte

(* The opcode and the constant or number behind it, in either form.        *)
Headed(w, size) ==
  /\ \/ size = 1 /\ ByteAt(w.at) = Code(w.op)
     \/ w.op \in Params /\ size = LongSize(w.op) /\ ByteAt(w.at) = Code(Long(w.op))
  /\ Operand(w.at + 1, size, w.args[1])

AsPlain(w, e) ==
  w.op \in PlainOps /\ ByteAt(w.at) = Code(w.op) /\ w.args = <<>> /\ e = w.at + 1

AsSole(w, e) ==
  /\ w.op \in SoleOps /\ w.args = <<w.args[1]>>
  /\ \E size \in Sizes : Headed(w, size) /\ e = w.at + 1 + size

AsSuperInvoke(w, e) ==
  /\ w.op = "SUPER_INVOKE" /\ w.args = <<w.args[1], w.args[2]>>
  /\ \E size \in Sizes :
       Headed(w, size) /\ ByteAt(w.at + 1 + size) = w.args[2] /\ e = w.at + 2 + size

(* The name is cut to a byte.                                              *)
AsInvoke(w, e) ==
  /\ w.op = "INVOKE" /\ w.args = <<w.args[1], w.args[2]>> /\ w.args[1] \in Nat
  /\ ByteAt(w.at) = Code(w.op) /\ ByteAt(w.at + 1) = w.args[1] % Byte
  /\ ByteAt(w.at + 2) = w.args[2] /\ e = w.at + 3

AsClosure(w, e) ==
  /\ w.op = "CLOSURE" /\ w.args = <<w.args[1], w.args[2]>> /\ w.args[2] \in Upvals
  /\ \E size \in Sizes :
       /\ Headed(w, size)
       /\ \A k \in 1 .. Len(w.args[2]) :
            /\ ByteAt(w.at + size + 2 * k - 1) = w.args[2][k][1]
            /\ ByteAt(w.at + size + 2 * k) = w.args[2][k][2]
       /\ e = w.at + 1 + size + 2 * Len(w.args[2])

AsJump(w, e) ==
  /\ w.op \in {"JMP", "JMP_IF_FALSE"} /\ w.args = <<w.args[1]>> /\ w.args[1] \in Int
  /\ ByteAt(w.at) = Code(w.op) /\ e = w.at + 3
  /\ w.args # <<NoTarget>> => Operand(w.at + 1, 2, w.args[1] - (w.at + 3))

AsLoop(w, e) ==
  /\ w.op = "LOOP" /\ w.args = <<w.args[1]>> /\ w.args[1] \in Int
  /\ ByteAt(w.at) = Code(w.op) /\ e = w.at + 3
  /\ Operand(w.at + 1, 2, w.at + 3 - w.args[1])

Coded(w, e) ==
  \/ AsPlain(w, e) \/ AsSole(w, e) \/ AsSuperInvoke(w, e) \/ AsInvoke(w, e)
  \/ AsClosure(w, e) \/ AsJump(w, e) \/ AsLoop(w, e)

LEMMA UpvalsAre ==
  ASSUME NEW u \in Upvals
  PROVE  /\ Len(u) \in Nat /\ u \in Seq({0, 1} \X (0 .. Byte - 1))
         /\ u = [k \in 1 .. Len(u) |-> u[k]]
         /\ \A k \in 1 .. Len(u) : /\ u[k] = <<u[k][1], u[k][2]>>
                                   /\ u[k][1] \in 0 .. Byte - 1 /\ u[k][2] \in 0 .. Byte - 1
<1>1. PICK k \in 0 .. CapturedMax : u \in [1 .. k -> {0, 1} \X (Slots \cap 0 .. Byte - 1)]
  BY DEF Upvals
<1>2. k \in Nat
  BY ChunkAssumption
<1>3. u \in [1 .. k -> {0, 1} \X (0 .. Byte - 1)]
  BY <1>1
<1>4. u \in Seq({0, 1} \X (0 .. Byte - 1)) /\ Len(u) = k /\ u = [j \in 1 .. k |-> u[j]]
  BY <1>2, <1>3
<1>5. \A p \in {0, 1} \X (0 .. Byte - 1) :
        p = <<p[1], p[2]>> /\ p[1] \in 0 .. Byte - 1 /\ p[2] \in 0 .. Byte - 1
  BY DEF Byte
<1>6. \A j \in 1 .. k : u[j] \in {0, 1} \X (0 .. Byte - 1)
  BY <1>3
<1>7. QED
  BY <1>2, <1>4, <1>5, <1>6

-------------------------------------------------------------------------------
(* Reading.                                                                *)

OpHere(pos) ==
  LET code == OpAt(ByteAt(pos)) IN IF code \in LongOps THEN ShortOf(code) ELSE code
SizeHere(pos) ==
  IF OpAt(ByteAt(pos)) \in LongOps THEN LongSize(OpHere(pos)) ELSE 1

Read(op, args, next) == [op |-> op, args |-> args, next |-> next]

DecodeAs(pos, op, size, n) ==
  CASE op = "CLOSURE" ->
         Read(op, <<n, [k \in 1 .. UpvalCount(n) |->
            <<ByteAt(pos + 1 + size + 2 * k - 2), ByteAt(pos + 1 + size + 2 * k - 1)>>]>>,
          pos + 1 + size + 2 * UpvalCount(n))
    [] op \in {"INVOKE", "SUPER_INVOKE"} ->
         Read(op, <<n, ByteAt(pos + 1 + size)>>, pos + 1 + size + 1)
    [] op \in {"JMP", "JMP_IF_FALSE"} ->
         Read(op, <<pos + 3 + ReadBytes(pos + 1, 2)>>, pos + 3)
    [] op = "LOOP" -> Read(op, <<pos + 3 - ReadBytes(pos + 1, 2)>>, pos + 3)
    [] op \in SoleOps -> Read(op, <<n>>, pos + 1 + size)
    [] OTHER -> Read(op, <<>>, pos + 1)

LEMMA DecodeCases ==
  ASSUME NEW pos, NEW op, op = OpHere(pos), NEW size, size = SizeHere(pos),
         NEW n, n = ReadBytes(pos + 1, size)
  PROVE  Decode(pos) = DecodeAs(pos, op, size, n)
BY DEF Decode, DecodeAs, OpHere, SizeHere, Read

LEMMA DecodeIs ==
  ASSUME NEW pos, NEW op, op = OpHere(pos), NEW size, size = SizeHere(pos),
         NEW n, n = ReadBytes(pos + 1, size)
  PROVE  /\ op = "CLOSURE" =>
              Decode(pos) = Read(op, <<n, [k \in 1 .. UpvalCount(n) |->
                  <<ByteAt(pos + 1 + size + 2 * k - 2), ByteAt(pos + 1 + size + 2 * k - 1)>>]>>,
                pos + 1 + size + 2 * UpvalCount(n))
         /\ op \in {"JMP", "JMP_IF_FALSE"} =>
              Decode(pos) = Read(op, <<pos + 3 + ReadBytes(pos + 1, 2)>>, pos + 3)
         /\ op = "LOOP" =>
              Decode(pos) = Read(op, <<pos + 3 - ReadBytes(pos + 1, 2)>>, pos + 3)
         /\ op \in SoleOps => Decode(pos) = Read(op, <<n>>, pos + 1 + size)
         /\ op \in PlainOps => Decode(pos) = Read(op, <<>>, pos + 1)
<1>1. Decode(pos) = DecodeAs(pos, op, size, n)
  BY DecodeCases
<1>2. QED
  BY <1>1, Zenon DEF DecodeAs, SoleOps, PlainOps, ConstOps, LocalOps, UpvalOps

LEMMA DecodeSole ==
  ASSUME NEW pos, OpHere(pos) \in SoleOps
  PROVE  Decode(pos) = Read(OpHere(pos), <<ReadBytes(pos + 1, SizeHere(pos))>>,
                            pos + 1 + SizeHere(pos))
BY DecodeIs, Zenon

LEMMA DecodeInvoke ==
  ASSUME NEW pos, NEW op, op = OpHere(pos), NEW size, size = SizeHere(pos),
         NEW n, n = ReadBytes(pos + 1, size), op \in {"INVOKE", "SUPER_INVOKE"}
  PROVE  Decode(pos) = Read(op, <<n, ByteAt(pos + 1 + size)>>, pos + 1 + size + 1)
<1>1. op # "CLOSURE" /\ op \notin {"JMP", "JMP_IF_FALSE"} /\ op # "LOOP" /\ op \notin SoleOps
  BY DEF SoleOps, ConstOps, LocalOps, UpvalOps
<1>2. QED
  BY <1>1, DecodeCases DEF DecodeAs

LEMMA DecodeClosure ==
  ASSUME NEW pos, OpHere(pos) = "CLOSURE", NEW size, size = SizeHere(pos),
         NEW n, n = ReadBytes(pos + 1, size), NEW count, count = UpvalCount(n)
  PROVE  Decode(pos) = Read("CLOSURE", <<n, [k \in 1 .. count |->
                  <<ByteAt(pos + 1 + size + 2 * k - 2), ByteAt(pos + 1 + size + 2 * k - 1)>>]>>,
                pos + 1 + size + 2 * count)
<1>1. OpHere(pos) = "CLOSURE" =>
        Decode(pos) = Read(OpHere(pos), <<n, [k \in 1 .. UpvalCount(n) |->
                  <<ByteAt(pos + 1 + size + 2 * k - 2), ByteAt(pos + 1 + size + 2 * k - 1)>>]>>,
                pos + 1 + size + 2 * UpvalCount(n))
  BY DecodeIs, Zenon
<1>2. QED
  BY <1>1

LEMMA DecodeJumps ==
  ASSUME NEW pos
  PROVE  /\ OpHere(pos) \in {"JMP", "JMP_IF_FALSE"} =>
              Decode(pos) = Read(OpHere(pos), <<pos + 3 + ReadBytes(pos + 1, 2)>>, pos + 3)
         /\ OpHere(pos) = "LOOP" =>
              Decode(pos) = Read(OpHere(pos), <<pos + 3 - ReadBytes(pos + 1, 2)>>, pos + 3)
         /\ OpHere(pos) \in PlainOps => Decode(pos) = Read(OpHere(pos), <<>>, pos + 1)
BY DecodeIs, Zenon

LEMMA Plainly ==
  ASSUME NEW pos, NEW op \in Emitted, ByteAt(pos) = Code(op)
  PROVE  OpAt(ByteAt(pos)) = op /\ op \notin LongOps /\ OpHere(pos) = op /\ SizeHere(pos) = 1
BY ShortCode DEF OpHere, SizeHere

LEMMA SumOfOperand ==
  ASSUME NEW pos \in Nat, NEW size \in Sizes, NEW n, Operand(pos, size, n)
  PROVE  ReadBytes(pos, size) = n /\ n \in Nat
BY SumOfDigits DEF Operand, Sizes, Fits

LEMMA HeadIsRead ==
  ASSUME NEW w \in Instr, NEW size \in Sizes, Headed(w, size)
  PROVE  /\ OpHere(w.at) = w.op /\ SizeHere(w.at) = size
         /\ ReadBytes(w.at + 1, size) = w.args[1] /\ w.args[1] \in Nat
         /\ OpAt(ByteAt(w.at)) \notin LongOps => OpAt(ByteAt(w.at)) = w.op /\ size = 1
<1>1. w.at \in Nat /\ w.at + 1 \in Nat /\ w.op \in Emitted
  BY DEF Instr
<1>2. ReadBytes(w.at + 1, size) = w.args[1] /\ w.args[1] \in Nat
  BY <1>1, SumOfOperand DEF Headed
<1>3. CASE size = 1 /\ ByteAt(w.at) = Code(w.op)
  BY <1>1, <1>2, <1>3, Plainly
<1>4. CASE w.op \in Params /\ size = LongSize(w.op) /\ ByteAt(w.at) = Code(Long(w.op))
  BY <1>2, <1>4, LongCode DEF OpHere, SizeHere
<1>5. QED
  BY <1>3, <1>4 DEF Headed

Exact(w) == ~(w.op = "INVOKE" /\ ~Short(w.args[1]))

LEMMA Reading ==
  ASSUME NEW w \in Instr, NEW e, Coded(w, e),
         w.op = "CLOSURE" => UpvalCount(w.args[1]) = Len(w.args[2]),
         Exact(w), NEW d, d = Decode(w.at)
  PROVE  /\ d.op = w.op /\ d.next = e
         /\ w.args # <<NoTarget>> => d.args = w.args
         /\ w.op \in ConstOps => d.args = w.args
<1>1. w.at \in Nat /\ w.op \in Emitted
  BY DEF Instr
<1>2. CASE AsPlain(w, e)
  <2>1. OpHere(w.at) = w.op
    BY <1>1, <1>2, Plainly DEF AsPlain
  <2>2. d = Read(w.op, <<>>, w.at + 1)
    BY <1>2, <2>1, DecodeJumps DEF AsPlain
  <2>3. QED
    BY <1>2, <2>2 DEF AsPlain, Read
<1>3. CASE AsSole(w, e)
  <2>1. PICK size \in Sizes : Headed(w, size) /\ e = w.at + 1 + size
    BY <1>3 DEF AsSole
  <2>2. /\ OpHere(w.at) = w.op /\ SizeHere(w.at) = size
        /\ ReadBytes(w.at + 1, size) = w.args[1]
    BY <2>1, HeadIsRead
  <2>3. d = Read(w.op, <<w.args[1]>>, w.at + 1 + size)
    BY <1>3, <2>2, DecodeSole DEF AsSole
  <2>4. QED
    BY <1>3, <2>1, <2>3 DEF AsSole, Read
<1>4. CASE AsSuperInvoke(w, e)
  <2>1. PICK size \in Sizes :
          Headed(w, size) /\ ByteAt(w.at + 1 + size) = w.args[2] /\ e = w.at + 2 + size
    BY <1>4 DEF AsSuperInvoke
  <2>2. /\ OpHere(w.at) = w.op /\ SizeHere(w.at) = size
        /\ ReadBytes(w.at + 1, size) = w.args[1]
    BY <2>1, HeadIsRead
  <2>3. d = Read(w.op, <<w.args[1], ByteAt(w.at + 1 + size)>>, w.at + 1 + size + 1)
    BY <1>4, <2>2, DecodeInvoke DEF AsSuperInvoke
  <2>4. w.at + 1 + size + 1 = e
    BY <1>1, <2>1 DEF Sizes
  <2>5. QED
    BY <1>4, <2>1, <2>3, <2>4 DEF AsSuperInvoke, Read
<1>5. CASE AsInvoke(w, e)
  <2>1. OpHere(w.at) = w.op /\ SizeHere(w.at) = 1
    BY <1>1, <1>5, Plainly DEF AsInvoke
  <2>2. w.args[1] \in Nat /\ w.args[1] < Byte
    BY <1>5 DEF AsInvoke, Exact, Short
  <2>3. Operand(w.at + 1, 1, w.args[1])
    <3>1. w.args[1] \div 1 = w.args[1] /\ w.at + 1 + 1 - 1 = w.at + 1
      BY <1>1, <2>2
    <3>2. QED
      BY <1>5, <2>2, <3>1, WeightIs DEF Operand, Fits, AsInvoke
  <2>4. ReadBytes(w.at + 1, 1) = w.args[1]
    BY <1>1, <2>3, SumOfOperand DEF Sizes
  <2>5. d = Read(w.op, <<w.args[1], ByteAt(w.at + 1 + 1)>>, w.at + 1 + 1 + 1)
    BY <1>5, <2>1, <2>4, DecodeInvoke DEF AsInvoke
  <2>6. w.at + 1 + 1 = w.at + 2 /\ w.at + 1 + 1 + 1 = w.at + 3
    BY <1>1
  <2>7. QED
    BY <1>5, <2>5, <2>6 DEF AsInvoke, Read
<1>6. CASE AsClosure(w, e)
  <2> DEFINE u == w.args[2]
  <2>1. PICK size \in Sizes :
          /\ Headed(w, size)
          /\ \A k \in 1 .. Len(u) : /\ ByteAt(w.at + size + 2 * k - 1) = u[k][1]
                                    /\ ByteAt(w.at + size + 2 * k) = u[k][2]
          /\ e = w.at + 1 + size + 2 * Len(u)
    BY <1>6 DEF AsClosure
  <2>2. /\ OpHere(w.at) = w.op /\ SizeHere(w.at) = size
        /\ ReadBytes(w.at + 1, size) = w.args[1]
    BY <2>1, HeadIsRead
  <2>3. UpvalCount(w.args[1]) = Len(u) /\ w.op = "CLOSURE"
    BY <1>6 DEF AsClosure
  <2> DEFINE v == [k \in 1 .. Len(u) |->
                <<ByteAt(w.at + 1 + size + 2 * k - 2), ByteAt(w.at + 1 + size + 2 * k - 1)>>]
  <2>4. d = Read(w.op, <<w.args[1], v>>, w.at + 1 + size + 2 * Len(u))
    <3>1. PICK pos : pos = w.at
      OBVIOUS
    <3>2. PICK n : n = w.args[1]
      OBVIOUS
    <3>3. PICK count : count = Len(u)
      OBVIOUS
    <3>4. /\ OpHere(pos) = "CLOSURE" /\ size = SizeHere(pos)
          /\ n = ReadBytes(pos + 1, size) /\ count = UpvalCount(n)
      BY <2>2, <2>3, <3>1, <3>2, <3>3
    <3>5. Decode(pos) = Read("CLOSURE", <<n, [k \in 1 .. count |->
             <<ByteAt(pos + 1 + size + 2 * k - 2), ByteAt(pos + 1 + size + 2 * k - 1)>>]>>,
             pos + 1 + size + 2 * count)
      BY <3>4, DecodeClosure, Zenon
    <3>6. QED
      BY <2>3, <3>1, <3>2, <3>3, <3>5
  <2>5. /\ u = [k \in 1 .. Len(u) |-> u[k]] /\ Len(u) \in Nat
        /\ \A k \in 1 .. Len(u) : u[k] = <<u[k][1], u[k][2]>>
    BY <1>6, UpvalsAre DEF AsClosure
  <2>6. ASSUME NEW k \in 1 .. Len(u)
        PROVE  <<ByteAt(w.at + 1 + size + 2 * k - 2), ByteAt(w.at + 1 + size + 2 * k - 1)>> = u[k]
    <3>1. /\ w.at + 1 + size + 2 * k - 2 = w.at + size + 2 * k - 1
          /\ w.at + 1 + size + 2 * k - 1 = w.at + size + 2 * k
      <4>1. size \in Nat /\ k \in Nat
        BY <2>5 DEF Sizes
      <4>2. QED
        BY <1>1, <4>1
    <3>2. QED
      BY <2>1, <2>5, <3>1
  <2>7. v = u
    BY <2>5, <2>6
  <2> HIDE DEF u, v
  <2>8. w.args = <<w.args[1], u>> /\ e = w.at + 1 + size + 2 * Len(u)
    BY <1>6, <2>1 DEF AsClosure, u
  <2>9. QED
    BY <2>4, <2>7, <2>8 DEF Read
<1>7. CASE AsJump(w, e)
  <2>1. OpHere(w.at) = w.op
    BY <1>1, <1>7, Plainly DEF AsJump
  <2>2. d = Read(w.op, <<w.at + 3 + ReadBytes(w.at + 1, 2)>>, w.at + 3)
    BY <1>7, <2>1, DecodeJumps DEF AsJump
  <2>3. w.op \notin ConstOps
    BY <1>7 DEF AsJump, ConstOps
  <2>4. ASSUME w.args # <<NoTarget>>
        PROVE  w.at + 3 + ReadBytes(w.at + 1, 2) = w.args[1]
    <3>1. ReadBytes(w.at + 1, 2) = w.args[1] - (w.at + 3)
      BY <1>1, <1>7, <2>4, SumOfOperand DEF AsJump, Sizes
    <3>2. QED
      BY <3>1, <1>1, <1>7 DEF AsJump
  <2>5. QED
    BY <1>7, <2>2, <2>3, <2>4 DEF AsJump, Read
<1>8. CASE AsLoop(w, e)
  <2>1. OpHere(w.at) = w.op
    BY <1>1, <1>8, Plainly DEF AsLoop
  <2>2. d = Read(w.op, <<w.at + 3 - ReadBytes(w.at + 1, 2)>>, w.at + 3)
    BY <1>8, <2>1, DecodeJumps DEF AsLoop
  <2>3. ReadBytes(w.at + 1, 2) = w.at + 3 - w.args[1]
    BY <1>1, <1>8, SumOfOperand DEF AsLoop, Sizes
  <2>4. w.at + 3 - ReadBytes(w.at + 1, 2) = w.args[1]
    BY <2>3, <1>1, <1>8 DEF AsLoop
  <2>5. QED
    BY <1>8, <2>2, <2>4 DEF AsLoop, Read
<1>9. QED
  BY <1>2, <1>3, <1>4, <1>5, <1>6, <1>7, <1>8 DEF Coded

LEMMA DisassembleIs ==
  ASSUME NEW pos, NEW op, op = OpAt(ByteAt(pos)), op \notin LongOps
  PROVE  /\ op = "CLOSURE" => Disassemble(pos) = pos + 2 + 2 * UpvalCount(ByteAt(pos + 1))
         /\ op \in JumpOps \cup {"INVOKE", "SUPER_INVOKE"} => Disassemble(pos) = pos + 3
         /\ op \in SoleOps => Disassemble(pos) = pos + 2
         /\ op \in PlainOps => Disassemble(pos) = pos + 1
<1>1. Disassemble(pos) =
        CASE op = "CLOSURE" -> pos + 2 + 2 * UpvalCount(ByteAt(pos + 1))
          [] op \in JumpOps \cup {"INVOKE", "SUPER_INVOKE", "INVOKE_LONG", "SUPER_INVOKE_LONG"} ->
               pos + 3
          [] op \in SoleOps -> pos + 2
          [] op \in {"CONST_LONG", "CLOSURE_LONG", "CLASS_LONG", "GET_PROPERTY_LONG",
                     "SET_PROPERTY_LONG", "METHOD_LONG", "GET_SUPER_LONG"} -> pos + 4
          [] OTHER -> pos + 1
  BY DEF Disassemble
<1>2. QED
  BY <1>1, Zenon DEF SoleOps, PlainOps, ConstOps, LocalOps, UpvalOps, JumpOps

LEMMA Disassembling ==
  ASSUME NEW w \in Instr, NEW e, Coded(w, e), OpAt(ByteAt(w.at)) \notin LongOps,
         w.op = "CLOSURE" => UpvalCount(w.args[1]) = Len(w.args[2])
  PROVE  Disassemble(w.at) = e
<1>1. w.at \in Nat /\ w.op \in Emitted
  BY DEF Instr
<1>2. CASE AsPlain(w, e)
  BY <1>1, <1>2, Plainly, DisassembleIs DEF AsPlain
<1>3. CASE AsSole(w, e)
  <2>1. PICK size \in Sizes : Headed(w, size) /\ e = w.at + 1 + size
    BY <1>3 DEF AsSole
  <2>2. OpAt(ByteAt(w.at)) = w.op /\ size = 1
    BY <2>1, HeadIsRead
  <2>3. QED
    BY <1>1, <1>3, <2>1, <2>2, DisassembleIs DEF AsSole
<1>4. CASE AsSuperInvoke(w, e)
  <2>1. PICK size \in Sizes : Headed(w, size) /\ e = w.at + 2 + size
    BY <1>4 DEF AsSuperInvoke
  <2>2. OpAt(ByteAt(w.at)) = w.op /\ size = 1
    BY <2>1, HeadIsRead
  <2>3. QED
    BY <1>1, <1>4, <2>1, <2>2, DisassembleIs DEF AsSuperInvoke
<1>5. CASE AsInvoke(w, e)
  BY <1>1, <1>5, Plainly, DisassembleIs DEF AsInvoke
<1>6. CASE AsClosure(w, e)
  <2>1. PICK size \in Sizes : Headed(w, size) /\ e = w.at + 1 + size + 2 * Len(w.args[2])
    BY <1>6 DEF AsClosure
  <2>2. /\ OpAt(ByteAt(w.at)) = w.op /\ size = 1
        /\ ReadBytes(w.at + 1, 1) = w.args[1]
    BY <2>1, HeadIsRead
  <2>3. ByteAt(w.at + 1) = w.args[1]
    <3>1. Operand(w.at + 1, 1, w.args[1]) /\ w.at + 1 + 1 - 1 = w.at + 1
      BY <1>1, <2>1, <2>2 DEF Headed
    <3>2. /\ w.args[1] \in Nat /\ w.args[1] \div 1 < 256
          /\ ByteAt(w.at + 1) = (w.args[1] \div 1) % 256
      BY <3>1, WeightIs DEF Operand, Fits
    <3>3. QED
      BY <3>2
  <2>4. Len(w.args[2]) \in Nat /\ w.op = "CLOSURE"
    BY <1>6, UpvalsAre DEF AsClosure
  <2>5. Disassemble(w.at) = w.at + 2 + 2 * Len(w.args[2])
    BY <2>2, <2>3, <2>4, DisassembleIs
  <2>6. QED
    BY <1>1, <2>1, <2>2, <2>4, <2>5
<1>7. CASE AsJump(w, e)
  BY <1>1, <1>7, Plainly, DisassembleIs DEF AsJump, JumpOps
<1>8. CASE AsLoop(w, e)
  BY <1>1, <1>8, Plainly, DisassembleIs DEF AsLoop, JumpOps
<1>9. QED
  BY <1>2, <1>3, <1>4, <1>5, <1>6, <1>7, <1>8 DEF Coded

-------------------------------------------------------------------------------
(* What is written stays as it is meant.                                   *)

LEMMA Ends ==
  ASSUME Typed, Ordered
  PROVE  \A i \in 1 .. Len(written) :
           /\ EndOf(i) \in Nat /\ written[i].at \in Nat
           /\ written[i].at < EndOf(i) /\ EndOf(i) <= Size
           /\ \A j \in 1 .. Len(written) : i < j => EndOf(i) <= written[j].at
<1>1. /\ Size \in Nat /\ Len(written) \in Nat /\ DOMAIN written = 1 .. Len(written)
      /\ \A i \in 1 .. Len(written) : written[i].at \in Nat
  BY WrittenTyped
<1>2. SUFFICES ASSUME NEW i \in 1 .. Len(written)
               PROVE  /\ EndOf(i) \in Nat /\ written[i].at < EndOf(i) /\ EndOf(i) <= Size
                      /\ \A j \in 1 .. Len(written) : i < j => EndOf(i) <= written[j].at
  BY <1>1
<1>3. CASE i < Len(written)
  <2>1. i + 1 \in 1 .. Len(written) /\ EndOf(i) = written[i + 1].at
    BY <1>1, <1>3 DEF EndOf
  <2>2. EndOf(i) \in Nat /\ written[i].at < EndOf(i) /\ EndOf(i) < Size
    BY <1>1, <2>1 DEF Ordered
  <2>3. ASSUME NEW j \in 1 .. Len(written), i < j
        PROVE  EndOf(i) <= written[j].at
    <3>1. j = i + 1 \/ i + 1 < j
      BY <1>1, <2>3
    <3>2. CASE j = i + 1
      BY <3>2, <2>1, <1>1
    <3>3. CASE i + 1 < j
      <4>1. written[i + 1].at < written[j].at
        BY <3>3, <2>1, <1>1 DEF Ordered
      <4>2. written[i + 1].at \in Nat /\ written[j].at \in Nat
        BY <2>1, <1>1
      <4>3. QED
        BY <4>1, <4>2, <2>1
    <3>4. QED
      BY <3>1, <3>2, <3>3
  <2>4. QED
    BY <1>1, <2>2, <2>3
<1>4. CASE ~(i < Len(written))
  <2>1. EndOf(i) = Size /\ \A j \in 1 .. Len(written) : ~(i < j)
    BY <1>1, <1>4 DEF EndOf
  <2>2. QED
    BY <1>1, <2>1 DEF Ordered
<1>5. QED
  BY <1>3, <1>4

LEMMA Descriptor ==
  ASSUME NEW a \in Nat, NEW size \in Nat, NEW count \in Nat,
         NEW k \in Nat, 1 <= k, k <= count
  PROVE  /\ a + size + 2 * k - 1 \in Nat /\ a <= a + size + 2 * k - 1
         /\ a + size + 2 * k - 1 < a + 1 + size + 2 * count
         /\ a + size + 2 * k \in Nat /\ a <= a + size + 2 * k
         /\ a + size + 2 * k < a + 1 + size + 2 * count
OBVIOUS

LEMMA KeptHead ==
  ASSUME NEW w \in Instr, NEW size \in Sizes, Headed(w, size),
         \A p \in Nat : w.at <= p /\ p < w.at + 1 + size => ByteAt(p)' = ByteAt(p)
  PROVE  Headed(w, size)'
<1>1. w.at \in Nat /\ size \in Nat /\ size >= 1
  BY DEF Instr, Sizes
<1>2. ByteAt(w.at)' = ByteAt(w.at)
  BY <1>1
<1>3. \A k \in 1 .. size : ByteAt(w.at + 1 + k - 1)' = ByteAt(w.at + 1 + k - 1)
  <2> TAKE k \in 1 .. size
  <2>1. /\ w.at + 1 + k - 1 \in Nat /\ w.at <= w.at + 1 + k - 1
        /\ w.at + 1 + k - 1 < w.at + 1 + size
    BY <1>1
  <2>2. QED
    BY <2>1
<1>4. Operand(w.at + 1, size, w.args[1])'
  BY <1>3 DEF Headed, Operand
<1>5. QED
  BY <1>2, <1>4 DEF Headed

LEMMA Kept ==
  ASSUME NEW w \in Instr, NEW e, Coded(w, e),
         \A p \in Nat : w.at <= p /\ p < e => ByteAt(p)' = ByteAt(p)
  PROVE  Coded(w, e)'
<1>1. w.at \in Nat
  BY DEF Instr
<1>s. \A size \in Sizes : size \in Nat
  BY DEF Sizes
<1>2. CASE AsPlain(w, e)
  <2>1. ByteAt(w.at)' = ByteAt(w.at)
    BY <1>1, <1>2 DEF AsPlain
  <2>2. AsPlain(w, e)'
    BY <1>2, <2>1 DEF AsPlain
  <2>3. QED
    BY <2>2 DEF Coded
<1>3. CASE AsSole(w, e)
  <2>1. PICK size \in Sizes : Headed(w, size) /\ e = w.at + 1 + size
    BY <1>3 DEF AsSole
  <2>2. Headed(w, size)'
    BY <2>1, KeptHead
  <2>3. AsSole(w, e)'
    BY <1>3, <2>1, <2>2 DEF AsSole
  <2>4. QED
    BY <2>3 DEF Coded
<1>4. CASE AsSuperInvoke(w, e)
  <2>1. PICK size \in Sizes :
          Headed(w, size) /\ ByteAt(w.at + 1 + size) = w.args[2] /\ e = w.at + 2 + size
    BY <1>4 DEF AsSuperInvoke
  <2>2. \A p \in Nat : w.at <= p /\ p < w.at + 1 + size => ByteAt(p)' = ByteAt(p)
    BY <1>1, <1>s, <2>1
  <2>3. Headed(w, size)'
    BY <2>1, <2>2, KeptHead
  <2>4. w.at + 1 + size \in Nat /\ w.at <= w.at + 1 + size /\ w.at + 1 + size < e
    BY <1>1, <1>s, <2>1
  <2>5. ByteAt(w.at + 1 + size)' = ByteAt(w.at + 1 + size)
    BY <2>4
  <2>6. AsSuperInvoke(w, e)'
    BY <1>4, <2>1, <2>3, <2>5 DEF AsSuperInvoke
  <2>7. QED
    BY <2>6 DEF Coded
<1>5. CASE AsInvoke(w, e)
  <2>1. /\ ByteAt(w.at)' = ByteAt(w.at) /\ ByteAt(w.at + 1)' = ByteAt(w.at + 1)
        /\ ByteAt(w.at + 2)' = ByteAt(w.at + 2)
    BY <1>1, <1>5 DEF AsInvoke
  <2>2. AsInvoke(w, e)'
    BY <1>5, <2>1 DEF AsInvoke
  <2>3. QED
    BY <2>2 DEF Coded
<1>6. CASE AsClosure(w, e)
  <2>1. PICK size \in Sizes :
          /\ Headed(w, size)
          /\ \A k \in 1 .. Len(w.args[2]) :
               /\ ByteAt(w.at + size + 2 * k - 1) = w.args[2][k][1]
               /\ ByteAt(w.at + size + 2 * k) = w.args[2][k][2]
          /\ e = w.at + 1 + size + 2 * Len(w.args[2])
    BY <1>6 DEF AsClosure
  <2>2. PICK count : count = Len(w.args[2]) /\ count \in Nat
    BY <1>6, UpvalsAre DEF AsClosure
  <2>3. e = w.at + 1 + size + 2 * count /\ size \in Nat
    BY <1>s, <2>1, <2>2
  <2>4. \A p \in Nat : w.at <= p /\ p < w.at + 1 + size => ByteAt(p)' = ByteAt(p)
    <3>1. w.at + 1 + size \in Nat /\ e \in Nat /\ w.at + 1 + size <= e
      <4>1. \A a, b, c \in Nat : /\ a + 1 + b \in Nat /\ a + 1 + b + 2 * c \in Nat
                                /\ a + 1 + b <= a + 1 + b + 2 * c
        OBVIOUS
      <4>2. w.at \in Nat /\ size \in Nat /\ count \in Nat
        BY <1>1, <2>2, <2>3
      <4>3. QED
        BY <4>1, <4>2, <2>3
    <3>2. \A p \in Nat : p < w.at + 1 + size => p < e
      BY <3>1
    <3>3. QED
      BY <3>2
  <2>5. Headed(w, size)'
    BY <2>1, <2>4, KeptHead
  <2>6. ASSUME NEW k \in 1 .. count
        PROVE  /\ ByteAt(w.at + size + 2 * k - 1)' = ByteAt(w.at + size + 2 * k - 1)
               /\ ByteAt(w.at + size + 2 * k)' = ByteAt(w.at + size + 2 * k)
    <3>1. /\ w.at + size + 2 * k - 1 \in Nat /\ w.at <= w.at + size + 2 * k - 1
          /\ w.at + size + 2 * k - 1 < e
          /\ w.at + size + 2 * k \in Nat /\ w.at <= w.at + size + 2 * k
          /\ w.at + size + 2 * k < e
      <4>1. k \in Nat /\ 1 <= k /\ k <= count
        BY <2>2
      <4>2. PICK a \in Nat : a = w.at
        BY <1>1
      <4>3. e = a + 1 + size + 2 * count /\ size \in Nat
        BY <4>2, <2>3
      <4>4. /\ a + size + 2 * k - 1 \in Nat /\ a <= a + size + 2 * k - 1
            /\ a + size + 2 * k - 1 < a + 1 + size + 2 * count
            /\ a + size + 2 * k \in Nat /\ a <= a + size + 2 * k
            /\ a + size + 2 * k < a + 1 + size + 2 * count
        BY <4>1, <4>3, <2>2, Descriptor
      <4>5. QED
        BY <4>2, <4>3, <4>4
    <3>2. QED
      BY <3>1
  <2>7. \A k \in 1 .. Len(w.args[2]) :
          /\ ByteAt(w.at + size + 2 * k - 1)' = w.args[2][k][1]
          /\ ByteAt(w.at + size + 2 * k)' = w.args[2][k][2]
    BY <2>1, <2>2, <2>6
  <2>8. AsClosure(w, e)'
    BY <1>6, <2>1, <2>5, <2>7 DEF AsClosure
  <2>9. QED
    BY <2>8 DEF Coded
<1>t. \A n : e = w.at + 3 /\ Operand(w.at + 1, 2, n) => Operand(w.at + 1, 2, n)'
  <2> SUFFICES ASSUME NEW n, e = w.at + 3, Operand(w.at + 1, 2, n)
               PROVE  Operand(w.at + 1, 2, n)'
    OBVIOUS
  <2>1. \A k \in 1 .. 2 : ByteAt(w.at + 1 + k - 1)' = ByteAt(w.at + 1 + k - 1)
    <3> TAKE k \in 1 .. 2
    <3>1. /\ w.at + 1 + k - 1 \in Nat /\ w.at <= w.at + 1 + k - 1
          /\ w.at + 1 + k - 1 < e
      BY <1>1
    <3>2. QED
      BY <3>1
  <2>2. QED
    BY <2>1 DEF Operand
<1>7. CASE AsJump(w, e)
  <2>1. ByteAt(w.at)' = ByteAt(w.at)
    BY <1>1, <1>7 DEF AsJump
  <2>2. AsJump(w, e)'
    BY <1>7, <1>t, <2>1 DEF AsJump
  <2>3. QED
    BY <2>2 DEF Coded
<1>8. CASE AsLoop(w, e)
  <2>1. ByteAt(w.at)' = ByteAt(w.at)
    BY <1>1, <1>8 DEF AsLoop
  <2>2. AsLoop(w, e)'
    BY <1>8, <1>t, <2>1 DEF AsLoop
  <2>3. QED
    BY <2>2 DEF Coded
<1>9. QED
  BY <1>2, <1>3, <1>4, <1>5, <1>6, <1>7, <1>8 DEF Coded

-------------------------------------------------------------------------------
(* The invariant.                                                          *)

Closes(i) == written[i].op = "CLOSURE"

(* Each instruction is in the bytes as it was meant; constants and names   *)
(* are in the pool; no two closures have one constant.                     *)
Meant ==
  /\ \A i \in DOMAIN written : Coded(written[i], EndOf(i))
  /\ \A i \in DOMAIN written : Constant(i) => written[i].args[1] \in 0 .. pool - 1
  /\ names \subseteq 0 .. pool - 1
  /\ \A i, j \in DOMAIN written :
       Closes(i) /\ Closes(j) /\ written[i].args[1] = written[j].args[1] => i = j

ChunkInv == Typed /\ Ordered /\ Lined /\ (~reported => Meant)

(* An instruction that is written as it is meant keeps all of it.          *)
LEMMA Writing ==
  ASSUME ChunkInv, ~reported,
         NEW op, Code(op) \in 0 .. Byte - 1, NEW operand \in Seq(0 .. Byte - 1),
         NEW lined \in Seq(1 .. Len(operand)),
         \A j, k \in DOMAIN lined : j < k => lined[j] < lined[k],
         NEW w \in Instr, w.at = Size, NEW e, e = Size + 1 + Len(operand),
         Write(op, operand, lined, w.line, w.op, w.args),
         pool' \in pool .. PoolMax, names' = names, reported' \in BOOLEAN,
         ~reported' =>
           /\ Coded(w, e)'
           /\ w.op \in ConstOps => w.args[1] \in 0 .. pool' - 1
           /\ w.op = "CLOSURE" => w.args[1] = pool
  PROVE  ChunkInv'
<1>1. Typed /\ Ordered /\ Lined /\ Meant
  BY DEF ChunkInv
<1>2. w.op \in Emitted /\ w.args \in Args /\ w.line \in Line /\ w.at \in Nat
  BY DEF Instr
<1>3. PICK here : here = Size
  OBVIOUS
<1>4. PICK last : last = Len(written) + 1
  OBVIOUS
<1>5. /\ here \in Nat /\ Len(operand) \in Nat
      /\ bytes' \in Seq(0 .. Byte - 1)
      /\ lines' \in Seq(LineInfo)
      /\ written' \in Seq(Instr)
      /\ Size' = here + 1 + Len(operand)
      /\ \A k \in 1 .. here : bytes'[k] = bytes[k]
      /\ Len(written') = Len(written) + 1
      /\ \A i \in 1 .. Len(written) : written'[i] = written[i] /\ EndOf(i)' = EndOf(i)
      /\ written'[last] = [at |-> here, op |-> w.op, args |-> w.args, line |-> w.line]
      /\ EndOf(last)' = Size'
      /\ Ordered'
      /\ Lined'
  BY <1>1, <1>2, <1>3, <1>4, WriteGrows, SMTT(30)
<1>6. written'[last] = w
  <2>1. w = [at |-> w.at, op |-> w.op, args |-> w.args, line |-> w.line]
    BY DEF Instr
  <2>2. QED
    BY <2>1, <1>3, <1>5
<1>7. Typed'
  <2>1. pool \in 0 .. PoolMax /\ PoolMax \in Nat /\ names \subseteq Nat
    BY <1>1, ChunkAssumption DEF Typed, Fits
  <2>2. pool' \in 0 .. PoolMax
    BY <2>1
  <2>3. QED
    BY <1>5, <2>1, <2>2 DEF Typed
<1>8. /\ Len(written) \in Nat /\ DOMAIN written = 1 .. Len(written)
      /\ \A i \in 1 .. Len(written) : written[i] \in Instr
  BY <1>1, WrittenTyped
<1>9. DOMAIN written' = 1 .. Len(written) + 1
  BY <1>5, LenProperties
<1>10. \A i \in DOMAIN written' : i \in 1 .. Len(written) \/ i = last
  BY <1>4, <1>8, <1>9
<1>11. ASSUME ~reported'
       PROVE  Meant'
  <2>1. ASSUME NEW i \in DOMAIN written'
        PROVE  Coded(written[i], EndOf(i))'
    <3>1. CASE i \in 1 .. Len(written)
      <4>1. PICK v \in Instr : v = written[i]
        BY <3>1, <1>8
      <4>2. PICK end : end = EndOf(i)
        OBVIOUS
      <4>3. Coded(v, end)
        BY <4>1, <4>2, <3>1, <1>1, <1>8 DEF Meant
      <4>4. end \in Nat /\ end <= here
        BY <4>2, <3>1, <1>1, <1>3, Ends
      <4>5. ASSUME NEW p \in Nat, p < end
            PROVE  ByteAt(p)' = ByteAt(p)
        <5>1. p + 1 \in 1 .. here
          BY <4>4, <4>5, <1>5
        <5>2. QED
          BY <5>1, <1>5 DEF ByteAt
      <4>6. Coded(v, end)'
        BY <4>3, <4>5, Kept
      <4>7. v = written'[i] /\ end = EndOf(i)'
        BY <4>1, <4>2, <3>1, <1>5
      <4>8. QED
        BY <4>6, <4>7
    <3>2. CASE i = last
      <4>1. Coded(w, e)' /\ w = written'[i] /\ e = EndOf(i)'
        BY <3>2, <1>3, <1>5, <1>6, <1>11
      <4>2. QED
        BY <4>1
    <3>3. QED
      BY <3>1, <3>2, <1>10
  <2>2. pool \in Nat /\ pool' \in Nat /\ pool <= pool'
    BY <1>1 DEF Typed
  <2>3. ASSUME NEW i \in DOMAIN written', Constant(i)'
        PROVE  written'[i].args[1] \in 0 .. pool' - 1
    <3>1. CASE i \in 1 .. Len(written)
      <4>1. written[i].args[1] \in 0 .. pool - 1 /\ written'[i] = written[i]
        BY <2>3, <3>1, <1>1, <1>5, <1>8 DEF Meant, Constant
      <4>2. QED
        BY <4>1, <2>2
    <3>2. CASE i = last
      BY <2>3, <3>2, <1>6, <1>11 DEF Constant
    <3>3. QED
      BY <3>1, <3>2, <1>10
  <2>4. names' \subseteq 0 .. pool' - 1
    <3>1. names \subseteq 0 .. pool - 1
      BY <1>1 DEF Meant
    <3>2. 0 .. pool - 1 \subseteq 0 .. pool' - 1
      BY <2>2
    <3>3. QED
      BY <3>1, <3>2
  <2>5. ASSUME NEW i \in DOMAIN written', NEW j \in DOMAIN written',
               Closes(i)', Closes(j)', written'[i].args[1] = written'[j].args[1]
        PROVE  i = j
    <3>1. ASSUME NEW k \in 1 .. Len(written), Closes(k)'
          PROVE  written'[k].args[1] # pool /\ Closes(k) /\ written'[k] = written[k]
      <4>1. Closes(k) /\ written'[k] = written[k]
        BY <3>1, <1>5 DEF Closes
      <4>2. Constant(k)
        BY <4>1 DEF Closes, Constant, ConstOps
      <4>3. written[k].args[1] \in 0 .. pool - 1
        BY <4>2, <1>1, <1>8 DEF Meant
      <4>4. QED
        BY <4>1, <4>3, <2>2
    <3>2. Closes(last)' => written'[last].args[1] = pool
      BY <1>6, <1>11 DEF Closes
    <3>3. CASE i \in 1 .. Len(written) /\ j \in 1 .. Len(written)
      BY <3>1, <3>3, <2>5, <1>1, <1>8 DEF Meant
    <3>4. CASE i \in 1 .. Len(written) /\ j = last
      BY <3>1, <3>2, <3>4, <2>5
    <3>5. CASE i = last /\ j \in 1 .. Len(written)
      BY <3>1, <3>2, <3>5, <2>5
    <3>6. QED
      BY <3>3, <3>4, <3>5, <1>10
  <2>6. QED
    BY <2>1, <2>3, <2>4, <2>5 DEF Meant
<1>12. QED
  BY <1>5, <1>7, <1>11 DEF ChunkInv

-------------------------------------------------------------------------------
(* The instructions with one operand.                                      *)

LEMMA FitsBelow ==
  ASSUME NEW m, NEW size \in Sizes, Fits(m, size), NEW n \in 0 .. m
  PROVE  Fits(n, size)
<1>1. m \in Nat /\ n \in Nat /\ n <= m
  BY DEF Fits
<1>2. CASE size = 1
  BY <1>1, <1>2, WeightIs DEF Fits
<1>3. CASE size = 2
  BY <1>1, <1>3, WeightIs DEF Fits
<1>4. CASE size = 4
  <2>1. n \div (256 * 256 * 256) <= m \div (256 * 256 * 256)
    BY <1>1
  <2>2. m \div (256 * 256 * 256) < 256
    BY <1>4, WeightIs DEF Fits
  <2>3. n \div (256 * 256 * 256) < 256
    BY <2>1, <2>2, <1>1
  <2>4. QED
    BY <2>3, <1>1, <1>4, WeightIs DEF Fits
<1>5. QED
  BY <1>2, <1>3, <1>4 DEF Sizes

LEMMA FitsByte ==
  ASSUME NEW n \in 0 .. Byte - 1
  PROVE  n \in Nat /\ Fits(n, 1)
BY WeightIs DEF Fits

LEMMA NewBytes ==
  ASSUME Typed, NEW op, Code(op) \in 0 .. Byte - 1, NEW operand \in Seq(0 .. Byte - 1),
         NEW lined, NEW line, NEW meant, NEW args, Write(op, operand, lined, line, meant, args),
         NEW here, here = Size
  PROVE  /\ here \in Nat /\ Len(operand) \in Nat
         /\ ByteAt(here)' = Code(op)
         /\ \A k \in 1 .. Len(operand) : ByteAt(here + k)' = operand[k]
<1>1. bytes' = bytes \o <<Code(op)>> \o operand /\ bytes \in Seq(0 .. Byte - 1)
  BY DEF Write, Typed
<1>2. PICK b : b = bytes'
  OBVIOUS
<1>3. /\ Len(bytes) \in Nat /\ Len(operand) \in Nat
      /\ b[Len(bytes) + 1] = Code(op)
      /\ \A k \in 1 .. Len(operand) : b[Len(bytes) + 1 + k] = operand[k]
  BY <1>1, <1>2, Joined
<1>4. here = Len(bytes)
  BY DEF Size
<1>5. \A k \in 1 .. Len(operand) : here + k + 1 = Len(bytes) + 1 + k
  BY <1>3, <1>4
<1>6. QED
  BY <1>2, <1>3, <1>4, <1>5 DEF ByteAt

(* The opcode and its number are read as they are written.                 *)
LEMMA NewHead ==
  ASSUME NEW w \in Instr, NEW size \in Sizes, NEW n, n = w.args[1], Fits(n, size),
         NEW code, \/ size = 1 /\ code = w.op
                   \/ w.op \in Params /\ size = LongSize(w.op) /\ code = Long(w.op),
         ByteAt(w.at)' = Code(code),
         \A k \in 1 .. size : ByteAt(w.at + k)' = Digits(n, size)[k]
  PROVE  Headed(w, size)'
<1>1. w.at \in Nat /\ size \in Nat /\ n \in Nat
  BY DEF Instr, Sizes, Fits
<1>2. \A k \in 1 .. size : w.at + 1 + k - 1 = w.at + k
  BY <1>1
<1>3. \A k \in 1 .. size : Digits(n, size)[k] = (n \div Weight[k]) % Byte
  BY <1>1, DigitsAre DEF Sizes
<1>4. \A k \in 1 .. size : ByteAt(w.at + 1 + k - 1)' = (n \div Weight[k]) % Byte
  BY <1>2, <1>3
<1>5. Operand(w.at + 1, size, n)'
  BY <1>4 DEF Operand
<1>6. QED
  BY <1>5 DEF Headed


LEMMA SoleWritten ==
  ASSUME ChunkInv, ~reported, NEW op \in SoleOps, NEW n \in Nat, NEW size \in Sizes,
         NEW code, \/ size = 1 /\ code = op
                   \/ op \in Params /\ size = LongSize(op) /\ code = Long(op),
         NEW lined \in Seq(1 .. size),
         \A j, k \in DOMAIN lined : j < k => lined[j] < lined[k],
         NEW line \in Line, Write(code, Digits(n, size), lined, line, op, <<n>>),
         pool' \in pool .. PoolMax, names' = names, reported' \in BOOLEAN,
         ~reported' => Fits(n, size) /\ (op \in ConstOps => n \in 0 .. pool' - 1)
  PROVE  ChunkInv'
<1>1. Typed
  BY DEF ChunkInv
<1>2. op \in Emitted /\ op # "CLOSURE"
  BY DEF SoleOps, Emitted, Params, ConstOps, LocalOps, UpvalOps
<1>3. Code(code) \in 0 .. Byte - 1
  BY <1>2, ShortCode, LongCode
<1>4. PICK operand : operand = Digits(n, size)
  OBVIOUS
<1>5. operand \in Seq(0 .. Byte - 1) /\ Len(operand) = size
  BY <1>4, DigitsAre DEF Sizes
<1>6. Size \in Nat
  BY <1>1, WrittenTyped
<1>7. PICK w : w = [at |-> Size, op |-> op, args |-> <<n>>, line |-> line]
  OBVIOUS
<1>8. /\ w \in Instr /\ w.at = Size /\ w.op = op /\ w.args = <<n>> /\ w.line = line
      /\ w.args[1] = n
  BY <1>2, <1>6, <1>7 DEF Instr, Args
<1>9. PICK e : e = Size + 1 + size
  OBVIOUS
<1>10. Write(code, operand, lined, w.line, w.op, w.args)
  BY <1>4, <1>8
<1>11. /\ ByteAt(w.at)' = Code(code)
       /\ \A k \in 1 .. size : ByteAt(w.at + k)' = Digits(n, size)[k]
  BY <1>1, <1>3, <1>4, <1>5, <1>8, <1>10, NewBytes
<1>12. ASSUME ~reported'
       PROVE  Coded(w, e)'
  <2>1. Headed(w, size)'
    BY <1>8, <1>11, <1>12, NewHead
  <2>2. AsSole(w, e)'
    BY <1>8, <1>9, <2>1 DEF AsSole
  <2>3. QED
    BY <2>2 DEF Coded
<1>13. lined \in Seq(1 .. Len(operand)) /\ e = Size + 1 + Len(operand)
  BY <1>5, <1>9
<1>14. ~reported' =>
         /\ Coded(w, e)'
         /\ w.op \in ConstOps => w.args[1] \in 0 .. pool' - 1
         /\ w.op = "CLOSURE" => w.args[1] = pool
  BY <1>2, <1>8, <1>12
<1>15. QED
  BY <1>3, <1>5, <1>8, <1>10, <1>13, <1>14, Writing

LEMMA ParamWritten ==
  ASSUME ChunkInv, ~reported, NEW op \in SoleOps \ {"CALL"}, NEW n \in Nat, NEW line \in Line,
         Param(op, n, line),
         pool' \in pool .. PoolMax, names' = names, reported' \in BOOLEAN,
         op \in UpvalOps => n < Byte,
         ~reported' => Fits(n, 4) /\ (op \in ConstOps => n \in 0 .. pool' - 1)
  PROVE  ChunkInv'
<1>1. op \in SoleOps /\ op \in Params
  BY DEF SoleOps, Params
<1>2. \A size : <<>> \in Seq(1 .. size) /\ \A j, k \in DOMAIN <<>> : <<>>[j] < <<>>[k]
  OBVIOUS
<1>3. CASE Short(n)
  <2>1. Fits(n, 1)
    BY <1>3, FitsByte DEF Short, Byte
  <2>2. Write(op, Digits(n, 1), <<>>, line, op, <<n>>)
    BY <1>3 DEF Param
  <2>3. 1 \in Sizes
    BY DEF Sizes
  <2>4. QED
    BY <1>1, <1>2, <2>1, <2>2, <2>3, SoleWritten
<1>4. CASE ~Short(n)
  <2>1. LongSize(op) = 4
    BY <1>4 DEF LongSize, Short
  <2>2. Write(Long(op), Digits(n, 4), <<>>, line, op, <<n>>)
    BY <1>4, <2>1 DEF Param
  <2>3. 4 \in Sizes
    BY DEF Sizes
  <2>4. QED
    BY <1>1, <1>2, <2>1, <2>2, <2>3, SoleWritten
<1>5. QED
  BY <1>3, <1>4

-------------------------------------------------------------------------------
(* The actions.                                                            *)

LEMMA PoolIs ==
  ASSUME ChunkInv
  PROVE  /\ pool \in Nat /\ PoolMax \in Nat /\ pool <= PoolMax /\ reported \in BOOLEAN
         /\ \A n : n \in 0 .. PoolMax => Fits(n, 4)
         /\ ~reported => \A n \in names : n \in 0 .. pool - 1 /\ n \in Nat /\ Fits(n, 4)
<1>1. Typed /\ (~reported => Meant)
  BY DEF ChunkInv
<1>2. pool \in Nat /\ PoolMax \in Nat /\ pool <= PoolMax /\ reported \in BOOLEAN
  BY <1>1, ChunkAssumption DEF Typed, Fits
<1>3. \A n : n \in 0 .. PoolMax => Fits(n, 4)
  <2>1. Fits(PoolMax, 4) /\ 4 \in Sizes
    BY ChunkAssumption DEF Sizes
  <2>2. QED
    BY <2>1, FitsBelow
<1>4. ASSUME ~reported, NEW n \in names
      PROVE  n \in 0 .. pool - 1 /\ n \in Nat /\ Fits(n, 4)
  <2>1. n \in 0 .. pool - 1
    BY <1>1, <1>4 DEF Meant
  <2>2. n \in 0 .. PoolMax /\ n \in Nat
    BY <2>1, <1>2
  <2>3. QED
    BY <2>1, <2>2, <1>3
<1>5. QED
  BY <1>2, <1>3, <1>4

LEMMA SimpleKeeps ==
  ASSUME ChunkInv, ~reported, NEW op \in PlainOps, NEW line \in Line, Simple(op, line)
  PROVE  ChunkInv'
<1>1. Typed /\ Size \in Nat /\ op \in Emitted
  BY WrittenTyped DEF ChunkInv, Emitted
<1>2. Code(op) \in 0 .. Byte - 1
  BY <1>1, ShortCode
<1>3. PICK w : w = [at |-> Size, op |-> op, args |-> <<>>, line |-> line]
  OBVIOUS
<1>4. w \in Instr /\ w.at = Size /\ w.op = op /\ w.args = <<>> /\ w.line = line
  BY <1>1, <1>3 DEF Instr, Args
<1>5. PICK e : e = Size + 1
  OBVIOUS
<1>6. PICK operand : operand = <<>>
  OBVIOUS
<1>7. /\ operand \in Seq(0 .. Byte - 1) /\ Len(operand) = 0
      /\ operand \in Seq(1 .. Len(operand))
      /\ \A j, k \in DOMAIN operand : j < k => operand[j] < operand[k]
  BY <1>6
<1>8. Write(op, operand, operand, w.line, w.op, w.args)
  BY <1>4, <1>6 DEF Simple
<1>9. ByteAt(w.at)' = Code(op)
  BY <1>1, <1>2, <1>4, <1>7, <1>8, NewBytes
<1>10. AsPlain(w, e)'
  BY <1>4, <1>5, <1>9 DEF AsPlain
<1>11. /\ Coded(w, e)' /\ e = Size + 1 + Len(operand)
  BY <1>1, <1>5, <1>7, <1>10 DEF Coded
<1>12. op \notin ConstOps /\ op # "CLOSURE"
  BY DEF ConstOps, PlainOps
<1>13. pool' \in pool .. PoolMax /\ names' = names /\ reported' \in BOOLEAN
  BY PoolIs DEF Simple
<1>14. ~reported' =>
         /\ Coded(w, e)'
         /\ w.op \in ConstOps => w.args[1] \in 0 .. pool' - 1
         /\ w.op = "CLOSURE" => w.args[1] = pool
  BY <1>4, <1>11, <1>12
<1>15. QED
  BY <1>2, <1>4, <1>7, <1>8, <1>11, <1>13, <1>14, Writing

LEMMA ConstKeeps ==
  ASSUME ChunkInv, ~reported, NEW line \in Line, Const(line)
  PROVE  ChunkInv'
<1>1. PICK c : c = AddConst
  OBVIOUS
<1>2. /\ Param("CONST", c.offset, line) /\ pool' = c.size /\ names' = names
      /\ reported' = (reported \/ pool >= PoolMax)
  BY <1>1 DEF Const
<1>3. /\ c.offset \in 0 .. PoolMax /\ c.size \in pool .. PoolMax
      /\ pool < PoolMax => c.offset = pool /\ c.size = pool + 1
  BY <1>1, PoolIs DEF AddConst
<1>r. reported' \in BOOLEAN /\ (~reported' => ~(pool >= PoolMax))
  BY <1>2, Zenon
<1>4. /\ c.offset \in Nat /\ Fits(c.offset, 4) /\ pool' \in pool .. PoolMax
      /\ ~reported' => c.offset \in 0 .. pool' - 1
  <2>1. c.offset \in Nat /\ pool' \in pool .. PoolMax
    BY <1>2, <1>3, PoolIs
  <2>2. Fits(c.offset, 4)
    BY <1>3, PoolIs
  <2>3. ~reported' => c.offset \in 0 .. pool' - 1
    BY <1>2, <1>3, <1>r, PoolIs
  <2>4. QED
    BY <2>1, <2>2, <2>3
<1>5. "CONST" \in SoleOps \ {"CALL"} /\ "CONST" \notin UpvalOps
  BY DEF SoleOps, ConstOps, UpvalOps
<1>6. QED
  BY <1>2, <1>4, <1>5, <1>r, ParamWritten

LEMMA UseNameKeeps ==
  ASSUME ChunkInv, ~reported, NEW n \in names, NEW op \in NameOps, NEW line \in Line,
         UseName(op, n, line)
  PROVE  ChunkInv'
<1>1. n \in 0 .. pool - 1 /\ n \in Nat /\ Fits(n, 4)
  BY PoolIs
<1>2. op \in SoleOps \ {"CALL"} /\ op \notin UpvalOps
  BY DEF NameOps, SoleOps, ConstOps, UpvalOps
<1>3. Param(op, n, line) /\ pool' = pool /\ names' = names /\ reported' = reported
  BY DEF UseName
<1>4. pool' \in pool .. PoolMax /\ reported' \in BOOLEAN /\ n \in 0 .. pool' - 1
  BY <1>1, <1>3, PoolIs
<1>5. QED
  BY <1>1, <1>2, <1>3, <1>4, ParamWritten

LEMMA UseVariableKeeps ==
  ASSUME ChunkInv, ~reported, NEW n \in Slots, NEW op \in LocalOps \cup UpvalOps,
         NEW line \in Line, op \in UpvalOps => n < Byte, UseVariable(op, n, line)
  PROVE  ChunkInv'
<1>1. n \in Nat /\ Fits(n, 4)
  BY ChunkAssumption DEF Fits
<1>2. op \in SoleOps \ {"CALL"} /\ op \notin ConstOps
  BY DEF LocalOps, UpvalOps, SoleOps, ConstOps
<1>3. Param(op, n, line) /\ pool' = pool /\ names' = names /\ reported' = reported
  BY DEF UseVariable
<1>4. pool' \in pool .. PoolMax /\ reported' \in BOOLEAN
  BY <1>3, PoolIs
<1>5. QED
  BY <1>1, <1>2, <1>3, <1>4, ParamWritten

LEMMA ClassKeeps ==
  ASSUME ChunkInv, ~reported, NEW n \in names, NEW line \in Line, Class(n, line)
  PROVE  ChunkInv'
<1>1. n \in 0 .. pool - 1 /\ n \in Nat /\ Fits(n, 4)
  BY PoolIs
<1>2. pool' = pool /\ names' = names /\ reported' = reported
  BY DEF Class
<1>3. pool' \in pool .. PoolMax /\ reported' \in BOOLEAN /\ n \in 0 .. pool' - 1
  BY <1>1, <1>2, PoolIs
<1>4. "CLASS" \in SoleOps /\ "CLASS" \in Params /\ LongSize("CLASS") = 4
  BY DEF SoleOps, Params, ConstOps, LongSize, UpvalOps
<1>5. Long("CLASS") = "CLASS_LONG"
  <2>1. 39 \in 0 .. 53 /\ 40 \in 0 .. 53
    OBVIOUS
  <2>2. Code("CLASS") = 39 /\ OpAt(40) = "CLASS_LONG"
    BY <2>1, CodeIs, ListIs
  <2>3. QED
    BY <2>2 DEF Long
<1>6. \A size : <<>> \in Seq(1 .. size) /\ \A j, k \in DOMAIN <<>> : <<>>[j] < <<>>[k]
  OBVIOUS
<1>7. 1 \in Sizes /\ 4 \in Sizes
  BY DEF Sizes
<1>8. CASE n < Byte - 1
  <2>1. Write("CLASS", Digits(n, 1), <<>>, line, "CLASS", <<n>>)
    BY <1>8 DEF Class
  <2>2. Fits(n, 1)
    BY <1>1, <1>8, FitsByte DEF Byte
  <2>3. QED
    BY <1>1, <1>2, <1>3, <1>4, <1>6, <1>7, <2>1, <2>2, SoleWritten
<1>9. CASE ~(n < Byte - 1)
  <2>1. Write("CLASS_LONG", Digits(n, 4), <<>>, line, "CLASS", <<n>>)
    BY <1>9 DEF Class
  <2>2. QED
    BY <1>1, <1>2, <1>3, <1>4, <1>5, <1>6, <1>7, <2>1, SoleWritten
<1>10. QED
  BY <1>8, <1>9

LEMMA CallKeeps ==
  ASSUME ChunkInv, ~reported, NEW count \in Counts, NEW line \in Line, Call(count, line)
  PROVE  ChunkInv'
<1>1. count \in 0 .. Byte - 1
  BY ChunkAssumption
<1>2. count \in Nat /\ Fits(count, 1) /\ 1 \in Sizes
  BY <1>1, FitsByte DEF Sizes
<1>3. Digits(count, 1) = <<count>>
  <2>1. (count \div Weight[1]) % Byte = count
    BY <1>1, WeightIs
  <2>2. Digits(count, 1) = [k \in 1 .. 1 |-> count]
    BY <2>1 DEF Digits
  <2>3. QED
    BY <2>2
<1>4. Write("CALL", Digits(count, 1), <<1>>, line, "CALL", <<count>>)
  BY <1>3 DEF Call
<1>5. pool' \in pool .. PoolMax /\ names' = names /\ reported' \in BOOLEAN
  BY PoolIs DEF Call
<1>6. "CALL" \in SoleOps /\ "CALL" \notin ConstOps
  BY DEF SoleOps, ConstOps
<1>7. <<1>> \in Seq(1 .. 1) /\ \A j, k \in DOMAIN <<1>> : j < k => <<1>>[j] < <<1>>[k]
  OBVIOUS
<1>8. QED
  BY <1>2, <1>4, <1>5, <1>6, <1>7, SoleWritten

LEMMA InvokeKeeps ==
  ASSUME ChunkInv, ~reported, NEW n \in names, NEW count \in Counts, NEW line \in Line,
         Invoke(n, count, line)
  PROVE  ChunkInv'
<1>1. Typed /\ Size \in Nat /\ n \in 0 .. pool - 1 /\ n \in Nat
  BY PoolIs, WrittenTyped DEF ChunkInv
<1>2. "INVOKE" \in Emitted /\ "INVOKE" # "CLOSURE"
  BY DEF Emitted, Params, ConstOps
<1>3. Code("INVOKE") \in 0 .. Byte - 1
  BY <1>2, ShortCode
<1>4. PICK operand : operand = <<n % Byte, count>>
  OBVIOUS
<1>5. /\ n % Byte \in 0 .. Byte - 1 /\ count \in 0 .. Byte - 1
  BY <1>1, ChunkAssumption DEF Byte
<1>6. operand \in Seq(0 .. Byte - 1) /\ Len(operand) = 2
  BY <1>4, <1>5
<1>7. PICK w : w = [at |-> Size, op |-> "INVOKE", args |-> <<n, count>>, line |-> line]
  OBVIOUS
<1>8. /\ w \in Instr /\ w.at = Size /\ w.op = "INVOKE" /\ w.args = <<n, count>>
      /\ w.line = line
  BY <1>1, <1>2, <1>7 DEF Instr, Args
<1>9. w.args[1] = n /\ w.args[2] = count
  BY <1>8
<1>10. PICK e : e = Size + 3
  OBVIOUS
<1>11. PICK lined : lined = <<1, 2>>
  OBVIOUS
<1>12. /\ lined \in Seq(1 .. Len(operand))
       /\ \A j, k \in DOMAIN lined : j < k => lined[j] < lined[k]
  BY <1>6, <1>11
<1>13. Write("INVOKE", operand, lined, w.line, w.op, w.args)
  BY <1>4, <1>8, <1>11 DEF Invoke
<1>14. /\ ByteAt(w.at)' = Code("INVOKE")
       /\ \A k \in 1 .. Len(operand) : ByteAt(w.at + k)' = operand[k]
  BY <1>1, <1>3, <1>6, <1>8, <1>13, NewBytes
<1>15. ByteAt(w.at + 1)' = n % Byte /\ ByteAt(w.at + 2)' = count
  <2>1. 1 \in 1 .. Len(operand) /\ 2 \in 1 .. Len(operand)
    BY <1>6
  <2>2. QED
    BY <2>1, <1>14, <1>4
<1>16. AsInvoke(w, e)'
  BY <1>1, <1>8, <1>9, <1>10, <1>14, <1>15 DEF AsInvoke
<1>17. Coded(w, e)' /\ e = Size + 1 + Len(operand)
  BY <1>1, <1>6, <1>10, <1>16 DEF Coded
<1>18. pool' \in pool .. PoolMax /\ names' = names /\ reported' \in BOOLEAN /\ pool' = pool
  BY PoolIs DEF Invoke
<1>19. ~reported' =>
         /\ Coded(w, e)'
         /\ w.op \in ConstOps => w.args[1] \in 0 .. pool' - 1
         /\ w.op = "CLOSURE" => w.args[1] = pool
  BY <1>1, <1>2, <1>8, <1>9, <1>17, <1>18
<1>20. QED
  BY <1>3, <1>6, <1>8, <1>12, <1>13, <1>17, <1>18, <1>19, Writing

LEMMA SuperInvokeKeeps ==
  ASSUME ChunkInv, ~reported, NEW n \in names, NEW count \in Counts, NEW line \in Line,
         SuperInvoke(n, count, line)
  PROVE  ChunkInv'
<1>1. Typed /\ Size \in Nat /\ n \in 0 .. pool - 1 /\ n \in Nat /\ Fits(n, 4)
  BY PoolIs, WrittenTyped DEF ChunkInv
<1>2. "SUPER_INVOKE" \in Emitted /\ "SUPER_INVOKE" \in Params /\ "SUPER_INVOKE" # "CLOSURE"
  BY DEF Emitted, Params, ConstOps
<1>3. Long("SUPER_INVOKE") = "SUPER_INVOKE_LONG" /\ LongSize("SUPER_INVOKE") = 4
  <2>1. 52 \in 0 .. 53 /\ 53 \in 0 .. 53
    OBVIOUS
  <2>2. Code("SUPER_INVOKE") = 52 /\ OpAt(53) = "SUPER_INVOKE_LONG"
    BY <2>1, CodeIs, ListIs
  <2>3. QED
    BY <2>2 DEF Long, LongSize, UpvalOps
<1>4. PICK size : size = IF Short(n) THEN 1 ELSE 4
  OBVIOUS
<1>5. PICK code : code = IF Short(n) THEN "SUPER_INVOKE" ELSE "SUPER_INVOKE_LONG"
  OBVIOUS
<1>6. /\ size \in Sizes /\ size \in Nat /\ Fits(n, size)
      /\ \/ size = 1 /\ code = "SUPER_INVOKE"
         \/ size = LongSize("SUPER_INVOKE") /\ code = Long("SUPER_INVOKE")
  <2>1. Short(n) => Fits(n, 1)
    BY <1>1, FitsByte DEF Short, Byte
  <2>2. QED
    BY <1>1, <1>3, <1>4, <1>5, <2>1 DEF Sizes
<1>7. Code(code) \in 0 .. Byte - 1
  BY <1>2, <1>6, ShortCode, LongCode
<1>8. PICK digits : digits = Digits(n, size)
  OBVIOUS
<1>9. digits \in Seq(0 .. Byte - 1) /\ Len(digits) = size /\ count \in 0 .. Byte - 1
  BY <1>1, <1>6, <1>8, DigitsAre, ChunkAssumption DEF Sizes
<1>10. PICK operand : operand = Append(digits, count)
  OBVIOUS
<1>11. /\ operand \in Seq(0 .. Byte - 1) /\ Len(operand) = size + 1
       /\ \A k \in 1 .. size : operand[k] = digits[k]
       /\ operand[size + 1] = count
  BY <1>9, <1>10, AppendProperties
<1>12. PICK w : w = [at |-> Size, op |-> "SUPER_INVOKE", args |-> <<n, count>>, line |-> line]
  OBVIOUS
<1>13. /\ w \in Instr /\ w.at = Size /\ w.op = "SUPER_INVOKE" /\ w.args = <<n, count>>
       /\ w.line = line
  BY <1>1, <1>2, <1>12 DEF Instr, Args
<1>14. w.args[1] = n /\ w.args[2] = count
  BY <1>13
<1>15. PICK e : e = Size + 2 + size
  OBVIOUS
<1>16. PICK lined : lined = <<size + 1>>
  OBVIOUS
<1>17. /\ lined \in Seq(1 .. Len(operand))
       /\ \A j, k \in DOMAIN lined : j < k => lined[j] < lined[k]
  BY <1>6, <1>11, <1>16
<1>18. Write(code, operand, lined, w.line, w.op, w.args)
  BY <1>4, <1>5, <1>8, <1>10, <1>13, <1>16 DEF SuperInvoke
<1>19. /\ ByteAt(w.at)' = Code(code)
       /\ \A k \in 1 .. Len(operand) : ByteAt(w.at + k)' = operand[k]
  BY <1>1, <1>7, <1>11, <1>13, <1>18, NewBytes
<1>20. /\ \A k \in 1 .. size : ByteAt(w.at + k)' = Digits(n, size)[k]
       /\ ByteAt(w.at + 1 + size)' = count
  <2>1. size + 1 \in 1 .. Len(operand) /\ \A k \in 1 .. size : k \in 1 .. Len(operand)
    BY <1>6, <1>11
  <2>2. w.at + (size + 1) = w.at + 1 + size
    BY <1>1, <1>6, <1>13
  <2>3. QED
    BY <2>1, <2>2, <1>8, <1>11, <1>19
<1>21. Headed(w, size)'
  BY <1>2, <1>6, <1>13, <1>14, <1>19, <1>20, NewHead
<1>22. AsSuperInvoke(w, e)'
  BY <1>6, <1>13, <1>14, <1>15, <1>20, <1>21 DEF AsSuperInvoke
<1>23. Coded(w, e)' /\ e = Size + 1 + Len(operand)
  BY <1>1, <1>6, <1>11, <1>15, <1>22 DEF Coded
<1>24. pool' \in pool .. PoolMax /\ names' = names /\ reported' \in BOOLEAN /\ pool' = pool
  BY PoolIs DEF SuperInvoke
<1>25. ~reported' =>
         /\ Coded(w, e)'
         /\ w.op \in ConstOps => w.args[1] \in 0 .. pool' - 1
         /\ w.op = "CLOSURE" => w.args[1] = pool
  BY <1>1, <1>2, <1>13, <1>14, <1>23, <1>24
<1>26. QED
  BY <1>7, <1>11, <1>13, <1>17, <1>18, <1>23, <1>24, <1>25, Writing

LEMMA JumpKeeps ==
  ASSUME ChunkInv, ~reported, NEW op \in {"JMP", "JMP_IF_FALSE"}, NEW line \in Line,
         Jump(op, line)
  PROVE  ChunkInv'
<1>1. Typed /\ Size \in Nat /\ op \in Emitted
  BY WrittenTyped DEF ChunkInv, Emitted, JumpOps
<1>2. Code(op) \in 0 .. Byte - 1
  BY <1>1, ShortCode
<1>3. PICK operand : operand = <<255, 255>>
  OBVIOUS
<1>4. operand \in Seq(0 .. Byte - 1) /\ Len(operand) = 2
  BY <1>3 DEF Byte
<1>5. PICK w : w = [at |-> Size, op |-> op, args |-> <<NoTarget>>, line |-> line]
  OBVIOUS
<1>6. /\ w \in Instr /\ w.at = Size /\ w.op = op /\ w.args = <<NoTarget>> /\ w.line = line
      /\ w.args[1] \in Int
  BY <1>1, <1>5 DEF Instr, Args, NoTarget
<1>7. PICK e : e = Size + 3
  OBVIOUS
<1>8. PICK lined : lined = <<1, 2>>
  OBVIOUS
<1>9. /\ lined \in Seq(1 .. Len(operand))
      /\ \A j, k \in DOMAIN lined : j < k => lined[j] < lined[k]
  BY <1>4, <1>8
<1>10. Write(op, operand, lined, w.line, w.op, w.args)
  BY <1>3, <1>6, <1>8 DEF Jump
<1>11. ByteAt(w.at)' = Code(op)
  BY <1>1, <1>2, <1>4, <1>6, <1>10, NewBytes
<1>12. w.args = <<w.args[1]>>
  BY <1>6
<1>13. AsJump(w, e)'
  BY <1>6, <1>7, <1>11, <1>12 DEF AsJump
<1>14. Coded(w, e)' /\ e = Size + 1 + Len(operand)
  BY <1>1, <1>4, <1>7, <1>13 DEF Coded
<1>15. pool' \in pool .. PoolMax /\ names' = names /\ reported' \in BOOLEAN
  BY PoolIs DEF Jump
<1>16. op \notin ConstOps /\ op # "CLOSURE"
  BY DEF ConstOps
<1>17. ~reported' =>
         /\ Coded(w, e)'
         /\ w.op \in ConstOps => w.args[1] \in 0 .. pool' - 1
         /\ w.op = "CLOSURE" => w.args[1] = pool
  BY <1>6, <1>14, <1>16
<1>18. QED
  BY <1>2, <1>4, <1>6, <1>9, <1>10, <1>14, <1>15, <1>17, Writing

(* The two bytes of a distance.                                            *)
LEMMA NewDistance ==
  ASSUME NEW w \in Instr, NEW n, Fits(n, 2),
         \A k \in 1 .. 2 : ByteAt(w.at + k)' = Digits(n, 2)[k]
  PROVE  Operand(w.at + 1, 2, n)'
<1>1. w.at \in Nat /\ n \in Nat
  BY DEF Instr, Fits
<1>2. \A k \in 1 .. 2 : w.at + 1 + k - 1 = w.at + k
  BY <1>1
<1>3. \A k \in 1 .. 2 : Digits(n, 2)[k] = (n \div Weight[k]) % Byte
  BY <1>1, DigitsAre
<1>4. \A k \in 1 .. 2 : ByteAt(w.at + 1 + k - 1)' = (n \div Weight[k]) % Byte
  BY <1>2, <1>3
<1>5. QED
  BY <1>4 DEF Operand

LEMMA LoopKeeps ==
  ASSUME ChunkInv, ~reported, NEW i \in DOMAIN written, NEW line \in Line, Loop(i, line)
  PROVE  ChunkInv'
<1>1. /\ Typed /\ Ordered /\ Size \in Nat /\ i \in 1 .. Len(written) /\ "LOOP" \in Emitted
  BY WrittenTyped DEF ChunkInv, Emitted, JumpOps
<1>2. PICK target \in Nat : target = written[i].at /\ target < Size
  BY <1>1, WrittenTyped DEF Ordered
<1>3. PICK distance : distance = Size + 3 - target
  OBVIOUS
<1>4. distance \in Nat
  BY <1>1, <1>2, <1>3
<1>5. /\ Write("LOOP", Digits(distance, 2), <<>>, line, "LOOP", <<target>>)
      /\ reported' = (reported \/ distance > JumpMax) /\ pool' = pool /\ names' = names
  BY <1>2, <1>3 DEF Loop
<1>6. Code("LOOP") \in 0 .. Byte - 1
  BY <1>1, ShortCode
<1>7. PICK operand : operand = Digits(distance, 2)
  OBVIOUS
<1>8. operand \in Seq(0 .. Byte - 1) /\ Len(operand) = 2
  BY <1>4, <1>7, DigitsAre
<1>9. PICK w : w = [at |-> Size, op |-> "LOOP", args |-> <<target>>, line |-> line]
  OBVIOUS
<1>10. /\ w \in Instr /\ w.at = Size /\ w.op = "LOOP" /\ w.args = <<target>> /\ w.line = line
  BY <1>1, <1>9 DEF Instr, Args
<1>11. w.args[1] = target
  BY <1>10
<1>12. PICK e : e = Size + 3
  OBVIOUS
<1>13. PICK lined : lined = <<>>
  OBVIOUS
<1>14. /\ lined \in Seq(1 .. Len(operand))
       /\ \A j, k \in DOMAIN lined : j < k => lined[j] < lined[k]
  BY <1>13
<1>15. Write("LOOP", operand, lined, w.line, w.op, w.args)
  BY <1>5, <1>7, <1>10, <1>13
<1>16. /\ ByteAt(w.at)' = Code("LOOP")
       /\ \A k \in 1 .. 2 : ByteAt(w.at + k)' = Digits(distance, 2)[k]
  BY <1>1, <1>6, <1>7, <1>8, <1>10, <1>15, NewBytes
<1>17. reported' \in BOOLEAN /\ (~reported' => ~(distance > JumpMax))
  BY <1>5, Zenon
<1>18. ASSUME ~reported'
       PROVE  Coded(w, e)'
  <2>1. distance \in 0 .. JumpMax /\ Fits(JumpMax, 2) /\ 2 \in Sizes
    BY <1>4, <1>17, <1>18, ChunkAssumption DEF Fits, Sizes
  <2>2. Fits(distance, 2)
    BY <2>1, FitsBelow
  <2>3. Operand(w.at + 1, 2, distance)'
    BY <1>10, <1>16, <2>2, NewDistance
  <2>4. distance = w.at + 3 - w.args[1]
    BY <1>3, <1>10, <1>11
  <2>5. AsLoop(w, e)'
    BY <1>2, <1>10, <1>11, <1>12, <1>16, <2>3, <2>4 DEF AsLoop
  <2>6. QED
    BY <2>5 DEF Coded
<1>19. /\ pool' \in pool .. PoolMax /\ e = Size + 1 + Len(operand)
  BY <1>1, <1>5, <1>8, <1>12, PoolIs
<1>20. "LOOP" \notin ConstOps /\ "LOOP" # "CLOSURE"
  BY DEF ConstOps
<1>21. ~reported' =>
         /\ Coded(w, e)'
         /\ w.op \in ConstOps => w.args[1] \in 0 .. pool' - 1
         /\ w.op = "CLOSURE" => w.args[1] = pool
  BY <1>10, <1>18, <1>20
<1>22. QED
  BY <1>5, <1>6, <1>8, <1>10, <1>14, <1>15, <1>17, <1>19, <1>21, Writing

Descriptors(u) == [k \in 1 .. 2 * Len(u) |-> u[(k + 1) \div 2][2 - (k % 2)]]

Describe(d, u, count) ==
  \A k \in 1 .. count : /\ 2 * k - 1 \in 1 .. 2 * count /\ 2 * k \in 1 .. 2 * count
                        /\ d[2 * k - 1] = u[k][1] /\ d[2 * k] = u[k][2]

LEMMA DescriptorsAre ==
  ASSUME NEW u \in Upvals, NEW count, count = Len(u), NEW d, d = Descriptors(u)
  PROVE  /\ count \in Nat /\ d \in Seq(0 .. Byte - 1) /\ Len(d) = 2 * count
         /\ Describe(d, u, count)
<1>1. /\ count \in Nat
      /\ \A k \in 1 .. count : u[k][1] \in 0 .. Byte - 1 /\ u[k][2] \in 0 .. Byte - 1
  BY UpvalsAre
<1>2. PICK top : top = 2 * count
  OBVIOUS
<1>3. top \in Nat /\ d = [k \in 1 .. top |-> u[(k + 1) \div 2][2 - (k % 2)]]
  BY <1>1, <1>2 DEF Descriptors
<1>4. ASSUME NEW k \in 1 .. top
      PROVE  d[k] \in 0 .. Byte - 1
  <2>1. PICK j : j = (k + 1) \div 2
    OBVIOUS
  <2>2. k \in Nat /\ 1 <= k /\ k <= 2 * count
    BY <1>2, <1>3
  <2>3. j \in 1 .. count
    BY <2>1, <2>2, <1>1
  <2>4. 2 - (k % 2) = 1 \/ 2 - (k % 2) = 2
    BY <2>2
  <2>5. d[k] = u[j][2 - (k % 2)]
    BY <1>3, <2>1
  <2>6. CASE 2 - (k % 2) = 1
    BY <1>1, <2>3, <2>5, <2>6
  <2>7. CASE 2 - (k % 2) = 2
    BY <1>1, <2>3, <2>5, <2>7
  <2>8. QED
    BY <2>4, <2>6, <2>7
<1>5. d \in [1 .. top -> 0 .. Byte - 1]
  BY <1>3, <1>4
<1>6. d \in Seq(0 .. Byte - 1) /\ Len(d) = top
  BY <1>3, <1>5
<1>7. ASSUME NEW k \in 1 .. count
      PROVE  /\ 2 * k - 1 \in 1 .. top /\ 2 * k \in 1 .. top
             /\ d[2 * k - 1] = u[k][1] /\ d[2 * k] = u[k][2]
  <2>1. k \in Nat /\ 1 <= k /\ k <= count
    BY <1>1
  <2>2. 2 * k - 1 \in 1 .. top /\ 2 * k \in 1 .. top
    BY <2>1, <1>1, <1>2
  <2>3. /\ (2 * k - 1 + 1) \div 2 = k /\ 2 - ((2 * k - 1) % 2) = 1
        /\ (2 * k + 1) \div 2 = k /\ 2 - ((2 * k) % 2) = 2
    BY <2>1
  <2>4. d[2 * k - 1] = u[(2 * k - 1 + 1) \div 2][2 - ((2 * k - 1) % 2)]
    BY <1>3, <2>2
  <2>5. d[2 * k] = u[(2 * k + 1) \div 2][2 - ((2 * k) % 2)]
    BY <1>3, <2>2
  <2>6. QED
    BY <2>2, <2>3, <2>4, <2>5
<1>8. QED
  BY <1>1, <1>2, <1>6, <1>7 DEF Describe

LEMMA ClosureKeeps ==
  ASSUME ChunkInv, ~reported, NEW u \in Upvals, NEW line \in Line, Closure(u, line)
  PROVE  ChunkInv'
<1>1. Typed /\ Size \in Nat
  BY WrittenTyped DEF ChunkInv
<1>2. "CLOSURE" \in Emitted /\ "CLOSURE" \in Params
  BY DEF Emitted, Params, ConstOps
<1>3. Long("CLOSURE") = "CLOSURE_LONG" /\ LongSize("CLOSURE") = 4
  <2>1. 36 \in 0 .. 53 /\ 37 \in 0 .. 53
    OBVIOUS
  <2>2. Code("CLOSURE") = 36 /\ OpAt(37) = "CLOSURE_LONG"
    BY <2>1, CodeIs, ListIs
  <2>3. QED
    BY <2>2 DEF Long, LongSize, UpvalOps
<1>4. PICK c : c = AddConst
  OBVIOUS
<1>5. /\ c.offset \in 0 .. PoolMax /\ c.size \in pool .. PoolMax
      /\ pool < PoolMax => c.offset = pool /\ c.size = pool + 1
  BY <1>4, PoolIs DEF AddConst
<1>6. PICK n : n = c.offset
  OBVIOUS
<1>7. n \in Nat /\ Fits(n, 4)
  BY <1>5, <1>6, PoolIs
<1>8. PICK size : size = IF Short(n) THEN 1 ELSE 4
  OBVIOUS
<1>9. PICK code : code = IF size = 1 THEN "CLOSURE" ELSE "CLOSURE_LONG"
  OBVIOUS
<1>10. /\ size \in Sizes /\ size \in Nat /\ size >= 1 /\ Fits(n, size)
       /\ \/ size = 1 /\ code = "CLOSURE"
          \/ size = LongSize("CLOSURE") /\ code = Long("CLOSURE")
  <2>1. Short(n) => Fits(n, 1)
    BY <1>7, FitsByte DEF Short, Byte
  <2>2. QED
    BY <1>3, <1>7, <1>8, <1>9, <2>1 DEF Sizes
<1>11. Code(code) \in 0 .. Byte - 1
  BY <1>2, <1>10, ShortCode, LongCode
<1>12. PICK digits : digits = Digits(n, size)
  OBVIOUS
<1>13. digits \in Seq(0 .. Byte - 1) /\ Len(digits) = size
  BY <1>7, <1>10, <1>12, DigitsAre DEF Sizes
<1>14. PICK d : d = Descriptors(u)
  OBVIOUS
<1>15. PICK count : count = Len(u)
  OBVIOUS
<1>16. /\ count \in Nat /\ d \in Seq(0 .. Byte - 1) /\ Len(d) = 2 * count
       /\ Describe(d, u, count)
  BY <1>14, <1>15, DescriptorsAre
<1>17. PICK operand : operand = digits \o d
  OBVIOUS
<1>18. /\ operand \in Seq(0 .. Byte - 1) /\ Len(operand) = size + 2 * count
       /\ \A k \in 1 .. size : operand[k] = digits[k]
       /\ \A k \in 1 .. 2 * count : operand[size + k] = d[k]
  <2>1. /\ operand \in Seq(0 .. Byte - 1) /\ Len(operand) = Len(digits) + Len(d)
        /\ \A k \in 1 .. Len(digits) + Len(d) :
             operand[k] = IF k <= Len(digits) THEN digits[k] ELSE d[k - Len(digits)]
    BY <1>13, <1>16, <1>17, ConcatProperties
  <2>2. Len(operand) = size + 2 * count
    BY <2>1, <1>13, <1>16
  <2>3. \A k \in 1 .. size : operand[k] = digits[k]
    BY <2>1, <1>10, <1>13, <1>16
  <2>4. ASSUME NEW k \in 1 .. 2 * count
        PROVE  operand[size + k] = d[k]
    <3>1. PICK j : j = size + k
      OBVIOUS
    <3>2. /\ j \in 1 .. Len(digits) + Len(d) /\ ~(j <= Len(digits)) /\ j - Len(digits) = k
      BY <3>1, <1>10, <1>13, <1>16
    <3>3. QED
      BY <3>1, <3>2, <2>1
  <2>5. QED
    BY <2>1, <2>2, <2>3, <2>4
<1>19. PICK w : w = [at |-> Size, op |-> "CLOSURE", args |-> <<n, u>>, line |-> line]
  OBVIOUS
<1>20. /\ w \in Instr /\ w.at = Size /\ w.op = "CLOSURE" /\ w.args = <<n, u>> /\ w.line = line
  BY <1>1, <1>2, <1>7, <1>19 DEF Instr, Args
<1>21. w.args[1] = n /\ w.args[2] = u
  BY <1>20
<1>22. PICK e : e = Size + 1 + size + 2 * count
  OBVIOUS
<1>23. PICK lined : lined = [k \in 1 .. count |-> size + 2 * k - 1]
  OBVIOUS
<1>24. /\ lined \in Seq(1 .. Len(operand))
       /\ \A j, k \in DOMAIN lined : j < k => lined[j] < lined[k]
  <2>1. ASSUME NEW k \in 1 .. count
        PROVE  size + 2 * k - 1 \in 1 .. size + 2 * count
    BY <1>10, <1>16
  <2>2. lined \in [1 .. count -> 1 .. Len(operand)]
    BY <2>1, <1>18, <1>23
  <2>3. lined \in Seq(1 .. Len(operand)) /\ DOMAIN lined = 1 .. count
    BY <2>2, <1>16
  <2>4. ASSUME NEW j \in 1 .. count, NEW k \in 1 .. count, j < k
        PROVE  lined[j] < lined[k]
    <3>1. lined[j] = size + 2 * j - 1 /\ lined[k] = size + 2 * k - 1
      BY <1>23
    <3>2. QED
      BY <3>1, <2>4, <1>10, <1>16
  <2>5. QED
    BY <2>3, <2>4
<1>25. /\ Write(code, operand, lined, w.line, w.op, w.args)
       /\ pool' = c.size /\ reported' = (reported \/ pool >= PoolMax) /\ names' = names
  <2>1. /\ Write(IF size = 1 THEN "CLOSURE" ELSE "CLOSURE_LONG", Digits(n, size) \o d,
                 [k \in 1 .. Len(u) |-> size + 2 * k - 1], line, "CLOSURE", <<n, u>>)
        /\ pool' = c.size /\ reported' = (reported \/ pool >= PoolMax) /\ names' = names
    BY <1>4, <1>6, <1>8, <1>14 DEF Closure, Descriptors
  <2>2. QED
    BY <2>1, <1>9, <1>12, <1>15, <1>17, <1>20, <1>23
<1>26. /\ ByteAt(w.at)' = Code(code)
       /\ \A k \in 1 .. Len(operand) : ByteAt(w.at + k)' = operand[k]
  BY <1>1, <1>11, <1>18, <1>20, <1>25, NewBytes
<1>27. \A k \in 1 .. size : ByteAt(w.at + k)' = Digits(n, size)[k]
  <2>1. \A k \in 1 .. size : k \in 1 .. Len(operand)
    BY <1>10, <1>16, <1>18
  <2>2. QED
    BY <2>1, <1>12, <1>18, <1>26
<1>28. Headed(w, size)'
  BY <1>2, <1>10, <1>20, <1>21, <1>26, <1>27, NewHead
<1>29. ASSUME NEW k \in 1 .. count
       PROVE  /\ ByteAt(w.at + size + 2 * k - 1)' = u[k][1]
              /\ ByteAt(w.at + size + 2 * k)' = u[k][2]
  <2>1. /\ 2 * k - 1 \in 1 .. 2 * count /\ 2 * k \in 1 .. 2 * count
        /\ d[2 * k - 1] = u[k][1] /\ d[2 * k] = u[k][2]
    BY <1>16 DEF Describe
  <2>2. size + (2 * k - 1) \in 1 .. Len(operand) /\ size + 2 * k \in 1 .. Len(operand)
    BY <2>1, <1>10, <1>16, <1>18
  <2>3. /\ w.at + (size + (2 * k - 1)) = w.at + size + 2 * k - 1
        /\ w.at + (size + 2 * k) = w.at + size + 2 * k
    BY <1>1, <1>10, <1>16, <1>20
  <2>4. ByteAt(w.at + (size + (2 * k - 1)))' = u[k][1]
    BY <2>1, <2>2, <1>16, <1>18, <1>26
  <2>5. ByteAt(w.at + (size + 2 * k))' = u[k][2]
    BY <2>1, <2>2, <1>16, <1>18, <1>26
  <2>6. QED
    BY <2>3, <2>4, <2>5
<1>30. AsClosure(w, e)'
  <2>1. w.args = <<w.args[1], w.args[2]>> /\ w.args[2] \in Upvals /\ w.op = "CLOSURE"
    BY <1>20, <1>21
  <2>2. e = w.at + 1 + size + 2 * Len(w.args[2])
    BY <1>15, <1>20, <1>21, <1>22
  <2>3. \A k \in 1 .. Len(w.args[2]) :
          /\ ByteAt(w.at + size + 2 * k - 1)' = w.args[2][k][1]
          /\ ByteAt(w.at + size + 2 * k)' = w.args[2][k][2]
    BY <1>15, <1>21, <1>29
  <2>4. QED
    BY <2>1, <2>2, <2>3, <1>10, <1>28 DEF AsClosure
<1>31. Coded(w, e)' /\ e = Size + 1 + Len(operand)
  BY <1>1, <1>10, <1>16, <1>18, <1>22, <1>30 DEF Coded
<1>32. reported' \in BOOLEAN /\ (~reported' => ~(pool >= PoolMax))
  BY <1>25, Zenon
<1>33. pool' \in pool .. PoolMax /\ names' = names
  BY <1>5, <1>25
<1>34. ~reported' => n = pool /\ n \in 0 .. pool' - 1
  BY <1>5, <1>6, <1>25, <1>32, PoolIs
<1>35. ~reported' =>
         /\ Coded(w, e)'
         /\ w.op \in ConstOps => w.args[1] \in 0 .. pool' - 1
         /\ w.op = "CLOSURE" => w.args[1] = pool
  BY <1>21, <1>31, <1>34
<1>36. QED
  BY <1>11, <1>18, <1>20, <1>24, <1>25, <1>31, <1>32, <1>33, <1>35, Writing

(* What leaves the code as it is.                                          *)
LEMMA SameCode ==
  ASSUME ChunkInv, UNCHANGED <<bytes, lines, written>>, reported' \in BOOLEAN,
         reported => reported', pool' \in pool .. PoolMax, names' \subseteq Nat,
         ~reported' => names' \subseteq 0 .. pool' - 1
  PROVE  ChunkInv'
<1>1. Typed /\ Ordered /\ Lined /\ pool \in Nat /\ PoolMax \in Nat
  BY PoolIs DEF ChunkInv
<1>2. /\ bytes' = bytes /\ lines' = lines /\ written' = written /\ Size' = Size
      /\ \A i : EndOf(i)' = EndOf(i)
  BY DEF Size, EndOf
<1>3. Typed'
  BY <1>1, <1>2 DEF Typed
<1>4. Ordered' /\ Lined'
  BY <1>1, <1>2 DEF Ordered, Lined
<1>5. ASSUME ~reported'
      PROVE  Meant'
  <2>1. Meant
    BY <1>5 DEF ChunkInv
  <2>2. ASSUME NEW i \in DOMAIN written
        PROVE  Coded(written[i], EndOf(i))'
    <3>1. PICK v \in Instr : v = written[i]
      BY <1>1, WrittenTyped
    <3>2. PICK e : e = EndOf(i)
      OBVIOUS
    <3>3. Coded(v, e)
      BY <2>1, <3>1, <3>2 DEF Meant
    <3>4. \A p \in Nat : ByteAt(p)' = ByteAt(p)
      BY <1>2 DEF ByteAt
    <3>5. Coded(v, e)'
      BY <3>3, <3>4, Kept
    <3>6. QED
      BY <3>1, <3>2, <3>5, <1>2
  <2>3. ASSUME NEW i \in DOMAIN written, Constant(i)
        PROVE  written[i].args[1] \in 0 .. pool' - 1
    <3>1. written[i].args[1] \in 0 .. pool - 1
      BY <2>1, <2>3 DEF Meant
    <3>2. QED
      BY <3>1, <1>1
  <2>4. QED
    BY <2>1, <2>2, <2>3, <1>2, <1>5 DEF Meant, Constant, Closes
<1>6. QED
  BY <1>3, <1>4, <1>5 DEF ChunkInv

LEMMA IdentifierKeeps ==
  ASSUME ChunkInv, ~reported, Identifier
  PROVE  ChunkInv'
<1>1. PICK c : c = AddConst
  OBVIOUS
<1>2. /\ pool' = c.size /\ reported' = (reported \/ c.offset = PoolMax)
      /\ names' = names \cup {c.offset} /\ UNCHANGED <<bytes, lines, written>>
  BY <1>1 DEF Identifier
<1>3. /\ c.offset \in 0 .. PoolMax /\ c.size \in pool .. PoolMax
      /\ c.offset # PoolMax => c.offset = pool /\ c.size = pool + 1
  BY <1>1, PoolIs DEF AddConst
<1>4. reported' \in BOOLEAN /\ (~reported' => c.offset # PoolMax)
  BY <1>2, Zenon
<1>5. names \subseteq Nat /\ names \subseteq 0 .. pool - 1 /\ pool \in Nat
  BY PoolIs DEF ChunkInv, Typed
<1>6. names' \subseteq Nat /\ pool' \in pool .. PoolMax
  <2>1. c.offset \in Nat
    BY <1>3, PoolIs
  <2>2. QED
    BY <2>1, <1>2, <1>3, <1>5
<1>7. ~reported' => names' \subseteq 0 .. pool' - 1
  <2> SUFFICES ASSUME ~reported', NEW n \in names'
               PROVE  n \in 0 .. pool' - 1
    OBVIOUS
  <2>1. c.offset = pool /\ pool' = pool + 1
    BY <1>2, <1>3, <1>4
  <2>2. n = pool \/ n \in 0 .. pool - 1
    BY <2>1, <1>2, <1>5
  <2>3. QED
    BY <2>1, <2>2, <1>5
<1>8. QED
  BY <1>2, <1>4, <1>6, <1>7, SameCode

LEMMA JumpIsCoded ==
  ASSUME NEW w, NEW e, Coded(w, e), w.op \in {"JMP", "JMP_IF_FALSE"}
  PROVE  AsJump(w, e)
<1>1. ~AsPlain(w, e) /\ ~AsSole(w, e)
  BY DEF AsPlain, AsSole, PlainOps, SoleOps, ConstOps, LocalOps, UpvalOps
<1>2. ~AsSuperInvoke(w, e) /\ ~AsInvoke(w, e) /\ ~AsClosure(w, e) /\ ~AsLoop(w, e)
  BY DEF AsSuperInvoke, AsInvoke, AsClosure, AsLoop
<1>3. QED
  BY <1>1, <1>2 DEF Coded

LEMMA OfLength ==
  ASSUME NEW S, NEW n \in Nat, NEW b \in [1 .. n -> S]
  PROVE  b \in Seq(S) /\ Len(b) = n
<1>1. b \in Seq(S)
  OBVIOUS
<1>2. DOMAIN b = 1 .. n /\ DOMAIN b = 1 .. Len(b) /\ Len(b) \in Nat
  BY <1>1, LenProperties
<1>3. QED
  BY <1>1, <1>2

LEMMA PatchJumpKeeps ==
  ASSUME ChunkInv, ~reported, NEW i \in DOMAIN written, PatchJump(i)
  PROVE  ChunkInv'
<1>1. /\ Typed /\ Ordered /\ Lined /\ Meant
      /\ Len(written) \in Nat /\ DOMAIN written = 1 .. Len(written)
      /\ \A j \in 1 .. Len(written) : written[j] \in Instr /\ written[j].at \in Nat
  BY WrittenTyped DEF ChunkInv
<1>2. PICK size \in Nat : size = Size
  BY WrittenTyped DEF ChunkInv
<1>3. PICK v \in Instr : v = written[i]
  BY <1>1
<1>4. v.at \in Nat /\ v.op \in {"JMP", "JMP_IF_FALSE"} /\ v.args = <<NoTarget>>
  BY <1>3 DEF PatchJump, Instr
<1>5. CASE Distance(i) >= JumpMax
  <2>1. reported' = TRUE /\ UNCHANGED <<bytes, lines, written, pool, names>>
    BY <1>5 DEF PatchJump
  <2>2. reported' \in BOOLEAN /\ pool' \in pool .. PoolMax /\ names' \subseteq Nat
    BY <2>1, <1>1, PoolIs DEF Typed
  <2>3. QED
    BY <2>1, <2>2, SameCode
<1>6. CASE ~(Distance(i) >= JumpMax)
  <2>1. AsJump(v, EndOf(i))
    BY <1>1, <1>3, <1>4, JumpIsCoded DEF Meant
  <2>2. EndOf(i) = v.at + 3 /\ EndOf(i) <= size
    BY <2>1, <1>1, <1>2, <1>3, Ends DEF AsJump
  <2>3. PICK n : n = size - (v.at + 3)
    OBVIOUS
  <2>4. n \in Nat /\ n = Distance(i)
    BY <2>2, <2>3, <1>2, <1>3, <1>4 DEF Distance
  <2>5. n \in 0 .. JumpMax /\ Fits(JumpMax, 2) /\ 2 \in Sizes
    BY <2>4, <1>6, ChunkAssumption DEF Fits, Sizes
  <2>6. Fits(n, 2)
    BY <2>5, FitsBelow
  <2>7. PICK digits : digits = Digits(n, 2)
    OBVIOUS
  <2>8. digits[1] \in 0 .. Byte - 1 /\ digits[2] \in 0 .. Byte - 1
    <3>1. digits \in Seq(0 .. Byte - 1) /\ Len(digits) = 2
      BY <2>4, <2>7, DigitsAre
    <3>2. 1 \in 1 .. Len(digits) /\ 2 \in 1 .. Len(digits)
      BY <3>1
    <3>3. QED
      BY <3>1, <3>2, ElementOfSeq
  <2>9. PICK w : w = [v EXCEPT !.args = <<size>>]
    OBVIOUS
  <2>10. /\ w \in Instr /\ w.at = v.at /\ w.op = v.op /\ w.line = v.line /\ w.args = <<size>>
    BY <2>9, <1>2 DEF Instr, Args
  <2>11. /\ bytes' = [k \in DOMAIN bytes |->
               IF k = v.at + 2 THEN digits[1]
               ELSE IF k = v.at + 3 THEN digits[2] ELSE bytes[k]]
         /\ written' = [written EXCEPT ![i] = w]
         /\ UNCHANGED <<lines, pool, names, reported>>
    BY <2>4, <2>7, <2>9, <1>2, <1>3, <1>6 DEF PatchJump
  <2>12. Len(bytes) = size /\ DOMAIN bytes = 1 .. size /\ bytes \in [1 .. size -> 0 .. Byte - 1]
    <3>1. bytes \in Seq(0 .. Byte - 1) /\ Len(bytes) = size
      BY <1>1, <1>2 DEF Typed, Size
    <3>2. QED
      BY <3>1, LenProperties
  <2>13. bytes' \in [1 .. size -> 0 .. Byte - 1]
    BY <2>8, <2>11, <2>12
  <2>14. bytes' \in Seq(0 .. Byte - 1) /\ Size' = size
    <3>1. PICK b : b = bytes'
      OBVIOUS
    <3>2. b \in [1 .. size -> 0 .. Byte - 1]
      BY <3>1, <2>13
    <3>3. b \in Seq(0 .. Byte - 1) /\ Len(b) = size
      BY <3>2, <1>2, OfLength
    <3>4. QED
      BY <3>1, <3>3 DEF Size
  <2>15. /\ written' \in Seq(Instr) /\ Len(written') = Len(written)
         /\ DOMAIN written' = DOMAIN written
         /\ written'[i] = w /\ \A j \in DOMAIN written : j # i => written'[j] = written[j]
    <3>1. written \in [1 .. Len(written) -> Instr]
      BY <1>1 DEF Typed
    <3>2. written' \in [1 .. Len(written) -> Instr]
      BY <3>1, <2>10, <2>11
    <3>3. QED
      BY <3>1, <3>2, <2>11, <1>1
  <2>16. \A j \in DOMAIN written :
           /\ written'[j].at = written[j].at /\ written'[j].op = written[j].op
           /\ written'[j].line = written[j].line
    BY <2>10, <2>15, <1>3
  <2>17. \A j \in DOMAIN written : EndOf(j)' = EndOf(j)
    <3> TAKE j \in DOMAIN written
    <3>1. CASE j < Len(written)
      <4>1. j + 1 \in DOMAIN written
        BY <3>1, <1>1
      <4>2. QED
        BY <4>1, <3>1, <2>15, <2>16 DEF EndOf
    <3>2. CASE ~(j < Len(written))
      BY <3>2, <2>14, <2>15, <1>2 DEF EndOf
    <3>3. QED
      BY <3>1, <3>2
  <2>18. Typed'
    BY <1>1, <2>11, <2>14, <2>15 DEF Typed
  <2>19. Ordered'
    BY <1>1, <1>2, <2>14, <2>15, <2>16 DEF Ordered
  <2>20. Lined'
    <3>1. \A j, k \in DOMAIN lines : j < k => lines[j].pos < lines[k].pos
      BY <1>1 DEF Lined
    <3>2. ASSUME NEW k \in DOMAIN lines
          PROVE  \E j \in DOMAIN written' :
                   /\ written'[j].at <= lines[k].pos /\ lines[k].pos < EndOf(j)'
                   /\ lines[k].line = written'[j].line
      <4>1. PICK j \in DOMAIN written :
              /\ written[j].at <= lines[k].pos /\ lines[k].pos < EndOf(j)
              /\ lines[k].line = written[j].line
        BY <1>1 DEF Lined
      <4>2. QED
        BY <4>1, <2>15, <2>16, <2>17
    <3>3. ASSUME NEW j \in DOMAIN written
          PROVE  \E k \in DOMAIN lines : lines[k].pos = written'[j].at
      <4>1. \E k \in DOMAIN lines : lines[k].pos = written[j].at
        BY <1>1 DEF Lined
      <4>2. QED
        BY <4>1, <2>16
    <3>4. lines' = lines
      BY <2>11
    <3>5. QED
      BY <3>1, <3>2, <3>3, <3>4, <2>15 DEF Lined
  <2>21. /\ \A p \in Nat : p < size /\ p # v.at + 1 /\ p # v.at + 2 => ByteAt(p)' = ByteAt(p)
         /\ ByteAt(v.at + 1)' = digits[1] /\ ByteAt(v.at + 2)' = digits[2]
    <3>1. ASSUME NEW p \in Nat, p < size, p # v.at + 1, p # v.at + 2
          PROVE  ByteAt(p)' = ByteAt(p)
      <4>1. p + 1 \in 1 .. size /\ p + 1 # v.at + 2 /\ p + 1 # v.at + 3
        BY <3>1, <1>4
      <4>2. QED
        BY <4>1, <2>11, <2>12 DEF ByteAt
    <3>2. /\ v.at + 1 + 1 = v.at + 2 /\ v.at + 2 + 1 = v.at + 3 /\ v.at + 3 # v.at + 2
          /\ v.at + 2 \in 1 .. size /\ v.at + 3 \in 1 .. size
      BY <1>4, <2>2
    <3>3. QED
      BY <3>1, <3>2, <2>11, <2>12 DEF ByteAt
  <2>22. ASSUME NEW j \in DOMAIN written
         PROVE  Coded(written[j], EndOf(j))'
    <3>1. CASE j = i
      <4>1. PICK e : e = EndOf(i)
        OBVIOUS
      <4>2. \A k \in 1 .. 2 : ByteAt(w.at + k)' = Digits(n, 2)[k]
        BY <2>7, <2>10, <2>21
      <4>3. Operand(w.at + 1, 2, n)'
        BY <4>2, <2>6, <2>10, NewDistance
      <4>4. ByteAt(w.at)' = ByteAt(v.at)
        BY <2>2, <2>10, <2>21, <1>2, <1>4
      <4>5. w.args[1] = size /\ w.args = <<w.args[1]>> /\ size - (w.at + 3) = n
        BY <2>3, <2>10
      <4>6. AsJump(w, e)'
        BY <4>1, <4>3, <4>4, <4>5, <2>1, <2>2, <2>10, <1>2, <1>4 DEF AsJump
      <4>7. Coded(w, e)'
        BY <4>6 DEF Coded
      <4>8. QED
        BY <4>1, <4>7, <3>1, <2>15, <2>17
    <3>2. CASE j # i
      <4>1. PICK u \in Instr : u = written[j]
        BY <1>1
      <4>2. PICK e : e = EndOf(j)
        OBVIOUS
      <4>3. Coded(u, e) /\ e \in Nat /\ u.at \in Nat /\ e <= size
        BY <4>1, <4>2, <1>1, <1>2, Ends DEF Meant
      <4>4. e <= v.at \/ v.at + 3 <= u.at
        <5>1. j < i \/ i < j
          BY <3>2, <1>1
        <5>2. QED
          BY <5>1, <4>1, <4>2, <2>2, <1>1, <1>3, Ends
      <4>5. ASSUME NEW p \in Nat, u.at <= p, p < e
            PROVE  ByteAt(p)' = ByteAt(p)
        <5>1. p < size /\ p # v.at + 1 /\ p # v.at + 2
          BY <4>3, <4>4, <4>5, <1>4
        <5>2. QED
          BY <5>1, <2>21
      <4>6. Coded(u, e)'
        BY <4>3, <4>5, Kept
      <4>7. QED
        BY <4>1, <4>2, <4>6, <3>2, <2>15, <2>17
    <3>3. QED
      BY <3>1, <3>2
  <2>23. \A j \in DOMAIN written :
           (Constant(j)' \/ Closes(j)') => written'[j] = written[j]
    BY <2>10, <2>15, <1>4 DEF Constant, Closes, ConstOps
  <2>24. Meant'
    BY <1>1, <2>11, <2>15, <2>16, <2>22, <2>23 DEF Meant, Constant, Closes
  <2>25. QED
    BY <2>18, <2>19, <2>20, <2>24 DEF ChunkInv
<1>7. QED
  BY <1>5, <1>6

LEMMA InitKeeps ==
  ASSUME ChunkInit
  PROVE  ChunkInv
<1>1. /\ bytes = <<>> /\ lines = <<>> /\ pool \in Pools /\ names = {}
      /\ reported = FALSE /\ written = <<>>
  BY DEF ChunkInit
<1>2. pool \in 0 .. PoolMax
  BY <1>1, ChunkAssumption
<1>3. DOMAIN written = {} /\ DOMAIN lines = {}
  BY <1>1
<1>4. Typed
  <2>1. \A S : <<>> \in Seq(S)
    OBVIOUS
  <2>2. bytes \in Seq(0 .. Byte - 1) /\ lines \in Seq(LineInfo) /\ written \in Seq(Instr)
    BY <1>1, <2>1
  <2>3. names \subseteq Nat /\ reported \in BOOLEAN
    BY <1>1
  <2>4. QED
    BY <1>2, <2>2, <2>3 DEF Typed
<1>5. Ordered /\ Lined /\ Meant
  BY <1>1, <1>3 DEF Ordered, Lined, Meant
<1>6. QED
  BY <1>4, <1>5 DEF ChunkInv

LEMMA StopKeeps ==
  ASSUME ChunkInv, UNCHANGED chunk
  PROVE  ChunkInv'
<1>1. UNCHANGED <<bytes, lines, written>> /\ pool' = pool /\ names' = names /\ reported' = reported
  BY DEF chunk
<1>2. reported' \in BOOLEAN /\ pool' \in pool .. PoolMax
  BY <1>1, PoolIs
<1>3. names' \subseteq Nat /\ (~reported' => names' \subseteq 0 .. pool' - 1)
  BY <1>1 DEF ChunkInv, Typed, Meant
<1>4. QED
  BY <1>1, <1>2, <1>3, SameCode

LEMMA NextKeeps ==
  ASSUME ChunkInv, ChunkNext
  PROVE  ChunkInv'
<1>1. CASE ~reported /\ \E line \in Line :
             \/ \E op \in Ops \cap PlainOps : Simple(op, line)
             \/ Const(line)
             \/ \E n \in names :
                  \/ \E op \in Ops \cap NameOps : UseName(op, n, line)
                  \/ Class(n, line)
                  \/ \E count \in Counts : Invoke(n, count, line) \/ SuperInvoke(n, count, line)
             \/ \E n \in Slots : \E op \in Ops \cap (LocalOps \cup UpvalOps) :
                  (op \in UpvalOps => n < Byte) /\ UseVariable(op, n, line)
             \/ \E upvals \in Upvals : Closure(upvals, line)
             \/ \E count \in Counts : Call(count, line)
             \/ \E op \in Ops \cap {"JMP", "JMP_IF_FALSE"} : Jump(op, line)
             \/ \E i \in DOMAIN written : Loop(i, line)
  <2>1. PICK line \in Line :
             \/ \E op \in Ops \cap PlainOps : Simple(op, line)
             \/ Const(line)
             \/ \E n \in names :
                  \/ \E op \in Ops \cap NameOps : UseName(op, n, line)
                  \/ Class(n, line)
                  \/ \E count \in Counts : Invoke(n, count, line) \/ SuperInvoke(n, count, line)
             \/ \E n \in Slots : \E op \in Ops \cap (LocalOps \cup UpvalOps) :
                  (op \in UpvalOps => n < Byte) /\ UseVariable(op, n, line)
             \/ \E upvals \in Upvals : Closure(upvals, line)
             \/ \E count \in Counts : Call(count, line)
             \/ \E op \in Ops \cap {"JMP", "JMP_IF_FALSE"} : Jump(op, line)
             \/ \E i \in DOMAIN written : Loop(i, line)
    BY <1>1
  <2>2. CASE \E op \in Ops \cap PlainOps : Simple(op, line)
    BY <1>1, <2>2, SimpleKeeps
  <2>3. CASE Const(line)
    BY <1>1, <2>3, ConstKeeps
  <2>4. CASE \E n \in names : \E op \in Ops \cap NameOps : UseName(op, n, line)
    BY <1>1, <2>4, UseNameKeeps
  <2>5. CASE \E n \in names : Class(n, line)
    BY <1>1, <2>5, ClassKeeps
  <2>6. CASE \E n \in names : \E count \in Counts : Invoke(n, count, line)
    BY <1>1, <2>6, InvokeKeeps
  <2>7. CASE \E n \in names : \E count \in Counts : SuperInvoke(n, count, line)
    BY <1>1, <2>7, SuperInvokeKeeps
  <2>8. CASE \E n \in Slots : \E op \in Ops \cap (LocalOps \cup UpvalOps) :
               (op \in UpvalOps => n < Byte) /\ UseVariable(op, n, line)
    <3>1. PICK n \in Slots, op \in LocalOps \cup UpvalOps :
            (op \in UpvalOps => n < Byte) /\ UseVariable(op, n, line)
      BY <2>8
    <3>2. QED
      BY <1>1, <3>1, UseVariableKeeps
  <2>9. CASE \E upvals \in Upvals : Closure(upvals, line)
    BY <1>1, <2>9, ClosureKeeps
  <2>10. CASE \E count \in Counts : Call(count, line)
    BY <1>1, <2>10, CallKeeps
  <2>11. CASE \E op \in Ops \cap {"JMP", "JMP_IF_FALSE"} : Jump(op, line)
    BY <1>1, <2>11, JumpKeeps
  <2>12. CASE \E i \in DOMAIN written : Loop(i, line)
    BY <1>1, <2>12, LoopKeeps
  <2>13. QED
    BY <2>1, <2>2, <2>3, <2>4, <2>5, <2>6, <2>7, <2>8, <2>9, <2>10, <2>11, <2>12
<1>2. CASE ~reported /\ Identifier
  BY <1>2, IdentifierKeeps
<1>3. CASE ~reported /\ \E i \in DOMAIN written : PatchJump(i)
  BY <1>3, PatchJumpKeeps
<1>4. CASE ChunkStop
  BY <1>4, StopKeeps DEF ChunkStop
<1>5. QED
  BY <1>1, <1>2, <1>3, <1>4 DEF ChunkNext

(* What is written is in the bytes as it was meant, each position has its  *)
(* line, and the constants are in the pool, in every reachable state.      *)
THEOREM SpecMeant == ChunkSpec => []ChunkInv
<1>1. ChunkInit => ChunkInv
  BY InitKeeps
<1>2. ChunkInv /\ [ChunkNext]_chunk => ChunkInv'
  BY NextKeeps, StopKeeps
<1>3. QED
  BY <1>1, <1>2, PTL DEF ChunkSpec

-------------------------------------------------------------------------------
(* What the machine, the disassembler and a report of an error read.       *)

LEMMA UpvalCountIs ==
  ASSUME Typed, Meant, NEW i \in DOMAIN written, Closes(i)
  PROVE  UpvalCount(written[i].args[1]) = Len(written[i].args[2])
<1>1. PICK c : c = written[i].args[1]
  OBVIOUS
<1>2. PICK k : k = {j \in DOMAIN written : written[j].op = "CLOSURE" /\ written[j].args[1] = c}
  OBVIOUS
<1>3. i \in k
  BY <1>1, <1>2 DEF Closes
<1>4. \A j \in k : j = i
  BY <1>1, <1>2 DEF Meant, Closes
<1>5. (CHOOSE j \in k : TRUE) = i
  BY <1>3, <1>4
<1>6. UpvalCount(c) = IF k = {} THEN 0 ELSE Len(written[CHOOSE j \in k : TRUE].args[2])
  BY <1>2 DEF UpvalCount
<1>7. QED
  BY <1>1, <1>3, <1>5, <1>6

LEMMA ReadsBack ==
  ASSUME ChunkInv
  PROVE  CodeReadsBack
<1> SUFFICES ASSUME ~reported, NEW i \in DOMAIN written, NEW d, d = Decode(written[i].at),
                    ~(written[i].op = "INVOKE" /\ ~Short(written[i].args[1]))
             PROVE  /\ d.op = written[i].op /\ d.next = EndOf(i)
                    /\ Patched(i) => d.args = written[i].args
                    /\ Constant(i) => d.args[1] < pool
  BY DEF CodeReadsBack
<1>1. Typed /\ Meant /\ pool \in Nat
  BY PoolIs DEF ChunkInv
<1>2. PICK w \in Instr : w = written[i]
  BY <1>1, WrittenTyped
<1>3. PICK e : e = EndOf(i)
  OBVIOUS
<1>4. Coded(w, e) /\ Exact(w) /\ d = Decode(w.at)
  BY <1>1, <1>2, <1>3 DEF Meant, Exact
<1>5. w.op = "CLOSURE" => UpvalCount(w.args[1]) = Len(w.args[2])
  BY <1>1, <1>2, UpvalCountIs DEF Closes
<1>6. /\ d.op = w.op /\ d.next = e
      /\ w.args # <<NoTarget>> => d.args = w.args
      /\ w.op \in ConstOps => d.args = w.args
  BY <1>4, <1>5, Reading
<1>7. Constant(i) => w.args[1] \in 0 .. pool - 1
  BY <1>1, <1>2 DEF Meant
<1>8. Constant(i) => d.args[1] < pool
  BY <1>1, <1>2, <1>6, <1>7 DEF Constant
<1>9. QED
  BY <1>2, <1>3, <1>6, <1>8 DEF Patched

LEMMA Follows ==
  ASSUME ChunkInv
  PROVE  DisassemblerFollows
<1> SUFFICES ASSUME ~reported, NEW i \in DOMAIN written,
                    OpAt(ByteAt(written[i].at)) \notin LongOps
             PROVE  Disassemble(written[i].at) = EndOf(i)
  BY DEF DisassemblerFollows
<1>1. Typed /\ Meant
  BY DEF ChunkInv
<1>2. PICK w \in Instr : w = written[i]
  BY <1>1, WrittenTyped
<1>3. PICK e : e = EndOf(i)
  OBVIOUS
<1>4. Coded(w, e) /\ OpAt(ByteAt(w.at)) \notin LongOps
  BY <1>1, <1>2, <1>3 DEF Meant
<1>5. w.op = "CLOSURE" => UpvalCount(w.args[1]) = Len(w.args[2])
  BY <1>1, <1>2, UpvalCountIs DEF Closes
<1>6. Disassemble(w.at) = e
  BY <1>4, <1>5, Disassembling
<1>7. QED
  BY <1>2, <1>3, <1>6

Below == {p \in Nat \X Nat : p[1] < p[2]}

LEMMA GreatestOf ==
  ASSUME NEW n \in Nat, NEW K, K \subseteq 1 .. n, K # {}
  PROVE  \E m \in K : \A k \in K : k <= m
<1>1. Below = OpToRel(<, Nat)
  BY DEF Below, OpToRel
<1>2. IsWellFoundedOn(Below, Nat)
  BY <1>1, NatLessThanWellFounded
<1>3. PICK T : T = {n - k : k \in K}
  OBVIOUS
<1>4. T \subseteq Nat /\ T # {}
  <2>1. \A k \in K : n - k \in Nat
    OBVIOUS
  <2>2. QED
    BY <2>1, <1>3
<1>5. PICK t \in T : \A s \in T : ~(<<s, t>> \in Below)
  BY <1>2, <1>4, WFMin
<1>6. PICK m \in K : t = n - m
  BY <1>3, <1>5
<1>7. ASSUME NEW k \in K
      PROVE  k <= m
  <2>1. n - k \in T
    BY <1>3
  <2>2. n - k \in Nat /\ t \in Nat /\ ~(n - k < t)
    BY <2>1, <1>4, <1>5 DEF Below
  <2>3. QED
    BY <2>2, <1>6
<1>8. QED
  BY <1>7

LEMMA LinesFollow ==
  ASSUME ChunkInv
  PROVE  LinesKept
<1> SUFFICES ASSUME NEW i \in DOMAIN written, NEW pos \in written[i].at .. EndOf(i) - 1
             PROVE  GetLine(pos) = written[i].line
  BY DEF LinesKept
<1>1. /\ Typed /\ Ordered /\ Lined
      /\ Len(written) \in Nat /\ DOMAIN written = 1 .. Len(written)
      /\ Len(lines) \in Nat /\ DOMAIN lines = 1 .. Len(lines)
      /\ \A k \in 1 .. Len(lines) : lines[k].pos \in Nat
  BY WrittenTyped DEF ChunkInv
<1>2. /\ written[i].at \in Nat /\ EndOf(i) \in Nat
      /\ pos \in Nat /\ written[i].at <= pos /\ pos < EndOf(i)
  BY <1>1, Ends
<1>3. PICK K : K = {k \in DOMAIN lines : lines[k].pos <= pos}
  OBVIOUS
<1>4. PICK first \in K : lines[first].pos = written[i].at
  BY <1>1, <1>2, <1>3 DEF Lined
<1>5. K \subseteq 1 .. Len(lines) /\ K # {}
  BY <1>1, <1>3, <1>4
<1>6. \E m \in K : \A k \in K : k <= m
  BY <1>1, <1>5, GreatestOf
<1>7. PICK m : m = CHOOSE k \in DOMAIN lines : lines[k].pos <= pos
                     /\ \A j \in DOMAIN lines : lines[j].pos <= pos => j <= k
  OBVIOUS
<1>8. m \in K /\ \A k \in K : k <= m
  <2>1. \E k \in DOMAIN lines : lines[k].pos <= pos
           /\ \A j \in DOMAIN lines : lines[j].pos <= pos => j <= k
    BY <1>3, <1>6
  <2>2. /\ m \in DOMAIN lines /\ lines[m].pos <= pos
        /\ \A j \in DOMAIN lines : lines[j].pos <= pos => j <= m
    BY <2>1, <1>7
  <2>3. QED
    BY <2>2, <1>3
<1>9. GetLine(pos) = lines[m].line
  BY <1>7 DEF GetLine
<1>10. /\ lines[m].pos \in Nat /\ lines[m].pos <= pos /\ written[i].at <= lines[m].pos
  <2>1. first <= m /\ first \in DOMAIN lines /\ m \in DOMAIN lines /\ lines[m].pos <= pos
    BY <1>3, <1>4, <1>8
  <2>2. first = m \/ first < m
    BY <2>1, <1>1
  <2>3. first < m => lines[first].pos < lines[m].pos
    BY <2>1, <1>1 DEF Lined
  <2>4. lines[first].pos \in Nat /\ lines[m].pos \in Nat
    BY <2>1, <1>1
  <2>5. QED
    BY <2>1, <2>2, <2>3, <2>4, <1>4
<1>11. PICK j \in DOMAIN written :
         /\ written[j].at <= lines[m].pos /\ lines[m].pos < EndOf(j)
         /\ lines[m].line = written[j].line
  BY <1>1, <1>3, <1>8 DEF Lined
<1>12. j = i
  <2>1. written[j].at \in Nat /\ EndOf(j) \in Nat
    BY <1>1, Ends
  <2>2. i < j => EndOf(i) <= written[j].at
    BY <1>1, Ends
  <2>3. j < i => EndOf(j) <= written[i].at
    BY <1>1, Ends
  <2>4. ~(i < j) /\ ~(j < i)
    BY <1>2, <1>10, <1>11, <2>1, <2>2, <2>3
  <2>5. QED
    BY <1>1, <2>4
<1>13. QED
  BY <1>9, <1>11, <1>12

(* The machine reads every instruction as the compiler meant it, in the    *)
(* short and in the long form, for every pool, number and order of         *)
(* instructions.                                                           *)
THEOREM CodeIsRead == ChunkSpec => []CodeReadsBack
<1>1. ChunkInv => CodeReadsBack
  BY ReadsBack
<1>2. QED
  BY <1>1, SpecMeant, PTL

(* chunk_get_line finds for each byte the line of its instruction.         *)
THEOREM LinesAreKept == ChunkSpec => []LinesKept
<1>1. ChunkInv => LinesKept
  BY LinesFollow
<1>2. QED
  BY <1>1, SpecMeant, PTL

(* The disassembler keeps in step with code that has no long forms.        *)
THEOREM DisassemblerKeepsStep == ChunkSpec => []DisassemblerFollows
<1>1. ChunkInv => DisassemblerFollows
  BY Follows
<1>2. QED
  BY <1>1, SpecMeant, PTL
===============================================================================
