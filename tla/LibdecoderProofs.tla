--------------------------- MODULE LibdecoderProofs ---------------------------
(***************************************************************************)
(* What decode_bitstream returns, for every six bytes it may look at.      *)
(***************************************************************************)
EXTENDS Libdecoder, TLAPS

\* A row of op_cmds, and the combinations of features the rows do not have: a row with
\* an address or a short instruction has no MOD field, a short one no data, and a field
\* of the second byte is in a register byte.
TableRow ==
    [op : Ops, opcode : Byte, opcode_bitmask : Byte, w_flag_shift : {0, 3},
     reg_field_shift : {0, 3}, has : SUBSET Features]
Sound(cmd) ==
    /\ cmd \in TableRow
    /\ "op_has_address_bytes" \in cmd.has => "byte2_has_mod_field" \notin cmd.has
    /\ {"byte2_has_reg_field", "byte2_has_mod_field", "byte2_has_rm_field",
        "byte2_has_sr_field", "byte2_has_op_encode_field"} \cap cmd.has # {}
          => "op_has_register_byte" \in cmd.has
    /\ "is_short_instruction" \in cmd.has =>
          /\ "byte2_has_mod_field" \notin cmd.has
          /\ "op_has_address_bytes" \notin cmd.has
          /\ "op_has_data_bytes" \notin cmd.has

\* Every row of the table is sound: a property of instruction_bitstream.h.
LEMMA RowsAreSound == \A n \in 1..Len(op_cmds) : Sound(op_cmds[n])
<1> USE DEF Row, Sound, TableRow, Features, RegMem, Accumulator, Byte, Ops, ArithOps
<1>1. Sound(mov1_op)  BY DEF mov1_op
<1>2. Sound(mov2_op)  BY DEF mov2_op
<1>3. Sound(mov3_op)  BY DEF mov3_op
<1>4. Sound(mov4_op)  BY DEF mov4_op
<1>5. Sound(mov5_op)  BY DEF mov5_op
<1>6. Sound(mov6_op)  BY DEF mov6_op
<1>7. Sound(mov7_op)  BY DEF mov7_op
<1>8. Sound(add1_op)  BY DEF add1_op
<1>9. Sound(multi1_op)  BY DEF multi1_op
<1>10. Sound(add2_op)  BY DEF add2_op
<1>11. Sound(sub1_op)  BY DEF sub1_op
<1>12. Sound(sub2_op)  BY DEF sub2_op
<1>13. Sound(cmp1_op)  BY DEF cmp1_op
<1>14. Sound(cmp2_op)  BY DEF cmp2_op
<1>15. Sound(jump_op)  BY DEF jump_op
<1>16. Sound(loop_op)  BY DEF loop_op
<1> HIDE DEF Sound
<1>17. Len(op_cmds) = 16  BY DEF op_cmds
<1>18. SUFFICES ASSUME NEW n \in 1..16 PROVE Sound(op_cmds[n])  BY <1>17
<1>19. op_cmds[n] \in {mov1_op, mov2_op, mov3_op, mov4_op, mov5_op, mov6_op, mov7_op,
                      add1_op, multi1_op, add2_op, sub1_op, sub2_op, cmp1_op, cmp2_op,
                      jump_op, loop_op}
  BY DEF op_cmds
<1> QED  BY <1>1, <1>2, <1>3, <1>4, <1>5, <1>6, <1>7, <1>8, <1>9, <1>10, <1>11, <1>12,
           <1>13, <1>14, <1>15, <1>16, <1>19

-----------------------------------------------------------------------------
(* The fields and the operands.                                            *)

\* A field of a byte is one of its values.
LEMMA FieldType ==
    ASSUME NEW byte \in Byte, NEW shift \in 0..6, NEW values \in {2, 4, 8, 16}
    PROVE  Field(byte, shift, values) \in 0..(values - 1)
<1>1. Shl[shift + 1] \in {1, 2, 4, 8, 16, 32, 64}  BY DEF Shl
<1>2. byte \div Shl[shift + 1] \in Nat  BY <1>1 DEF Byte
<1>3. \A q \in Nat : q % 2 \in 0..1 /\ q % 4 \in 0..3 /\ q % 8 \in 0..7 /\ q % 16 \in 0..15
  OBVIOUS
<1> QED  BY <1>2, <1>3 DEF Field

\* What parse_instruction reads from the first two bytes.
FieldsOf == [d : 0..1, s : 0..1, w : 0..1, reg : 0..7, mod : 0..3, rm : 0..7, sr : 0..3]

LEMMA FieldsType ==
    ASSUME NEW cmd, Sound(cmd), NEW b \in [Window -> Byte]
    PROVE  Fields(cmd, b) \in FieldsOf
<1>1. b[0] \in Byte /\ b[1] \in Byte  BY DEF Window
<1>2. cmd.w_flag_shift \in 0..6 /\ cmd.reg_field_shift \in 0..6  BY DEF Sound, TableRow
<1>3. Field(b[0], 1, 2) \in 0..1 /\ Field(b[0], cmd.w_flag_shift, 2) \in 0..1
  BY <1>1, <1>2, FieldType
<1>4. Field(b[1], cmd.reg_field_shift, 8) \in 0..7 /\ Field(b[0], cmd.reg_field_shift, 8) \in 0..7
  BY <1>1, <1>2, FieldType
<1>5. Field(b[1], 6, 4) \in 0..3 /\ Field(b[1], 0, 8) \in 0..7 /\ Field(b[1], 3, 4) \in 0..3
  BY <1>1, FieldType
<1> HIDE DEF Field
<1> QED  BY <1>3, <1>4, <1>5 DEF Fields, FieldsOf

\* Membership in Word and in Byte as bounds.
LEMMA WordBounds == \A n : n \in Word <=> n \in Int /\ 0 <= n /\ n <= 65535
<1> DEFINE top == 65535
<1>1. top \in Int  OBVIOUS
<1>2. Word = 0..top  BY DEF Word
<1> HIDE DEF top
<1>3. \A n : n \in 0..top => n \in Int /\ 0 <= n /\ n <= top  BY <1>1
<1>4. \A n : n \in Int /\ 0 <= n /\ n <= top => n \in 0..top  BY <1>1
<1>5. \A n : n \in Word <=> n \in Int /\ 0 <= n /\ n <= top  BY <1>2, <1>3, <1>4, Zenon
<1> QED  BY <1>5 DEF top

LEMMA ByteBounds == \A n : n \in Byte <=> n \in Int /\ 0 <= n /\ n <= 255
BY DEF Byte

\* An operand that names what its type says it names.
ProperOperand ==
    {o \in Operand : /\ o.type = "TYPE_REGISTER" => o.register \in Registers
                     /\ o.type = "TYPE_SEGMENT_REGISTER" => o.seg_register \in SegRegisters}

\* Every operand the decoder builds is well formed, and proper.
LEMMA OperandsAreTyped ==
    /\ NoOperand \in ProperOperand
    /\ DataOperand \in ProperOperand
    /\ \A field \in 0..7, w \in 0..1 : RegOperand(field, w) \in ProperOperand
    /\ \A field \in 0..3 : SegOperand(field) \in ProperOperand
    /\ \A a \in Word : DirectOperand(a) \in ProperOperand
    /\ \A rm \in 0..7, a \in Word : EffectiveOperand(rm, a) \in ProperOperand
    /\ \A r \in Registers : NamedRegister(r) \in ProperOperand
<1>1. NoOperand \in ProperOperand  BY WordBounds DEF NoOperand, ProperOperand, Operand, OperandTypes
<1> HIDE DEF NoOperand
<1>2. DataOperand \in ProperOperand  BY <1>1 DEF DataOperand, ProperOperand, Operand, OperandTypes
<1>3. ASSUME NEW field \in 0..7, NEW w \in 0..1 PROVE RegOperand(field, w) \in ProperOperand
  <2>1. register_map[field][w] \in Registers
    BY DEF register_map, Registers, HalfRegisters, FullRegisters
  <2> QED  BY <1>1, <2>1 DEF RegOperand, ProperOperand, Operand, OperandTypes
<1>4. ASSUME NEW field \in 0..3 PROVE SegOperand(field) \in ProperOperand
  <2>1. segment_register_map[field] \in SegRegisters
    BY DEF segment_register_map, SegRegisters
  <2> QED  BY <1>1, <2>1 DEF SegOperand, ProperOperand, Operand, OperandTypes
<1>5. ASSUME NEW a \in Word PROVE DirectOperand(a) \in ProperOperand
  BY <1>1 DEF DirectOperand, ProperOperand, Operand, OperandTypes
<1>6. ASSUME NEW rm \in 0..7, NEW a \in Word PROVE EffectiveOperand(rm, a) \in ProperOperand
  <2>1. /\ mod_effective_address_map[rm][1] \in Registers \cup {"MAX_REG"}
        /\ mod_effective_address_map[rm][2] \in Registers \cup {"MAX_REG"}
    BY DEF mod_effective_address_map, Registers, FullRegisters
  <2> QED  BY <1>1, <2>1 DEF EffectiveOperand, ProperOperand, Operand, OperandTypes
<1>7. ASSUME NEW r \in Registers PROVE NamedRegister(r) \in ProperOperand
  BY <1>1 DEF NamedRegister, ProperOperand, Operand, OperandTypes
<1> QED  BY <1>1, <1>2, <1>3, <1>4, <1>5, <1>6, <1>7

-----------------------------------------------------------------------------
(* The bytes that are read: never beyond the window.                       *)

\* A byte, two bytes or a sign-extended byte of the window are a word.
LEMMA ExtractTypes ==
    ASSUME NEW b \in [Window -> Byte], NEW from \in 0..4
    PROVE  /\ Word16(b[from], b[from + 1]) \in Word
           /\ SignExtend(b[from]) \in Word
           /\ b[from] \in Word
<1>1. b[from] \in Byte /\ b[from + 1] \in Byte  BY DEF Window
<1>2. \A x, y \in Byte : Word16(x, y) \in Word /\ SignExtend(x) \in Word /\ x \in Word
  BY WordBounds, ByteBounds DEF Word16, SignExtend
<1> QED  BY <1>1, <1>2

-----------------------------------------------------------------------------
(* The stages of parse_instruction, with the bytes consumed after each.    *)

\* A well-formed instruction of lo to hi bytes so far, with proper operands.
ProperInstruction == {i \in Instruction : i.dst \in ProperOperand /\ i.src \in ProperOperand}
Within(lo, hi) == {i \in ProperInstruction : i.inst_num_bytes \in lo..hi}

\* The opcode takes one byte, or two with a register byte.
LEMMA OpcodeBytesType ==
    ASSUME NEW cmd, Sound(cmd), NEW b \in [Window -> Byte]
    PROVE  OpcodeBytes(cmd, b) \in Within(1, 2)
<1>1. reset_instruction \in ProperInstruction
  <2>1. "MAX_INST" \in Ops /\ 0 \in Word /\ NoOperand \in ProperOperand
    BY OperandsAreTyped, WordBounds DEF Ops
  <2>2. {} \in SUBSET Decorators /\ 0 \in 0..6  OBVIOUS
  <2>3. NoOperand \in Operand  BY <2>1 DEF ProperOperand
  <2>4. reset_instruction \in Instruction
    BY <2>1, <2>2, <2>3, Zenon DEF reset_instruction, Instruction
  <2> QED  BY <2>1, <2>4 DEF reset_instruction, ProperInstruction
<1>2. op_encoding[Field(b[1], 3, 8)] \in Ops
  <2>1. Field(b[1], 3, 8) \in 0..7  BY FieldType DEF Window
  <2> QED  BY <2>1 DEF op_encoding, Ops, ArithOps
<1>3. cmd.op \in Ops  BY DEF Sound, TableRow
<1> DEFINE op == IF "byte2_has_op_encode_field" \in cmd.has
                 THEN op_encoding[Field(b[1], 3, 8)] ELSE cmd.op
           n == IF "op_has_register_byte" \in cmd.has THEN 2 ELSE 1
<1>4. op \in Ops /\ n \in 1..2 /\ n \in 0..6  BY <1>2, <1>3
<1>5. OpcodeBytes(cmd, b) = [reset_instruction EXCEPT !.op = op, !.inst_num_bytes = n]
  BY DEF OpcodeBytes
<1> HIDE DEF op, n
<1>6. OpcodeBytes(cmd, b) \in ProperInstruction  BY <1>1, <1>4, <1>5 DEF ProperInstruction, Instruction
<1>7. OpcodeBytes(cmd, b).inst_num_bytes = n  BY <1>1, <1>5 DEF ProperInstruction, Instruction
<1> QED  BY <1>4, <1>6, <1>7 DEF Within

\* Naming the operands keeps an instruction well formed and its length.
LEMMA OperandsReplaced ==
    ASSUME NEW lo, NEW hi, NEW i \in Within(lo, hi),
           NEW dst \in ProperOperand, NEW src \in ProperOperand
    PROVE  /\ [i EXCEPT !.dst = dst, !.src = src] \in Within(lo, hi)
           /\ [i EXCEPT !.src = src, !.dst = dst] \in Within(lo, hi)
<1>1. i \in ProperInstruction /\ i.inst_num_bytes \in lo..hi  BY DEF Within
<1>2. /\ [i EXCEPT !.dst = dst, !.src = src] \in ProperInstruction
      /\ [i EXCEPT !.dst = dst, !.src = src].inst_num_bytes = i.inst_num_bytes
  <2>1. i \in Instruction /\ dst \in Operand /\ src \in Operand
    BY <1>1 DEF ProperInstruction, ProperOperand
  <2> DEFINE named == [i EXCEPT !.dst = dst, !.src = src]
  <2>2. /\ named \in Instruction /\ named.dst = dst /\ named.src = src
        /\ named.inst_num_bytes = i.inst_num_bytes
    BY <2>1 DEF Instruction
  <2> QED  BY <2>2 DEF ProperInstruction
<1>3. [i EXCEPT !.src = src, !.dst = dst] = [i EXCEPT !.dst = dst, !.src = src]
  BY <1>1 DEF ProperInstruction, Instruction
<1> QED  BY <1>1, <1>2, <1>3 DEF Within

\* The displacement adds at most two bytes, and only with a MOD field.
LEMMA OperandsType ==
    ASSUME NEW cmd, Sound(cmd), NEW b \in [Window -> Byte], NEW f \in FieldsOf,
           NEW i \in Within(1, 2)
    PROVE  /\ Operands(cmd, f, b, i) \in Within(1, 4)
           /\ "byte2_has_mod_field" \notin cmd.has => Operands(cmd, f, b, i) \in Within(1, 2)
<1> DEFINE after == [i EXCEPT !.inst_num_bytes = @ + DisplacementBytes(f)]
           displacement == IF DisplacementBytes(f) = 0 THEN 0
                           ELSE extract_displacement(b, i.inst_num_bytes, f.mod = 2)
           rm == IF is_register_mode(f) THEN RegOperand(f.rm, f.w)
                 ELSE EffectiveOperand(f.rm, displacement)
<1>0. /\ f.reg \in 0..7 /\ f.rm \in 0..7 /\ f.sr \in 0..3 /\ f.w \in 0..1 /\ f.mod \in 0..3
      /\ i \in ProperInstruction /\ i.inst_num_bytes \in 1..2
  BY DEF FieldsOf, Within
<1>1. RegOperand(f.reg, f.w) \in ProperOperand /\ SegOperand(f.sr) \in ProperOperand /\ DataOperand \in ProperOperand
  BY <1>0, OperandsAreTyped
<1>2. after \in Within(1, 4)
  <2>1. DisplacementBytes(f) \in 0..2  BY DEF DisplacementBytes
  <2>2. i.inst_num_bytes + DisplacementBytes(f) \in 0..6
        /\ i.inst_num_bytes + DisplacementBytes(f) \in 1..4  BY <1>0, <2>1
  <2>3. after \in ProperInstruction  BY <1>0, <2>2 DEF ProperInstruction, Instruction
  <2>4. after.inst_num_bytes = i.inst_num_bytes + DisplacementBytes(f)
    BY <1>0 DEF ProperInstruction, Instruction
  <2> QED  BY <2>2, <2>3, <2>4 DEF Within
<1>3. rm \in ProperOperand
  <2>1. displacement \in Word
    <3>1. /\ Word16(b[i.inst_num_bytes], b[i.inst_num_bytes + 1]) \in Word
          /\ SignExtend(b[i.inst_num_bytes]) \in Word
      BY <1>0, ExtractTypes
    <3>2. 0 \in Word  BY WordBounds
    <3> QED  BY <3>1, <3>2 DEF extract_displacement
  <2> HIDE DEF displacement
  <2> QED  BY <1>0, <2>1, OperandsAreTyped
<1>4. DirectAccess(cmd, f, b, after) \in Within(1, 4)
  <2>1. DirectOperand(extract_direct_address(b, 2)) \in ProperOperand
    BY ExtractTypes, OperandsAreTyped DEF extract_direct_address
  <2> HIDE DEF after
  <2> QED  BY <1>1, <1>2, <2>1, OperandsReplaced DEF DirectAccess
<1>5. RegisterOrMemory(cmd, f, rm, after) \in Within(1, 4)
  <2> HIDE DEF after, rm
  <2> QED  BY <1>1, <1>2, <1>3, OperandsReplaced DEF RegisterOrMemory
<1>6. ModOperands(cmd, f, b, i) \in Within(1, 4)
  <2>1. ModOperands(cmd, f, b, i) = IF is_direct_access(f) THEN DirectAccess(cmd, f, b, after)
                                    ELSE RegisterOrMemory(cmd, f, rm, after)
    BY DEF ModOperands
  <2> HIDE DEF after, rm
  <2> QED  BY <1>4, <1>5, <2>1
<1>7. CASE "byte2_has_mod_field" \in cmd.has
  <2>1. Operands(cmd, f, b, i) =
          [ModOperands(cmd, f, b, i) EXCEPT !.sane = "byte2_has_rm_field" \in cmd.has]
    BY <1>7 DEF Operands
  <2> HIDE DEF ModOperands
  <2> DEFINE sane == "byte2_has_rm_field" \in cmd.has
             m == ModOperands(cmd, f, b, i)
  <2>2. m \in ProperInstruction /\ m.inst_num_bytes \in 1..4  BY <1>6 DEF Within
  <2>3. sane \in BOOLEAN  OBVIOUS
  <2> HIDE DEF sane, m
  <2>4. [m EXCEPT !.sane = sane] \in ProperInstruction  BY <2>2, <2>3 DEF ProperInstruction, Instruction
  <2>5. [m EXCEPT !.sane = sane].inst_num_bytes = m.inst_num_bytes
    BY <2>2 DEF ProperInstruction, Instruction
  <2>6. [m EXCEPT !.sane = sane] \in Within(1, 4)  BY <2>2, <2>4, <2>5 DEF Within
  <2> QED  BY <1>7, <2>1, <2>6 DEF sane, m
<1>8. CASE "byte2_has_mod_field" \notin cmd.has
  <2> DEFINE immediate == [i EXCEPT !.dst = RegOperand(f.reg, f.w), !.src = DataOperand]
  <2>1. Operands(cmd, f, b, i) = i \/ Operands(cmd, f, b, i) = immediate
    BY <1>8 DEF Operands
  <2>2. immediate \in Within(1, 2)  BY <1>1, OperandsReplaced
  <2> HIDE DEF immediate
  <2>4. Operands(cmd, f, b, i) \in Within(1, 2)  BY <2>1, <2>2
  <2>3. Within(1, 2) \subseteq Within(1, 4)  BY DEF Within
  <2> QED  BY <2>3, <2>4
<1> QED  BY <1>7, <1>8

\* The address of an accumulator operation takes two bytes.
LEMMA HardcodedType ==
    ASSUME NEW cmd, Sound(cmd), NEW b \in [Window -> Byte], NEW f \in FieldsOf,
           NEW i \in Within(1, 4),
           "op_has_address_bytes" \in cmd.has => i \in Within(1, 2)
    PROVE  /\ Hardcoded(cmd, f, b, i) \in Within(1, 4)
           /\ "op_has_address_bytes" \notin cmd.has /\ i \in Within(1, 2)
                 => Hardcoded(cmd, f, b, i) \in Within(1, 2)
<1> DEFINE HasAddress == "op_has_address_bytes" \in cmd.has
           address == DirectOperand(extract_direct_address(b, i.inst_num_bytes))
           after == [i EXCEPT !.inst_num_bytes = IF HasAddress THEN @ + 2 ELSE @]
           accumulator == NamedRegister(
               IF "byte1_has_w_flag" \in cmd.has /\ f.w = 0 THEN "REG_AL" ELSE "REG_AX")
<1>0. i \in ProperInstruction /\ i.inst_num_bytes \in 1..4 /\ i.src \in ProperOperand
  BY DEF Within, ProperInstruction, Instruction
<1>1. address \in ProperOperand
  BY <1>0, ExtractTypes, OperandsAreTyped DEF extract_direct_address
<1>2. accumulator \in ProperOperand /\ NamedRegister("REG_AX") \in ProperOperand /\ DataOperand \in ProperOperand
  BY OperandsAreTyped DEF Registers, HalfRegisters, FullRegisters
<1>3. after \in Within(1, 4) /\ (~HasAddress => after = i)
  BY <1>0 DEF Within, ProperInstruction, Instruction
<1>4. \A lo, hi \in Nat : after \in Within(lo, hi) =>
        /\ \A src \in ProperOperand :
              [after EXCEPT !.dst = accumulator, !.src = src] \in Within(lo, hi)
        /\ [after EXCEPT !.src = NamedRegister("REG_AX"), !.dst = address] \in Within(lo, hi)
  <2> HIDE DEF after, accumulator, address
  <2> QED  BY <1>1, <1>2, OperandsReplaced
<1>5. ASSUME NEW lo \in Nat, NEW hi \in Nat, i \in Within(lo, hi), after \in Within(lo, hi)
      PROVE  Hardcoded(cmd, f, b, i) \in Within(lo, hi)
  <2>1. CASE "op_has_hardcoded_dst" \in cmd.has
    <3> DEFINE src == IF HasAddress THEN address
                      ELSE IF "op_has_data_bytes" \in cmd.has THEN DataOperand ELSE i.src
    <3>1. after.src = i.src  BY <1>0 DEF ProperInstruction, Instruction
    <3>2. Hardcoded(cmd, f, b, i) = [after EXCEPT !.dst = accumulator, !.src = src]
      <4>1. CASE HasAddress
        <5>1. Hardcoded(cmd, f, b, i) = [after EXCEPT !.dst = accumulator, !.src = address]
          BY <2>1, <4>1 DEF Hardcoded
        <5>2. src = address  BY <4>1
        <5> QED  BY <5>1, <5>2, Zenon
      <4>2. CASE ~HasAddress /\ "op_has_data_bytes" \in cmd.has  BY <2>1, <4>2 DEF Hardcoded
      <4>3. CASE ~HasAddress /\ "op_has_data_bytes" \notin cmd.has
        BY <2>1, <3>1, <4>3 DEF Hardcoded
      <4> QED  BY <4>1, <4>2, <4>3
    <3>3. src \in ProperOperand  BY <1>0, <1>1, <1>2
    <3> HIDE DEF after, accumulator, src
    <3>4. [after EXCEPT !.dst = accumulator, !.src = src] \in Within(lo, hi)
      BY <1>4, <1>5, <3>3, Zenon
    <3> QED  BY <3>2, <3>4
  <2>2. CASE "op_has_hardcoded_dst" \notin cmd.has /\ "op_has_hardcoded_src" \in cmd.has /\ HasAddress
    <3>1. Hardcoded(cmd, f, b, i) =
            [after EXCEPT !.src = NamedRegister("REG_AX"), !.dst = address]
      BY <2>2 DEF Hardcoded
    <3> HIDE DEF after, address
    <3> QED  BY <1>4, <1>5, <3>1, ZenonT(30)
  <2>3. CASE "op_has_hardcoded_dst" \notin cmd.has
             /\ ~("op_has_hardcoded_src" \in cmd.has /\ HasAddress)
    <3>1. Hardcoded(cmd, f, b, i) = i  BY <2>3 DEF Hardcoded
    <3> QED  BY <1>5, <3>1
  <2> QED  BY <2>1, <2>2, <2>3
<1> HIDE DEF after
<1>7. Hardcoded(cmd, f, b, i) \in Within(1, 4)  BY <1>3, <1>5
<1>8. ASSUME ~HasAddress, i \in Within(1, 2) PROVE Hardcoded(cmd, f, b, i) \in Within(1, 2)
  BY <1>3, <1>5, <1>8
<1> QED  BY <1>7, <1>8

\* Immediate data takes one or two bytes.
LEMMA DataBytesType ==
    ASSUME NEW cmd, Sound(cmd), NEW b \in [Window -> Byte], NEW f \in FieldsOf,
           NEW i \in Within(1, 4)
    PROVE  /\ DataBytes(cmd, f, b, i) \in Within(1, 6)
           /\ "op_has_data_bytes" \notin cmd.has => DataBytes(cmd, f, b, i) = i
<1> DEFINE data == extract_data(b, i.inst_num_bytes, DataIs8bit(cmd, f), DataIsSigned(cmd, f))
           n == i.inst_num_bytes + (IF DataIs8bit(cmd, f) THEN 1 ELSE 2)
           decorators == DataDecorators(cmd, f, i.dst)
           sane == /\ i.sane
                   /\ "byte1_has_w_flag" \in cmd.has
                   /\ ChecksDestination(cmd, f) => IsDestination(i.dst)
           read == [i EXCEPT !.src_data = data, !.inst_num_bytes = n,
                             !.decorators = decorators, !.sane = sane]
<1>1. i \in ProperInstruction /\ i.inst_num_bytes \in 1..4  BY DEF Within
<1>2. data \in Word
  <2>1. /\ Word16(b[i.inst_num_bytes], b[i.inst_num_bytes + 1]) \in Word
        /\ SignExtend(b[i.inst_num_bytes]) \in Word
        /\ b[i.inst_num_bytes] \in Word
    BY <1>1, ExtractTypes
  <2> QED  BY <2>1 DEF extract_data
<1>3. n \in 0..6 /\ n \in 1..6
  <2> HIDE DEF DataIs8bit
  <2> QED  BY <1>1
<1>4. decorators \in SUBSET Decorators  BY DEF DataDecorators, Decorators
<1>5. sane \in BOOLEAN  OBVIOUS
<1>6. CASE "op_has_data_bytes" \in cmd.has
  <2>1. DataBytes(cmd, f, b, i) = read  BY <1>6 DEF DataBytes
  <2> HIDE DEF data, n, decorators, sane
  <2>2. read \in ProperInstruction  BY <1>1, <1>2, <1>3, <1>4, <1>5 DEF ProperInstruction, Instruction
  <2>3. read.inst_num_bytes = n  BY <1>1 DEF ProperInstruction, Instruction
  <2>4. read \in Within(1, 6)  BY <1>3, <2>2, <2>3 DEF Within
  <2> QED  BY <1>6, <2>1, <2>4
<1>7. CASE "op_has_data_bytes" \notin cmd.has
  <2>1. DataBytes(cmd, f, b, i) = i  BY <1>7 DEF DataBytes
  <2>2. i \in Within(1, 6)  BY <1>1 DEF Within
  <2> QED  BY <2>1, <2>2
<1> QED  BY <1>6, <1>7

\* The offset of a jump takes one byte.
LEMMA ShortDataType ==
    ASSUME NEW cmd, Sound(cmd), NEW b \in [Window -> Byte], NEW i \in Within(1, 6),
           "is_short_instruction" \in cmd.has => i \in Within(1, 2)
    PROVE  ShortData(cmd, b, i) \in Within(1, 6)
<1> DEFINE data == extract_data(b, i.inst_num_bytes, TRUE, TRUE)
           op == CASE Field(b[0], 4, 16) = 7 -> jmp_inst_map[Field(b[0], 0, 16)]
                   [] b[0] \in 224..227 -> loop_inst_map[Field(b[0], 0, 4)]
                   [] OTHER -> i.op
           n == i.inst_num_bytes + 1
           read == [i EXCEPT !.inst_is_short_w_data = TRUE, !.src_data = data,
                             !.inst_num_bytes = n, !.op = op]
<1>1. CASE "is_short_instruction" \in cmd.has
  <2>1. i \in ProperInstruction /\ i.inst_num_bytes \in 1..2  BY <1>1 DEF Within
  <2>2. data \in Word  BY <2>1, ExtractTypes DEF extract_data
  <2>3. op \in Ops
    <3>1. Field(b[0], 0, 16) \in 0..15 /\ Field(b[0], 0, 4) \in 0..3
      BY FieldType DEF Window
    <3>2. /\ jmp_inst_map[Field(b[0], 0, 16)] \in JumpOps
          /\ loop_inst_map[Field(b[0], 0, 4)] \in JumpOps
      BY <3>1 DEF JumpOps
    <3>3. i.op \in Ops  BY <2>1 DEF ProperInstruction, Instruction
    <3>4. JumpOps \subseteq Ops  BY DEF Ops
    <3> HIDE DEF Field
    <3> QED  BY <3>2, <3>3, <3>4
  <2>4. n \in 0..6 /\ n \in 1..6  BY <2>1
  <2>5. ShortData(cmd, b, i) = read  BY <1>1 DEF ShortData
  <2> HIDE DEF data, op, n
  <2>6. read \in ProperInstruction  BY <2>1, <2>2, <2>3, <2>4 DEF ProperInstruction, Instruction
  <2>7. read.inst_num_bytes = n  BY <2>1 DEF ProperInstruction, Instruction
  <2> QED  BY <2>4, <2>5, <2>6, <2>7 DEF Within
<1>2. CASE "is_short_instruction" \notin cmd.has
  <2>1. ShortData(cmd, b, i) = i  BY <1>2 DEF ShortData
  <2> QED  BY <2>1
<1> QED  BY <1>1, <1>2

\* What a row of the table decodes is well formed and has one to six bytes.
LEMMA ParseType ==
    ASSUME NEW cmd, Sound(cmd), NEW b \in [Window -> Byte]
    PROVE  parse_instruction(cmd, b) \in Within(1, 6)
<1> DEFINE f == Fields(cmd, b)
           i0 == OpcodeBytes(cmd, b)
           i1 == Operands(cmd, f, b, i0)
           i2 == Hardcoded(cmd, f, b, i1)
           i3 == DataBytes(cmd, f, b, i2)
<1>0. parse_instruction(cmd, b) = ShortData(cmd, b, i3)  BY DEF parse_instruction
<1>1. f \in FieldsOf /\ i0 \in Within(1, 2)  BY FieldsType, OpcodeBytesType
<1> HIDE DEF f, i0
<1>2. /\ i1 \in Within(1, 4)
      /\ "byte2_has_mod_field" \notin cmd.has => i1 \in Within(1, 2)
  BY <1>1, OperandsType
<1> HIDE DEF i1
<1>3. /\ "op_has_address_bytes" \in cmd.has => i1 \in Within(1, 2)
      /\ "is_short_instruction" \in cmd.has =>
            i1 \in Within(1, 2) /\ "op_has_address_bytes" \notin cmd.has
                                /\ "op_has_data_bytes" \notin cmd.has
  BY <1>2 DEF Sound
<1>4. /\ i2 \in Within(1, 4)
      /\ "is_short_instruction" \in cmd.has => i2 \in Within(1, 2)
  BY <1>1, <1>2, <1>3, HardcodedType
<1> HIDE DEF i2
<1>5. /\ i3 \in Within(1, 6)
      /\ "is_short_instruction" \in cmd.has => i3 \in Within(1, 2)
  BY <1>1, <1>3, <1>4, DataBytesType
<1> HIDE DEF i3
<1> QED  BY <1>0, <1>5, ShortDataType

-----------------------------------------------------------------------------
(* What a stage returns depends on the bytes it counts as consumed, and on *)
(* no byte behind them.                                                    *)

Agree(b, c, n) == \A k \in Window : k < n => b[k] = c[k]

LEMMA AgreeLess ==
    ASSUME NEW b, NEW c, NEW n \in Int, NEW m \in Int, m <= n, Agree(b, c, n)
    PROVE  Agree(b, c, m)
BY DEF Agree, Window

\* Bytes that agree have the same numbers in them.
LEMMA AgreeExtract ==
    ASSUME NEW b \in [Window -> Byte], NEW c \in [Window -> Byte], NEW from \in 0..4
    PROVE  /\ Agree(b, c, from + 1) => b[from] = c[from]
           /\ Agree(b, c, from + 2) =>
                b[from] = c[from] /\ b[from + 1] = c[from + 1]
BY DEF Agree, Window

LEMMA OpcodeBytesLocal ==
    ASSUME NEW cmd, Sound(cmd), NEW b \in [Window -> Byte], NEW c \in [Window -> Byte],
           Agree(b, c, OpcodeBytes(cmd, b).inst_num_bytes)
    PROVE  OpcodeBytes(cmd, c) = OpcodeBytes(cmd, b) /\ Fields(cmd, c) = Fields(cmd, b)
<1>1. OpcodeBytes(cmd, b).inst_num_bytes = IF "op_has_register_byte" \in cmd.has THEN 2 ELSE 1
  BY DEF OpcodeBytes, reset_instruction
<1>2. b[0] = c[0]  BY <1>1 DEF Agree, Window
<1>3. "op_has_register_byte" \in cmd.has => b[1] = c[1]  BY <1>1 DEF Agree, Window
<1> HIDE DEF Field
<1>4. CASE "op_has_register_byte" \in cmd.has
  BY <1>2, <1>3, <1>4 DEF OpcodeBytes, Fields
<1>5. CASE "op_has_register_byte" \notin cmd.has
  <2>1. /\ "byte2_has_reg_field" \notin cmd.has /\ "byte2_has_mod_field" \notin cmd.has
        /\ "byte2_has_rm_field" \notin cmd.has /\ "byte2_has_sr_field" \notin cmd.has
        /\ "byte2_has_op_encode_field" \notin cmd.has
    BY <1>5 DEF Sound
  <2> QED  BY <1>2, <2>1 DEF OpcodeBytes, Fields
<1> QED  BY <1>4, <1>5

LEMMA OperandsLocal ==
    ASSUME NEW cmd, Sound(cmd), NEW b \in [Window -> Byte], NEW c \in [Window -> Byte],
           NEW f \in FieldsOf, NEW i \in Within(1, 2),
           "byte2_has_mod_field" \in cmd.has => i.inst_num_bytes = 2
    PROVE  /\ i.inst_num_bytes <= Operands(cmd, f, b, i).inst_num_bytes
           /\ Agree(b, c, Operands(cmd, f, b, i).inst_num_bytes) =>
                Operands(cmd, f, c, i) = Operands(cmd, f, b, i)
<1>0. i \in Instruction /\ i.inst_num_bytes \in 1..2  BY DEF Within, ProperInstruction
<1>1. CASE "byte2_has_mod_field" \notin cmd.has
  <2>1. Operands(cmd, f, c, i) = Operands(cmd, f, b, i)  BY <1>1 DEF Operands
  <2>2. Operands(cmd, f, b, i).inst_num_bytes = i.inst_num_bytes
    BY <1>0, <1>1 DEF Operands, Instruction
  <2> QED  BY <1>0, <2>1, <2>2
<1>2. CASE "byte2_has_mod_field" \in cmd.has
  <2> DEFINE n == 2 + DisplacementBytes(f)
             after == [i EXCEPT !.inst_num_bytes = n]
             sane == "byte2_has_rm_field" \in cmd.has
             Displacement(w) == IF DisplacementBytes(f) = 0 THEN 0
                                ELSE extract_displacement(w, 2, f.mod = 2)
             Rm(w) == IF is_register_mode(f) THEN RegOperand(f.rm, f.w)
                      ELSE EffectiveOperand(f.rm, Displacement(w))
  <2>1. \A w : ModOperands(cmd, f, w, i) = IF is_direct_access(f) THEN DirectAccess(cmd, f, w, after)
                                           ELSE RegisterOrMemory(cmd, f, Rm(w), after)
    BY <1>2 DEF ModOperands
  <2>2. \A w : Operands(cmd, f, w, i) = [ModOperands(cmd, f, w, i) EXCEPT !.sane = sane]
    BY <1>2 DEF Operands
  <2>3. DisplacementBytes(f) \in 0..2  BY DEF DisplacementBytes
  <2>4. n \in 2..4  BY <2>3
  <2>5. after.inst_num_bytes = n  BY <1>0 DEF Instruction
  <2>6. \A w : ModOperands(cmd, f, w, i).inst_num_bytes = n
    <3> HIDE DEF after, Rm, n
    <3>1. \A a, z : [[after EXCEPT !.dst = a] EXCEPT !.src = z].inst_num_bytes = n
      BY <2>5
    <3>2. \A w : DirectAccess(cmd, f, w, after).inst_num_bytes = n
      BY <2>5 DEF DirectAccess
    <3>3. \A rm : RegisterOrMemory(cmd, f, rm, after).inst_num_bytes = n
      BY <2>5 DEF RegisterOrMemory
    <3> QED  BY <2>1, <3>2, <3>3
  <2>7. Operands(cmd, f, b, i).inst_num_bytes = n
    <3> DEFINE m == ModOperands(cmd, f, b, i)
    <3>1. m.inst_num_bytes = n /\ Operands(cmd, f, b, i) = [m EXCEPT !.sane = sane]
      BY <2>2, <2>6
    <3> HIDE DEF n, sane, m
    <3> QED  BY <3>1
  <2>8. ASSUME Agree(b, c, n) PROVE ModOperands(cmd, f, c, i) = ModOperands(cmd, f, b, i)
    <3>1. CASE is_direct_access(f)
      <4>0. DisplacementBytes(f) = 2  BY <3>1 DEF DisplacementBytes, is_direct_access
      <4>1. n = 4  BY <4>0
      <4>2. b[2] = c[2] /\ b[3] = c[3]  BY <2>8, <4>1, AgreeExtract
      <4>4. extract_direct_address(c, 2) = extract_direct_address(b, 2)
        BY <4>2 DEF extract_direct_address
      <4> HIDE DEF after
      <4>3. DirectAccess(cmd, f, c, after) = DirectAccess(cmd, f, b, after)
        BY <4>4 DEF DirectAccess
      <4> QED  BY <2>1, <3>1, <4>3
    <3>2. CASE ~is_direct_access(f)
      <4>1. Displacement(c) = Displacement(b)
        <5>1. CASE DisplacementBytes(f) = 0  BY <5>1
        <5>2. CASE DisplacementBytes(f) = 1
          <6>1. f.mod # 2 /\ n = 3  BY <5>2 DEF DisplacementBytes
          <6>2. b[2] = c[2]  BY <2>8, <6>1, AgreeExtract
          <6> QED  BY <6>1, <6>2 DEF extract_displacement
        <5>3. CASE DisplacementBytes(f) = 2
          <6>1. n = 4  BY <5>3
          <6>2. b[2] = c[2] /\ b[3] = c[3]  BY <2>8, <6>1, AgreeExtract
          <6> QED  BY <6>2 DEF extract_displacement
        <5> QED  BY <2>3, <5>1, <5>2, <5>3
      <4>2. Rm(c) = Rm(b)  BY <4>1
      <4> HIDE DEF Rm, after
      <4> QED  BY <2>1, <3>2, <4>2
    <3> QED  BY <3>1, <3>2
  <2> HIDE DEF n, sane
  <2> QED  BY <1>2, <2>2, <2>4, <2>7, <2>8
<1> QED  BY <1>1, <1>2

LEMMA HardcodedLocal ==
    ASSUME NEW cmd, Sound(cmd), NEW b \in [Window -> Byte], NEW c \in [Window -> Byte],
           NEW f \in FieldsOf, NEW i \in Within(1, 4)
    PROVE  /\ i.inst_num_bytes <= Hardcoded(cmd, f, b, i).inst_num_bytes
           /\ Agree(b, c, Hardcoded(cmd, f, b, i).inst_num_bytes) =>
                Hardcoded(cmd, f, c, i) = Hardcoded(cmd, f, b, i)
<1>0. i \in Instruction /\ i.inst_num_bytes \in 1..4  BY DEF Within, ProperInstruction
<1> DEFINE Address(w) == extract_direct_address(w, i.inst_num_bytes)
           unread == /\ "op_has_hardcoded_dst" \notin cmd.has
                     /\ ~("op_has_hardcoded_src" \in cmd.has /\ "op_has_address_bytes" \in cmd.has)
<1>1. CASE unread
  <2>1. \A w : Hardcoded(cmd, f, w, i) = i  BY <1>1 DEF Hardcoded
  <2> QED  BY <1>0, <2>1
<1>2. CASE "op_has_address_bytes" \notin cmd.has /\ ~unread
  <2>1. Hardcoded(cmd, f, c, i) = Hardcoded(cmd, f, b, i)  BY <1>2 DEF Hardcoded
  <2>2. Hardcoded(cmd, f, b, i).inst_num_bytes = i.inst_num_bytes
    BY <1>0, <1>2 DEF Hardcoded, Instruction
  <2> QED  BY <1>0, <2>1, <2>2
<1>3. CASE "op_has_address_bytes" \in cmd.has /\ ~unread
  <2>1. Address(c) = Address(b) => Hardcoded(cmd, f, c, i) = Hardcoded(cmd, f, b, i)
    <3>1. SUFFICES ASSUME Address(c) = Address(b)
                   PROVE  Hardcoded(cmd, f, c, i) = Hardcoded(cmd, f, b, i)
      OBVIOUS
    <3> HIDE DEF extract_direct_address
    <3> QED  BY <1>3, <3>1 DEF Hardcoded
  <2>2. Hardcoded(cmd, f, b, i).inst_num_bytes = i.inst_num_bytes + 2
    BY <1>0, <1>3 DEF Hardcoded, Instruction
  <2>3. Agree(b, c, i.inst_num_bytes + 2) => Address(c) = Address(b)
    BY <1>0, AgreeExtract DEF extract_direct_address
  <2> HIDE DEF Address
  <2> QED  BY <1>0, <2>1, <2>2, <2>3
<1> QED  BY <1>1, <1>2, <1>3

LEMMA DataBytesLocal ==
    ASSUME NEW cmd, Sound(cmd), NEW b \in [Window -> Byte], NEW c \in [Window -> Byte],
           NEW f \in FieldsOf, NEW i \in Within(1, 4)
    PROVE  /\ i.inst_num_bytes <= DataBytes(cmd, f, b, i).inst_num_bytes
           /\ Agree(b, c, DataBytes(cmd, f, b, i).inst_num_bytes) =>
                DataBytes(cmd, f, c, i) = DataBytes(cmd, f, b, i)
<1>0. i \in Instruction /\ i.inst_num_bytes \in 1..4  BY DEF Within, ProperInstruction
<1> DEFINE Data(w) == extract_data(w, i.inst_num_bytes, DataIs8bit(cmd, f), DataIsSigned(cmd, f))
           n == i.inst_num_bytes + (IF DataIs8bit(cmd, f) THEN 1 ELSE 2)
<1>1. CASE "op_has_data_bytes" \notin cmd.has  BY <1>0, <1>1 DEF DataBytes
<1>2. CASE "op_has_data_bytes" \in cmd.has
  <2>1. DataBytes(cmd, f, b, i).inst_num_bytes = n  BY <1>0, <1>2 DEF DataBytes, Instruction
  <2>2. Data(c) = Data(b) => DataBytes(cmd, f, c, i) = DataBytes(cmd, f, b, i)
    <3> SUFFICES ASSUME Data(c) = Data(b)
                 PROVE  DataBytes(cmd, f, c, i) = DataBytes(cmd, f, b, i)
      OBVIOUS
    <3> HIDE DEF extract_data
    <3> QED  BY <1>2 DEF DataBytes
  <2>3. Agree(b, c, n) => Data(c) = Data(b)
    <3>1. CASE DataIs8bit(cmd, f)  BY <1>0, <3>1, AgreeExtract DEF extract_data
    <3>2. CASE ~DataIs8bit(cmd, f)  BY <1>0, <3>2, AgreeExtract DEF extract_data
    <3> QED  BY <3>1, <3>2
  <2>4. i.inst_num_bytes <= n  BY <1>0
  <2> HIDE DEF Data, n
  <2> QED  BY <2>1, <2>2, <2>3, <2>4
<1> QED  BY <1>1, <1>2

LEMMA ShortDataLocal ==
    ASSUME NEW cmd, Sound(cmd), NEW b \in [Window -> Byte], NEW c \in [Window -> Byte],
           NEW i \in Within(1, 6), "is_short_instruction" \in cmd.has => i \in Within(1, 2)
    PROVE  /\ i.inst_num_bytes <= ShortData(cmd, b, i).inst_num_bytes
           /\ Agree(b, c, ShortData(cmd, b, i).inst_num_bytes) =>
                ShortData(cmd, c, i) = ShortData(cmd, b, i)
<1>0. i \in Instruction /\ i.inst_num_bytes \in 1..6  BY DEF Within, ProperInstruction
<1>1. CASE "is_short_instruction" \notin cmd.has  BY <1>0, <1>1 DEF ShortData
<1>2. CASE "is_short_instruction" \in cmd.has
  <2>0. i.inst_num_bytes \in 1..2  BY <1>2 DEF Within
  <2>1. ShortData(cmd, b, i).inst_num_bytes = i.inst_num_bytes + 1
    BY <1>0, <1>2 DEF ShortData, Instruction
  <2>2. ASSUME Agree(b, c, i.inst_num_bytes + 1) PROVE ShortData(cmd, c, i) = ShortData(cmd, b, i)
    <3>1. b[0] = c[0]  BY <2>0, <2>2 DEF Agree, Window
    <3>2. b[i.inst_num_bytes] = c[i.inst_num_bytes]  BY <2>0, <2>2, AgreeExtract
    <3> HIDE DEF Field
    <3> QED  BY <3>1, <3>2 DEF ShortData, extract_data
  <2> QED  BY <1>0, <2>1, <2>2
<1> QED  BY <1>1, <1>2

\* The stages together: each counts at least what the one before it has counted.
LEMMA ParseLocal ==
    ASSUME NEW cmd, Sound(cmd), NEW b \in [Window -> Byte], NEW c \in [Window -> Byte],
           Agree(b, c, parse_instruction(cmd, b).inst_num_bytes)
    PROVE  parse_instruction(cmd, c) = parse_instruction(cmd, b) /\ b[0] = c[0]
<1> DEFINE f == Fields(cmd, b)
           i0 == OpcodeBytes(cmd, b)
           i1 == Operands(cmd, f, b, i0)
           i2 == Hardcoded(cmd, f, b, i1)
           i3 == DataBytes(cmd, f, b, i2)
           i4 == ShortData(cmd, b, i3)
<1>1. parse_instruction(cmd, b) = i4  BY DEF parse_instruction
<1>2. /\ f \in FieldsOf /\ i0 \in Within(1, 2)
      /\ "byte2_has_mod_field" \in cmd.has => i0.inst_num_bytes = 2
  <2>1. i0.inst_num_bytes = IF "op_has_register_byte" \in cmd.has THEN 2 ELSE 1
    BY DEF OpcodeBytes, reset_instruction
  <2>2. "byte2_has_mod_field" \in cmd.has => "op_has_register_byte" \in cmd.has  BY DEF Sound
  <2> QED  BY <2>1, <2>2, FieldsType, OpcodeBytesType
<1> DEFINE Same == OpcodeBytes(cmd, c) = i0 /\ Fields(cmd, c) = f
<1>3. Agree(b, c, i0.inst_num_bytes) => Same  BY OpcodeBytesLocal
<1>4. parse_instruction(cmd, c) =
        LET g == Fields(cmd, c)
            j1 == Operands(cmd, g, c, OpcodeBytes(cmd, c))
            j2 == Hardcoded(cmd, g, c, j1)
        IN  ShortData(cmd, c, DataBytes(cmd, g, c, j2))
  BY DEF parse_instruction
<1>5. Same => parse_instruction(cmd, c) =
                ShortData(cmd, c, DataBytes(cmd, f, c, Hardcoded(cmd, f, c, Operands(cmd, f, c, i0))))
  BY <1>4
<1> HIDE DEF f, i0
<1>6. /\ i1 \in Within(1, 4) /\ i2 \in Within(1, 4) /\ i3 \in Within(1, 6)
      /\ "is_short_instruction" \in cmd.has => i3 \in Within(1, 2)
  <2>1. /\ i1 \in Within(1, 4)
        /\ "byte2_has_mod_field" \notin cmd.has => i1 \in Within(1, 2)
    BY <1>2, OperandsType
  <2> HIDE DEF i1
  <2>2. /\ "op_has_address_bytes" \in cmd.has => i1 \in Within(1, 2)
        /\ "is_short_instruction" \in cmd.has =>
              i1 \in Within(1, 2) /\ "op_has_address_bytes" \notin cmd.has
                                  /\ "op_has_data_bytes" \notin cmd.has
    BY <2>1 DEF Sound
  <2>3. /\ i2 \in Within(1, 4)
        /\ "is_short_instruction" \in cmd.has => i2 \in Within(1, 2)
    BY <1>2, <2>1, <2>2, HardcodedType
  <2> HIDE DEF i2
  <2>4. /\ i3 \in Within(1, 6)
        /\ "is_short_instruction" \in cmd.has => i3 \in Within(1, 2)
    BY <1>2, <2>2, <2>3, DataBytesType
  <2> QED  BY <2>1, <2>3, <2>4
<1>7. /\ i0.inst_num_bytes <= i1.inst_num_bytes
      /\ Agree(b, c, i1.inst_num_bytes) => Operands(cmd, f, c, i0) = i1
  BY <1>2, OperandsLocal
<1> HIDE DEF i1
<1>8. /\ i1.inst_num_bytes <= i2.inst_num_bytes
      /\ Agree(b, c, i2.inst_num_bytes) => Hardcoded(cmd, f, c, i1) = i2
  BY <1>2, <1>6, HardcodedLocal
<1> HIDE DEF i2
<1>9. /\ i2.inst_num_bytes <= i3.inst_num_bytes
      /\ Agree(b, c, i3.inst_num_bytes) => DataBytes(cmd, f, c, i2) = i3
  BY <1>2, <1>6, DataBytesLocal
<1> HIDE DEF i3
<1>10. /\ i3.inst_num_bytes <= i4.inst_num_bytes
       /\ Agree(b, c, i4.inst_num_bytes) => ShortData(cmd, c, i3) = i4
       /\ i4 \in Within(1, 6)
  BY <1>6, ShortDataLocal, ShortDataType
<1> HIDE DEF i4
<1>11. /\ i0.inst_num_bytes \in 1..6 /\ i1.inst_num_bytes \in 1..6 /\ i2.inst_num_bytes \in 1..6
       /\ i3.inst_num_bytes \in 1..6 /\ i4.inst_num_bytes \in 1..6
  BY <1>2, <1>6, <1>10 DEF Within
<1>12. Agree(b, c, i4.inst_num_bytes)  BY <1>1
<1>13. /\ Agree(b, c, i3.inst_num_bytes) /\ Agree(b, c, i2.inst_num_bytes)
       /\ Agree(b, c, i1.inst_num_bytes) /\ Agree(b, c, i0.inst_num_bytes)
  <2>1. Agree(b, c, i3.inst_num_bytes)  BY <1>10, <1>11, <1>12, AgreeLess
  <2>2. Agree(b, c, i2.inst_num_bytes)  BY <1>9, <1>11, <2>1, AgreeLess
  <2>3. Agree(b, c, i1.inst_num_bytes)  BY <1>8, <1>11, <2>2, AgreeLess
  <2>4. Agree(b, c, i0.inst_num_bytes)  BY <1>7, <1>11, <2>3, AgreeLess
  <2> QED  BY <2>1, <2>2, <2>3, <2>4
<1>14. Same  BY <1>3, <1>13
<1>15. parse_instruction(cmd, c) = i4
  BY <1>5, <1>7, <1>8, <1>9, <1>10, <1>12, <1>13, <1>14
<1>16. b[0] = c[0]  BY <1>11, <1>12 DEF Agree, Window
<1> QED  BY <1>1, <1>15, <1>16

-----------------------------------------------------------------------------
(* decode_bitstream.                                                       *)

\* A non-empty set of positive numbers has a least element.
LEMMA LeastMatch ==
    ASSUME NEW byte, Matching(byte) # {}
    PROVE  FirstMatch(byte) \in 1..Len(op_cmds)
<1>1. Matching(byte) \subseteq Nat /\ Matching(byte) \subseteq 1..Len(op_cmds)
  BY DEF Matching, op_cmds
<1>2. \E n \in Matching(byte) : \A m \in Matching(byte) : n <= m
  <2>1. Len(op_cmds) = 16  BY DEF op_cmds
  <2> QED  BY <1>1, <2>1
<1> QED  BY <1>1, <1>2 DEF FirstMatch

\* Whatever six bytes the decoder looks at, what it decodes is a well-formed
\* instruction that takes one to six of them: the decode pointer always advances, and
\* never beyond the bytes that were looked at.  An operand that is a register has one.
THEOREM DecodedInstructionIsWellFormed ==
    ASSUME NEW b \in [Window -> Byte], Decodable(b)
    PROVE  /\ decode_bitstream(b) \in Instruction
           /\ decode_bitstream(b) \in ProperInstruction
           /\ decode_bitstream(b).inst_num_bytes \in 1..6
<1>1. Sound(op_cmds[FirstMatch(b[0])])  BY LeastMatch, RowsAreSound DEF Decodable
<1>2. decode_bitstream(b) \in Within(1, 6)  BY <1>1, ParseType DEF decode_bitstream
<1> QED  BY <1>2 DEF Within, ProperInstruction

\* decode_bitstream does not know where the bytes end, and what it decodes is a matter
\* of the bytes it counts as consumed alone: no byte behind them changes the operation,
\* an operand or the length.
THEOREM DecodedInstructionIsItsBytes ==
    ASSUME NEW b \in [Window -> Byte], NEW c \in [Window -> Byte], Decodable(b),
           \A k \in Window : k < decode_bitstream(b).inst_num_bytes => b[k] = c[k]
    PROVE  Decodable(c) /\ decode_bitstream(c) = decode_bitstream(b)
<1> DEFINE cmd == op_cmds[FirstMatch(b[0])]
<1>1. Sound(cmd)  BY LeastMatch, RowsAreSound DEF Decodable
<1>2. Agree(b, c, parse_instruction(cmd, b).inst_num_bytes)  BY DEF Agree, decode_bitstream
<1>3. parse_instruction(cmd, c) = parse_instruction(cmd, b) /\ b[0] = c[0]
  <2> HIDE DEF cmd
  <2> QED  BY <1>1, <1>2, ParseLocal
<1> QED  BY <1>3 DEF Decodable, decode_bitstream
=============================================================================
