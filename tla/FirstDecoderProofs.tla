-------------------------- MODULE FirstDecoderProofs --------------------------
(***************************************************************************)
(* The first decoder on files of any length, with chunks of any size.      *)
(***************************************************************************)
EXTENDS FirstDecoderShapes, SequenceTheorems, TLAPS

Bytes6 == [0..5 -> Byte]
WellFormed(line) ==
    /\ line.consumed \in 2..6 /\ line.data \in Word
    /\ IsPlace(line.dst) /\ IsPlace(line.src)

-----------------------------------------------------------------------------
(* The lines.                                                              *)

LEMMA FieldsType ==
    ASSUME NEW b \in Bytes6
    PROVE  /\ mod(b) \in 0..3 /\ reg(b) \in 0..7 /\ r_m(b) \in 0..7
           /\ Bit(b[0], 2) \in 0..1 /\ Bit(b[0], 8) \in 0..1 /\ b[0] % 2 \in 0..1
           /\ b[0] % 8 \in 0..7 /\ reg(b) % 4 \in 0..3
<1>1. b[0] \in Byte /\ b[1] \in Byte  BY DEF Bytes6
<1>2. \A n \in Byte : /\ n \div 64 \in 0..3 /\ n \div 8 \in Nat /\ n \div 2 \in Nat
  BY DEF Byte
<1>3. \A q \in Nat : q % 2 \in 0..1 /\ q % 4 \in 0..3 /\ q % 8 \in 0..7  OBVIOUS
<1> QED  BY <1>1, <1>2, <1>3 DEF mod, reg, r_m, Bit, Byte

\* A byte, its sign extension and two bytes as a word.
LEMMA ByteIsWord ==
    /\ \A low \in Byte : low \in Word /\ SignExtend(low) \in Word
    /\ \A low, high \in Byte : 256 * high + low \in Word
<1>1. \A n : n \in Byte <=> n \in Int /\ 0 <= n /\ n <= 255  BY DEF Byte
<1>2. \A n \in Int : n \in Word <=> 0 <= n /\ n <= 65535  BY DEF Word
<1>3. ASSUME NEW low \in Byte PROVE low \in Word /\ SignExtend(low) \in Word
  BY <1>1, <1>2 DEF SignExtend
<1>4. ASSUME NEW low \in Byte, NEW high \in Byte PROVE 256 * high + low \in Word
  BY <1>1, <1>2
<1> QED  BY <1>3, <1>4

\* What is read from a window of six bytes is a word.
LEMMA DataType ==
    ASSUME NEW b \in Bytes6, NEW at \in 1..5, NEW bit_s \in 0..1, NEW bit_w \in 0..1,
           at + bit_w <= 5
    PROVE  /\ extract_displacement(b, at, bit_w) \in Word
           /\ extract_data(b, at, bit_w) \in Word
           /\ explicit_extract_data(b, at, bit_s, bit_w) \in Word
<1>1. b[at] \in Byte  BY DEF Bytes6
<1>2. ASSUME bit_w = 1 PROVE 256 * b[at + 1] + b[at] \in Word
  <2>1. at + 1 \in 0..5  BY <1>2
  <2>2. b[at + 1] \in Byte  BY <2>1 DEF Bytes6
  <2> QED  BY <1>1, <2>2, ByteIsWord
<1>3. SignExtend(b[at]) \in Word /\ b[at] \in Word  BY <1>1, ByteIsWord
<1> QED  BY <1>2, <1>3 DEF extract_displacement, extract_data, explicit_extract_data

LEMMA PlacesAreTyped ==
    /\ IsPlace(Data)
    /\ \A n \in 0..7, w \in 0..1 : IsPlace(Register(n, w))
    /\ \A n \in 0..3 : IsPlace(Segment(n))
    /\ \A address \in Word : IsPlace(Memory({}, address))
    /\ \A n \in 0..7, column \in 1..2, address \in Word :
          IsPlace(Memory({register_map[n + 1][column]}, address))
    /\ \A n \in 0..7, address \in Word : IsPlace(Effective(n, address))
<1>1. \A n \in 0..7, column \in 1..2 : register_map[n + 1][column] \in Registers
  BY DEF register_map, Registers
<1>2. \A n \in 0..7 : mov_source_effective_address[n + 1] \subseteq Registers
  <2>1. {"REG_BX", "REG_SI", "REG_DI", "REG_BP"} \subseteq Registers
    BY DEF register_map, Registers
  <2> QED  BY <2>1 DEF mov_source_effective_address
<1>3. \A n \in 0..3 : segment_register_map[n + 1] \in {segment_register_map[k] : k \in 1..4}
  OBVIOUS
<1>4. IsPlace(Data)  BY DEF IsPlace
<1>5. ASSUME NEW n \in 0..7, NEW w \in 0..1 PROVE IsPlace(Register(n, w))
  <2>1. w + 1 \in 1..2  OBVIOUS
  <2> QED  BY <1>1, <2>1 DEF IsPlace, Register
<1>6. ASSUME NEW n \in 0..3 PROVE IsPlace(Segment(n))
  BY <1>3 DEF IsPlace, Segment
<1>7. ASSUME NEW registers \in SUBSET Registers, NEW address \in Word
      PROVE  IsPlace(Memory(registers, address))
  BY DEF IsPlace, Memory
<1> QED  BY <1>1, <1>2, <1>4, <1>5, <1>6, <1>7 DEF Effective

\* Every line the program prints names places and takes two to six bytes.
LEMMA LinesAreWellFormed ==
    ASSUME NEW b \in Bytes6, Recognized(b)
    PROVE  WellFormed(DecodeLine(b))
<1> DEFINE w == b[0] % 2
<1> USE DEF WellFormed, Line
<1>1. /\ mod(b) \in 0..3 /\ reg(b) \in 0..7 /\ r_m(b) \in 0..7
      /\ Bit(b[0], 2) \in 0..1 /\ Bit(b[0], 8) \in 0..1 /\ w \in 0..1
      /\ b[0] % 8 \in 0..7 /\ reg(b) % 4 \in 0..3
  BY FieldsType
<1>2. /\ IsPlace(Data)
      /\ \A n \in 0..7, v \in 0..1 : IsPlace(Register(n, v))
      /\ \A n \in 0..3 : IsPlace(Segment(n))
      /\ \A address \in Word : IsPlace(Memory({}, address))
      /\ \A n \in 0..7, column \in 1..2, address \in Word :
            IsPlace(Memory({register_map[n + 1][column]}, address))
      /\ \A n \in 0..7, address \in Word : IsPlace(Effective(n, address))
  BY PlacesAreTyped
<1>3. 0 \in Word  BY DEF Word
<1>4. WellFormed(process_mov_immediate_to_register_memory(b))
  <2> DEFINE width == IF HasDisplacement(b) THEN w + 1 ELSE 0
             displacement == IF HasDisplacement(b) THEN extract_displacement(b, 2, w) ELSE 0
  <2>1. width \in 0..w + 1  BY <1>1
  <2>2. displacement \in Word  BY <1>1, <1>3, DataType
  <2>3. extract_data(b, 2 + width, w) \in Word  BY <1>1, <2>1, DataType
  <2>4. IsPlace(IF mod(b) = 3 THEN Memory({register_map[r_m(b) + 1][w + 1]}, 0)
                ELSE Effective(r_m(b), displacement))
    <3>1. w + 1 \in 1..2  BY <1>1
    <3> QED  BY <1>1, <1>2, <1>3, <2>2, <3>1
  <2>5. 3 + width + w \in 2..6  BY <1>1, <2>1
  <2> HIDE DEF width, displacement
  <2> QED  BY <1>2, <2>3, <2>4, <2>5
           DEF process_mov_immediate_to_register_memory, width, displacement
<1>5. WellFormed(process_mov_immediate_to_register(b))
  <2>1. extract_data(b, 1, Bit(b[0], 8)) \in Word  BY <1>1, DataType
  <2> QED  BY <1>1, <1>2, <2>1 DEF process_mov_immediate_to_register
<1>6. ASSUME NEW is_load \in BOOLEAN
      PROVE  WellFormed(process_mov_accumulator_inst(b, is_load))
  <2> DEFINE address == IF w = 1 THEN 256 * b[2] + b[1] ELSE b[1]
  <2>1. address \in Word
    <3>1. b[1] \in Byte /\ b[2] \in Byte  BY DEF Bytes6
    <3> QED  BY <3>1, ByteIsWord
  <2> HIDE DEF address
  <2>2. IsPlace(Memory({}, address)) /\ IsPlace(Register(0, 1))  BY <1>2, <2>1
  <2>3. 2 + w \in 2..6  BY <1>1
  <2> QED  BY <1>3, <2>2, <2>3 DEF process_mov_accumulator_inst, address
<1>7. ASSUME NEW op, NEW is_segment_op \in BOOLEAN
      PROVE  WellFormed(process_regmem_tpo_reg_op_inst(b, op, is_segment_op))
  <2> DEFINE bit_w == IF is_segment_op THEN 0 ELSE w
             wide == IF is_segment_op THEN 1 ELSE bit_w
             width == CASE IsDirect(b) -> bit_w + 1
                        [] mod(b) \in {1, 2} -> mod(b)
                        [] OTHER -> 0
             displacement == IF width = 0 THEN 0 ELSE extract_displacement(b, 2, width - 1)
             the_reg == IF is_segment_op THEN Segment(reg(b) % 4) ELSE Register(reg(b), bit_w)
             rm == CASE mod(b) = 3 -> Register(r_m(b), wide)
                     [] IsDirect(b) -> Memory({}, displacement)
                     [] mod(b) # 0 /\ is_segment_op ->
                             Memory({register_map[r_m(b) + 1][2]}, displacement)
                     [] OTHER -> Effective(r_m(b), displacement)
             operands == IF IsDirect(b) THEN <<the_reg, rm>>
                         ELSE RegMemOperands(Bit(b[0], 2), the_reg, rm)
  <2>1. bit_w \in 0..1 /\ wide \in 0..1  BY <1>1
  <2> HIDE DEF bit_w, wide
  <2>2. width \in 0..2  BY <1>1, <2>1
  <2> HIDE DEF width
  <2>3. displacement \in Word  BY <1>3, <2>2, DataType
  <2> HIDE DEF displacement
  <2>4. IsPlace(the_reg)  BY <1>1, <1>2, <2>1
  <2>5. IsPlace(rm)
    <3> HIDE DEF WellFormed, Line
    <3>1. IsPlace(Register(r_m(b), wide))  BY <1>1, <1>2, <2>1
    <3>2. IsPlace(Memory({}, displacement))  BY <1>2, <2>3
    <3>3. IsPlace(Memory({register_map[r_m(b) + 1][2]}, displacement))
      <4>1. 2 \in 1..2  OBVIOUS
      <4> QED  BY <1>1, <1>2, <2>3, <4>1
    <3>4. IsPlace(Effective(r_m(b), displacement))  BY <1>1, <1>2, <2>3
    <3> QED  BY <3>1, <3>2, <3>3, <3>4
  <2> HIDE DEF the_reg, rm
  <2>6. IsPlace(operands[1]) /\ IsPlace(operands[2])
    BY <2>4, <2>5 DEF RegMemOperands
  <2> HIDE DEF operands
  <2>7. 2 + width \in 2..6  BY <2>2
  <2>8. process_regmem_tpo_reg_op_inst(b, op, is_segment_op)
            = Line(op, 2 + width, operands[1], operands[2], 0, "")
    BY DEF process_regmem_tpo_reg_op_inst, bit_w, wide, width, displacement, the_reg, rm,
           operands
  <2>9. WellFormed(Line(op, 2 + width, operands[1], operands[2], 0, ""))
    BY <1>3, <2>6, <2>7
  <2> HIDE DEF WellFormed, Line
  <2> QED  BY <2>8, <2>9
<1>8. WellFormed(process_immediate_to_regmem_op_inst(b))
  <2> DEFINE s == Bit(b[0], 2)
             width == IF HasDisplacement(b) THEN w + 1 ELSE 0
             displacement == IF width = 0 THEN 0 ELSE extract_displacement(b, 2, w)
             length == 2 + width + (IF s = 0 /\ w = 1 THEN 2 ELSE 1)
             dst == CASE mod(b) = 3 -> Register(r_m(b), w)
                      [] IsDirect(b) -> Memory({}, displacement)
                      [] OTHER -> Effective(r_m(b), displacement)
  <2>1. width \in 0..w + 1  BY <1>1
  <2>2. length \in 2..6  BY <1>1, <2>1
  <2> HIDE DEF width, length
  <2>3. displacement \in Word  BY <1>1, <1>3, <2>1, DataType
  <2> HIDE DEF displacement
  <2>4. explicit_extract_data(b, 2 + width, s, w) \in Word  BY <1>1, <2>1, DataType
  <2>5. IsPlace(dst)  BY <1>1, <1>2, <2>3 DEF IsDirect
  <2> HIDE DEF dst
  <2> QED  BY <1>2, <2>2, <2>4, <2>5
           DEF process_immediate_to_regmem_op_inst, width, displacement, length, dst
<1>9. ASSUME NEW op PROVE WellFormed(process_immediate_accumulator_op_inst(b, op))
  <2>1. extract_data(b, 1, w) \in Word  BY <1>1, DataType
  <2> QED  BY <1>1, <1>2, <2>1 DEF process_immediate_accumulator_op_inst
<1>10. WellFormed(process_jump_op_inst(b))
  <2>1. extract_data(b, 1, 0) \in Word  BY DataType
  <2> QED  BY <1>2, <2>1 DEF process_jump_op_inst
<1> HIDE DEF WellFormed
<1> QED  BY <1>4, <1>5, <1>6, <1>7, <1>8, <1>9, <1>10 DEF DecodeLine

-----------------------------------------------------------------------------
(* The operation the library decodes.                                      *)

\* Operands, accumulator and data leave the operation as it is.
LEMMA OpIsKept ==
    ASSUME NEW cmd, NEW f, NEW b, NEW i, "op" \in DOMAIN i
    PROVE  /\ "op" \in DOMAIN Ref!Operands(cmd, f, b, i)
           /\ Ref!Operands(cmd, f, b, i).op = i.op
           /\ "op" \in DOMAIN Ref!Hardcoded(cmd, f, b, i)
           /\ Ref!Hardcoded(cmd, f, b, i).op = i.op
           /\ "op" \in DOMAIN Ref!DataBytes(cmd, f, b, i)
           /\ Ref!DataBytes(cmd, f, b, i).op = i.op
<1> DEFINE Keeps(j) == "op" \in DOMAIN j /\ j.op = i.op
<1>1. Keeps(Ref!Operands(cmd, f, b, i))
  <2>1. \A j, v : Keeps(j) => /\ Keeps([j EXCEPT !.dst = v]) /\ Keeps([j EXCEPT !.src = v])
                              /\ Keeps([j EXCEPT !.sane = v])
                              /\ Keeps([j EXCEPT !.inst_num_bytes = v])
    OBVIOUS
  <2>2. \A j, v, u : Keeps(j) => /\ Keeps([j EXCEPT !.dst = v, !.src = u])
                                 /\ Keeps([j EXCEPT !.src = v, !.dst = u])
    OBVIOUS
  <2>3. \A j : Keeps(j) => Keeps(Ref!DirectAccess(cmd, f, b, j))
    <3> HIDE DEF Keeps
    <3> QED  BY <2>2 DEF Ref!DirectAccess
  <2>4. \A j, rm : Keeps(j) => Keeps(Ref!RegisterOrMemory(cmd, f, rm, j))
    <3> HIDE DEF Keeps
    <3> QED  BY <2>2 DEF Ref!RegisterOrMemory
  <2>5. Keeps(i)  OBVIOUS
  <2> HIDE DEF Keeps
  <2>6. Keeps(Ref!ModOperands(cmd, f, b, i))
    BY <2>1, <2>3, <2>4, <2>5 DEF Ref!ModOperands
  <2> QED  BY <2>1, <2>2, <2>5, <2>6 DEF Ref!Operands
<1>2. Keeps(Ref!Hardcoded(cmd, f, b, i))
  BY DEF Ref!Hardcoded
<1>3. Keeps(Ref!DataBytes(cmd, f, b, i))
  BY DEF Ref!DataBytes
<1> QED  BY <1>1, <1>2, <1>3

\* What a row of the table makes of its own operation.
OpOfRow(cmd, b) ==
    CASE "is_short_instruction" \in cmd.has /\ Ref!Field(b[0], 4, 16) = 7 ->
            Ref!jmp_inst_map[Ref!Field(b[0], 0, 16)]
      [] "is_short_instruction" \in cmd.has /\ b[0] \in 224..227 ->
            Ref!loop_inst_map[Ref!Field(b[0], 0, 4)]
      [] "byte2_has_op_encode_field" \in cmd.has -> Ref!op_encoding[Ref!Field(b[1], 3, 8)]
      [] OTHER -> cmd.op

LEMMA OpIsOfTheRow ==
    ASSUME NEW cmd, NEW b,
           "is_short_instruction" \in cmd.has =>
              /\ Ref!Field(b[0], 4, 16) = 7 <=> b[0] \notin 224..227
              /\ "byte2_has_op_encode_field" \notin cmd.has
    PROVE  Ref!parse_instruction(cmd, b).op = OpOfRow(cmd, b)
<1> DEFINE f == Ref!Fields(cmd, b)
           i0 == Ref!OpcodeBytes(cmd, b)
           i1 == Ref!Operands(cmd, f, b, i0)
           i2 == Ref!Hardcoded(cmd, f, b, i1)
           i3 == Ref!DataBytes(cmd, f, b, i2)
<1>1. /\ "op" \in DOMAIN i0
      /\ i0.op = IF "byte2_has_op_encode_field" \in cmd.has
                 THEN Ref!op_encoding[Ref!Field(b[1], 3, 8)] ELSE cmd.op
  BY DEF Ref!OpcodeBytes, Ref!reset_instruction
<1> HIDE DEF i0
<1>2. "op" \in DOMAIN i1 /\ i1.op = i0.op  BY <1>1, OpIsKept
<1> HIDE DEF i1
<1>3. "op" \in DOMAIN i2 /\ i2.op = i1.op  BY <1>2, OpIsKept
<1> HIDE DEF i2
<1>4. "op" \in DOMAIN i3 /\ i3.op = i2.op  BY <1>3, OpIsKept
<1> HIDE DEF i3
<1>5. Ref!ShortData(cmd, b, i3).op = OpOfRow(cmd, b)
  BY <1>1, <1>2, <1>3, <1>4 DEF Ref!ShortData, OpOfRow
<1> QED  BY <1>5 DEF Ref!parse_instruction, i0, i1, i2, i3

\* The handler of each class of opcodes.
LEMMA HandlerOf ==
    ASSUME NEW b \in Bytes6
    PROVE  /\ b[0] \in {198, 199} =>
                DecodeLine(b) = process_mov_immediate_to_register_memory(b)
           /\ b[0] \in 176..191 => DecodeLine(b) = process_mov_immediate_to_register(b)
           /\ b[0] \in {160, 161} => DecodeLine(b) = process_mov_accumulator_inst(b, TRUE)
           /\ b[0] \in {162, 163} => DecodeLine(b) = process_mov_accumulator_inst(b, FALSE)
           /\ b[0] \in {140, 142} =>
                DecodeLine(b) = process_regmem_tpo_reg_op_inst(b, "MOV_INST", TRUE)
           /\ b[0] \in 136..139 =>
                DecodeLine(b) = process_regmem_tpo_reg_op_inst(b, "MOV_INST", FALSE)
           /\ b[0] \in 0..3 =>
                DecodeLine(b) = process_regmem_tpo_reg_op_inst(b, "ADD_INST", FALSE)
           /\ b[0] \in 40..43 =>
                DecodeLine(b) = process_regmem_tpo_reg_op_inst(b, "SUB_INST", FALSE)
           /\ b[0] \in 56..59 =>
                DecodeLine(b) = process_regmem_tpo_reg_op_inst(b, "CMP_INST", FALSE)
           /\ b[0] \in 128..131 => DecodeLine(b) = process_immediate_to_regmem_op_inst(b)
           /\ b[0] \in {4, 5} =>
                DecodeLine(b) = process_immediate_accumulator_op_inst(b, "ADD_INST")
           /\ b[0] \in {44, 45} =>
                DecodeLine(b) = process_immediate_accumulator_op_inst(b, "SUB_INST")
           /\ b[0] \in {60, 61} =>
                DecodeLine(b) = process_immediate_accumulator_op_inst(b, "CMP_INST")
           /\ b[0] \in (112..127) \cup (224..227) => DecodeLine(b) = process_jump_op_inst(b)
<1> DEFINE rm_data == process_mov_immediate_to_register_memory(b)
           reg_data == process_mov_immediate_to_register(b)
           mov == process_regmem_tpo_reg_op_inst(b, "MOV_INST", FALSE)
           load == process_mov_accumulator_inst(b, TRUE)
           store == process_mov_accumulator_inst(b, FALSE)
           segment == process_regmem_tpo_reg_op_inst(b, "MOV_INST", TRUE)
           add == process_regmem_tpo_reg_op_inst(b, "ADD_INST", FALSE)
           group == process_immediate_to_regmem_op_inst(b)
           add_acc == process_immediate_accumulator_op_inst(b, "ADD_INST")
           sub == process_regmem_tpo_reg_op_inst(b, "SUB_INST", FALSE)
           sub_acc == process_immediate_accumulator_op_inst(b, "SUB_INST")
           cmp == process_regmem_tpo_reg_op_inst(b, "CMP_INST", FALSE)
           cmp_acc == process_immediate_accumulator_op_inst(b, "CMP_INST")
           jump == process_jump_op_inst(b)
<1>1. b[0] \in Int  BY DEF Bytes6, Byte
<1>2. DecodeLine(b) =
        CASE b[0] \in {198, 199} -> rm_data
          [] b[0] \in 176..191 -> reg_data
          [] b[0] \in 136..139 -> mov
          [] b[0] \in {160, 161} -> load
          [] b[0] \in {162, 163} -> store
          [] b[0] \in {140, 142} -> segment
          [] b[0] \in 0..3 -> add
          [] b[0] \in 128..131 -> group
          [] b[0] \in {4, 5} -> add_acc
          [] b[0] \in 40..43 -> sub
          [] b[0] \in {44, 45} -> sub_acc
          [] b[0] \in 56..59 -> cmp
          [] b[0] \in {60, 61} -> cmp_acc
          [] OTHER -> jump
  BY DEF DecodeLine
<1> HIDE DEF rm_data, reg_data, mov, load, store, segment, add, group,
            add_acc, sub, sub_acc, cmp, cmp_acc, jump
<1>3. b[0] \in {198, 199} => DecodeLine(b) = rm_data  BY <1>1, <1>2
<1>4. b[0] \in 176..191 => DecodeLine(b) = reg_data  BY <1>1, <1>2
<1>5. b[0] \in {160, 161} => DecodeLine(b) = load  BY <1>1, <1>2
<1>6. b[0] \in {162, 163} => DecodeLine(b) = store  BY <1>1, <1>2
<1>7. b[0] \in {140, 142} => DecodeLine(b) = segment  BY <1>1, <1>2
<1>8. b[0] \in 136..139 => DecodeLine(b) = mov  BY <1>1, <1>2
<1>9. b[0] \in 0..3 => DecodeLine(b) = add  BY <1>1, <1>2
<1>10. b[0] \in 40..43 => DecodeLine(b) = sub  BY <1>1, <1>2
<1>11. b[0] \in 56..59 => DecodeLine(b) = cmp  BY <1>1, <1>2
<1>12. b[0] \in 128..131 => DecodeLine(b) = group  BY <1>1, <1>2
<1>13. b[0] \in {4, 5} => DecodeLine(b) = add_acc  BY <1>1, <1>2
<1>14. b[0] \in {44, 45} => DecodeLine(b) = sub_acc  BY <1>1, <1>2
<1>15. b[0] \in {60, 61} => DecodeLine(b) = cmp_acc  BY <1>1, <1>2
<1>16. b[0] \in (112..127) \cup (224..227) => DecodeLine(b) = jump  BY <1>1, <1>2
<1> QED
  BY <1>3, <1>4, <1>5, <1>6, <1>7, <1>8, <1>9, <1>10, <1>11, <1>12, <1>13, <1>14, <1>15, <1>16
  DEF rm_data, reg_data, mov, load, store, segment, add, group, add_acc,
      sub, sub_acc, cmp, cmp_acc, jump

\* The opcodes of each row of the library's table.
RowOpcodes ==
    <<136..139, {198, 199}, 176..191, {160, 161}, {162, 163}, {142}, {140}, 0..3,
      128..131, {4, 5}, 40..43, {44, 45}, 56..59, {60, 61}, 112..127, 224..227>>

LEMMA RowMatches ==
    ASSUME NEW byte \in Byte, NEW n \in 1..16
    PROVE  Ref!Matches(Ref!op_cmds[n], byte) <=> byte \in RowOpcodes[n]
<1>0. byte \in Int /\ 0 <= byte /\ byte <= 255  BY DEF Byte
<1> USE <1>0 DEF Ref!Matches, Ref!Row, Ref!op_cmds, RowOpcodes
<1>1. CASE n = 1  BY <1>1 DEF Ref!mov1_op
<1>2. CASE n = 2  BY <1>2 DEF Ref!mov2_op
<1>3. CASE n = 3  BY <1>3 DEF Ref!mov3_op
<1>4. CASE n = 4  BY <1>4 DEF Ref!mov4_op
<1>5. CASE n = 5  BY <1>5 DEF Ref!mov5_op
<1>6. CASE n = 6  BY <1>6 DEF Ref!mov6_op
<1>7. CASE n = 7  BY <1>7 DEF Ref!mov7_op
<1>8. CASE n = 8  BY <1>8 DEF Ref!add1_op
<1>9. CASE n = 9  BY <1>9 DEF Ref!multi1_op
<1>10. CASE n = 10  BY <1>10 DEF Ref!add2_op
<1>11. CASE n = 11  BY <1>11 DEF Ref!sub1_op
<1>12. CASE n = 12  BY <1>12 DEF Ref!sub2_op
<1>13. CASE n = 13  BY <1>13 DEF Ref!cmp1_op
<1>14. CASE n = 14  BY <1>14 DEF Ref!cmp2_op
<1>15. CASE n = 15  BY <1>15 DEF Ref!jump_op
<1>16. CASE n = 16  BY <1>16 DEF Ref!loop_op
<1> QED  BY <1>1, <1>2, <1>3, <1>4, <1>5, <1>6, <1>7, <1>8, <1>9, <1>10, <1>11, <1>12,
            <1>13, <1>14, <1>15, <1>16

\* An opcode is matched by its own row only.
LEMMA FirstMatchIsRow ==
    ASSUME NEW byte \in Byte, NEW n \in 1..16, byte \in RowOpcodes[n]
    PROVE  Ref!FirstMatch(byte) = n
<1>1. Len(Ref!op_cmds) = 16  BY DEF Ref!op_cmds
<1>2. \A k \in 1..16 : k # n => byte \notin RowOpcodes[k]
  BY DEF RowOpcodes
<1>3. Ref!Matching(byte) = {n}
  BY <1>1, <1>2, RowMatches DEF Ref!Matching
<1>4. n <= n  OBVIOUS
<1>5. Ref!FirstMatch(byte) = CHOOSE k \in {n} : \A m \in {n} : k <= m
  BY <1>3 DEF Ref!FirstMatch
<1> QED  BY <1>4, <1>5

\* Both give an instruction the same name.
LEMMA SameOperation ==
    ASSUME NEW b \in Bytes6, Recognized(b)
    PROVE  DecodeLine(b).op = Ref!decode_bitstream(b).op
<1>1. b[0] \in Byte /\ b[1] \in Byte  BY DEF Bytes6
<1>2. b[0] \in Int /\ 0 <= b[0] /\ b[0] <= 255  BY <1>1 DEF Byte
<1>3. ASSUME NEW n \in 1..16, b[0] \in RowOpcodes[n]
      PROVE  Ref!decode_bitstream(b) = Ref!parse_instruction(Ref!op_cmds[n], b)
  BY <1>1, <1>3, FirstMatchIsRow DEF Ref!decode_bitstream
<1>4. ASSUME NEW n \in 1..14 \ {9}, b[0] \in RowOpcodes[n]
      PROVE  Ref!decode_bitstream(b).op = Ref!op_cmds[n].op
  <2>1. /\ "is_short_instruction" \notin Ref!op_cmds[n].has
        /\ "byte2_has_op_encode_field" \notin Ref!op_cmds[n].has
    <3> USE DEF Ref!op_cmds, Ref!Row, Ref!RegMem, Ref!Accumulator
    <3>1. CASE n \in 1..4
      BY <3>1 DEF Ref!mov1_op, Ref!mov2_op, Ref!mov3_op, Ref!mov4_op
    <3>2. CASE n \in 5..8
      BY <3>2 DEF Ref!mov5_op, Ref!mov6_op, Ref!mov7_op, Ref!add1_op
    <3>3. CASE n \in 10..14
      BY <3>3 DEF Ref!add2_op, Ref!sub1_op, Ref!sub2_op, Ref!cmp1_op, Ref!cmp2_op
    <3>4. n \in 1..4 \/ n \in 5..8 \/ n \in 10..14  OBVIOUS
    <3> QED  BY <3>1, <3>2, <3>3, <3>4
  <2>2. Ref!parse_instruction(Ref!op_cmds[n], b).op = OpOfRow(Ref!op_cmds[n], b)
    BY <2>1, OpIsOfTheRow
  <2> QED  BY <1>3, <1>4, <2>1, <2>2 DEF OpOfRow
<1>5. /\ \A n \in 1..7 : Ref!op_cmds[n].op = "MOV_INST"
      /\ Ref!op_cmds[8].op = "ADD_INST" /\ Ref!op_cmds[10].op = "ADD_INST"
      /\ Ref!op_cmds[11].op = "SUB_INST" /\ Ref!op_cmds[12].op = "SUB_INST"
      /\ Ref!op_cmds[13].op = "CMP_INST" /\ Ref!op_cmds[14].op = "CMP_INST"
  BY DEF Ref!op_cmds, Ref!Row, Ref!mov1_op, Ref!mov2_op, Ref!mov3_op, Ref!mov4_op, Ref!mov5_op,
         Ref!mov6_op, Ref!mov7_op, Ref!add1_op, Ref!add2_op, Ref!sub1_op, Ref!sub2_op,
         Ref!cmp1_op, Ref!cmp2_op
<1>6. /\ process_mov_accumulator_inst(b, TRUE).op = "MOV_INST"
      /\ process_mov_accumulator_inst(b, FALSE).op = "MOV_INST"
      /\ \A op : process_regmem_tpo_reg_op_inst(b, op, TRUE).op = op
      /\ process_mov_immediate_to_register_memory(b).op = "MOV_INST"
      /\ process_mov_immediate_to_register(b).op = "MOV_INST"
      /\ \A op : process_regmem_tpo_reg_op_inst(b, op, FALSE).op = op
      /\ \A op : process_immediate_accumulator_op_inst(b, op).op = op
      /\ process_immediate_to_regmem_op_inst(b).op = op_sel[reg(b)]
      /\ process_jump_op_inst(b).op = JumpName[b[0]]
  BY DEF Line, process_mov_accumulator_inst, process_mov_immediate_to_register_memory,
         process_mov_immediate_to_register, process_regmem_tpo_reg_op_inst,
         process_immediate_accumulator_op_inst, process_immediate_to_regmem_op_inst,
         process_jump_op_inst
<1>7. CASE \E n \in 1..14 \ {9} : b[0] \in RowOpcodes[n]
  <2> PICK n \in 1..14 \ {9} : b[0] \in RowOpcodes[n]  BY <1>7
  <2>1. DecodeLine(b).op = Ref!op_cmds[n].op
    <3>1. /\ b[0] \in {198, 199} => DecodeLine(b).op = "MOV_INST"
          /\ b[0] \in 176..191 => DecodeLine(b).op = "MOV_INST"
      BY <1>6, HandlerOf, Zenon
    <3>2. /\ b[0] \in {160, 161} => DecodeLine(b).op = "MOV_INST"
          /\ b[0] \in {162, 163} => DecodeLine(b).op = "MOV_INST"
      BY <1>6, HandlerOf, Zenon
    <3>3. /\ b[0] \in {140, 142} => DecodeLine(b).op = "MOV_INST"
          /\ b[0] \in 136..139 => DecodeLine(b).op = "MOV_INST"
      <4>1. /\ process_regmem_tpo_reg_op_inst(b, "MOV_INST", TRUE).op = "MOV_INST"
            /\ process_regmem_tpo_reg_op_inst(b, "MOV_INST", FALSE).op = "MOV_INST"
        BY <1>6
      <4> QED  BY <4>1, HandlerOf, Zenon
    <3>4. /\ b[0] \in 0..3 => DecodeLine(b).op = "ADD_INST"
          /\ b[0] \in {4, 5} => DecodeLine(b).op = "ADD_INST"
      BY <1>6, HandlerOf, Zenon
    <3>5. /\ b[0] \in 40..43 => DecodeLine(b).op = "SUB_INST"
          /\ b[0] \in {44, 45} => DecodeLine(b).op = "SUB_INST"
      BY <1>6, HandlerOf, Zenon
    <3>6. /\ b[0] \in 56..59 => DecodeLine(b).op = "CMP_INST"
          /\ b[0] \in {60, 61} => DecodeLine(b).op = "CMP_INST"
      BY <1>6, HandlerOf, Zenon
    <3>7. /\ n = 1 => b[0] \in 136..139
          /\ n = 2 => b[0] \in {198, 199}
          /\ n = 3 => b[0] \in 176..191
          /\ n = 4 => b[0] \in {160, 161}
          /\ n = 5 => b[0] \in {162, 163}
          /\ n \in {6, 7} => b[0] \in {140, 142}
          /\ n = 8 => b[0] \in 0..3
          /\ n = 10 => b[0] \in {4, 5}
          /\ n = 11 => b[0] \in 40..43
          /\ n = 12 => b[0] \in {44, 45}
          /\ n = 13 => b[0] \in 56..59
          /\ n = 14 => b[0] \in {60, 61}
      BY DEF RowOpcodes
    <3> QED  BY <1>5, <3>1, <3>2, <3>3, <3>4, <3>5, <3>6, <3>7
  <2> QED  BY <1>4, <2>1
<1>8. CASE b[0] \in 128..131
  <2>1. b[0] \in RowOpcodes[9]  BY <1>8 DEF RowOpcodes
  <2>2. /\ "is_short_instruction" \notin Ref!op_cmds[9].has
        /\ "byte2_has_op_encode_field" \in Ref!op_cmds[9].has
    BY DEF Ref!op_cmds, Ref!Row, Ref!multi1_op
  <2>3. Ref!decode_bitstream(b).op = Ref!op_encoding[Ref!Field(b[1], 3, 8)]
    <3>1. Ref!parse_instruction(Ref!op_cmds[9], b).op = OpOfRow(Ref!op_cmds[9], b)
      BY <2>2, OpIsOfTheRow
    <3> QED  BY <1>3, <2>1, <2>2, <3>1 DEF OpOfRow
  <2>4. Ref!Field(b[1], 3, 8) = reg(b)  BY DEF Ref!Field, Ref!Shl, reg
  <2>5. reg(b) \in {0, 5, 7}  BY <1>8 DEF Recognized
  <2>6. DecodeLine(b).op = op_sel[reg(b)]  BY <1>6, <1>8, HandlerOf
  <2> QED  BY <2>3, <2>4, <2>5, <2>6 DEF op_sel, Ref!op_encoding
<1>9. CASE b[0] \in 112..127
  <2>1. b[0] \in RowOpcodes[15]  BY <1>9 DEF RowOpcodes
  <2>2. /\ "is_short_instruction" \in Ref!op_cmds[15].has
        /\ "byte2_has_op_encode_field" \notin Ref!op_cmds[15].has
    BY DEF Ref!op_cmds, Ref!Row, Ref!jump_op
  <2>3. /\ Ref!Field(b[0], 4, 16) = 7 /\ b[0] \notin 224..227
        /\ Ref!Field(b[0], 0, 16) = b[0] - 112
    BY <1>9 DEF Ref!Field, Ref!Shl
  <2>4. Ref!decode_bitstream(b).op = Ref!jmp_inst_map[b[0] - 112]
    <3>1. Ref!parse_instruction(Ref!op_cmds[15], b).op = OpOfRow(Ref!op_cmds[15], b)
      BY <2>2, <2>3, OpIsOfTheRow
    <3> QED  BY <1>3, <2>1, <2>2, <2>3, <3>1 DEF OpOfRow
  <2>5. DecodeLine(b).op = JumpName[b[0]]  BY <1>6, <1>9, HandlerOf
  <2>6. b[0] - 112 \in 0..15 /\ b[0] - 111 = (b[0] - 112) + 1 /\ b[0] < 128  BY <1>9
  <2> QED  BY <1>9, <2>4, <2>5, <2>6 DEF JumpName, Ref!jmp_inst_map
<1>10. CASE b[0] \in 224..227
  <2>1. b[0] \in RowOpcodes[16]  BY <1>10 DEF RowOpcodes
  <2>2. /\ "is_short_instruction" \in Ref!op_cmds[16].has
        /\ "byte2_has_op_encode_field" \notin Ref!op_cmds[16].has
    BY DEF Ref!op_cmds, Ref!Row, Ref!loop_op
  <2>3. /\ Ref!Field(b[0], 4, 16) # 7 /\ Ref!Field(b[0], 0, 4) = b[0] - 224
    BY <1>10 DEF Ref!Field, Ref!Shl
  <2>4. Ref!decode_bitstream(b).op = Ref!loop_inst_map[b[0] - 224]
    <3>1. Ref!parse_instruction(Ref!op_cmds[16], b).op = OpOfRow(Ref!op_cmds[16], b)
      BY <1>10, <2>2, <2>3, OpIsOfTheRow
    <3> QED  BY <1>3, <1>10, <2>1, <2>2, <2>3, <3>1 DEF OpOfRow
  <2>5. DecodeLine(b).op = JumpName[b[0]]  BY <1>6, <1>10, HandlerOf
  <2>6. b[0] - 224 \in 0..3 /\ b[0] - 223 = (b[0] - 224) + 1 /\ ~(b[0] < 128)  BY <1>10
  <2> QED  BY <1>10, <2>4, <2>5, <2>6 DEF JumpName, Ref!loop_inst_map
<1>11. \/ \E n \in 1..14 \ {9} : b[0] \in RowOpcodes[n]
       \/ b[0] \in 128..131 \/ b[0] \in 112..127 \/ b[0] \in 224..227
  <2>1. ASSUME NEW n \in 1..14 \ {9}, b[0] \in RowOpcodes[n]
        PROVE  \E m \in 1..14 \ {9} : b[0] \in RowOpcodes[m]
    BY <2>1
  <2>2. \A n \in 1..14 : n # 9 => n \in 1..14 \ {9}  OBVIOUS
  <2> QED  BY <1>2, <2>1, <2>2 DEF Recognized, RowOpcodes
<1> QED  BY <1>7, <1>8, <1>9, <1>10, <1>11

-----------------------------------------------------------------------------
(* The lines against the encoding.                                         *)

\* The fields of the register byte, and the places, are named alike.
LEMMA SameFields ==
    ASSUME NEW b \in Bytes6
    PROVE  /\ Ref!Mod(b) = mod(b) /\ Ref!Reg(b) = reg(b) /\ Ref!RM(b) = r_m(b)
           /\ Ref!IsDirect(b) <=> IsDirect(b)
BY DEF Ref!Mod, Ref!Reg, Ref!RM, Ref!IsDirect, mod, reg, r_m, IsDirect

LEMMA SamePlaces ==
    /\ Data = Ref!Immediate
    /\ \A registers, address : Memory(registers, address) = Ref!InMemory(registers, address)
    /\ \A address : \A n \in 0..7 : Effective(n, address) = Ref!InMemory(Ref!BaseOf[n + 1], address)
BY DEF Data, Ref!Immediate, Memory, Ref!InMemory, Effective, Ref!BaseOf,
       mov_source_effective_address

LEMMA SameRegister ==
    ASSUME NEW b, NEW n \in 0..7, NEW w \in 0..1, Ref!Wide(b) <=> w = 1
    PROVE  Register(n, w) = Ref!InRegister(Ref!NameOf(n, Ref!Wide(b)))
<1>1. register_map[n + 1][2] = Ref!WordRegister[n + 1]
  BY DEF register_map, Ref!WordRegister
<1>2. register_map[n + 1][1] = Ref!ByteRegister[n + 1]
  BY DEF register_map, Ref!ByteRegister
<1>3. CASE w = 1
  <2>1. w + 1 = 2  BY <1>3
  <2> QED  BY <1>1, <1>3, <2>1 DEF Register, Ref!InRegister, Ref!NameOf
<1>4. CASE w = 0
  <2>1. w + 1 = 1 /\ ~(w = 1)  BY <1>4
  <2> QED  BY <1>2, <1>4, <2>1 DEF Register, Ref!InRegister, Ref!NameOf
<1> QED  BY <1>3, <1>4

\* A register is no memory, and neither is data.
LEMMA KindsDiffer ==
    \A n, w, registers, address : Register(n, w) # Memory(registers, address)
  BY DEF Register, Memory

\* The operand the R/M field names.
RMOperand(b, w) ==
    CASE mod(b) = 3 -> Register(r_m(b), w)
      [] IsDirect(b) -> Memory({}, 256 * b[3] + b[2])
      [] mod(b) \in {1, 2} -> Effective(r_m(b), extract_displacement(b, 2, mod(b) - 1))
      [] OTHER -> Effective(r_m(b), 0)

LEMMA RMPlaceIs ==
    ASSUME NEW b \in Bytes6, NEW w \in 0..1, Ref!Wide(b) <=> w = 1
    PROVE  Ref!RMPlace(b) = RMOperand(b, w)
<1>1. /\ mod(b) \in 0..3 /\ r_m(b) \in 0..7
      /\ Ref!Mod(b) = mod(b) /\ Ref!RM(b) = r_m(b) /\ (Ref!IsDirect(b) <=> IsDirect(b))
  BY FieldsType, SameFields
<1>2. IsDirect(b) => mod(b) = 0  BY DEF IsDirect
<1>3. CASE mod(b) = 3
  BY <1>1, <1>2, <1>3, SameRegister DEF RMOperand, Ref!RMPlace
<1>4. CASE IsDirect(b)
  BY <1>1, <1>2, <1>4, SamePlaces DEF RMOperand, Ref!RMPlace
<1>5. CASE mod(b) = 1
  <2>1. extract_displacement(b, 2, 0) = (IF b[2] < 128 THEN 0 ELSE 65280) + b[2]
    <3>1. b[2] \in Int  BY DEF Bytes6, Byte
    <3> QED  BY <3>1 DEF extract_displacement, SignExtend
  <2>2. mod(b) - 1 = 0  BY <1>5
  <2>3. RMOperand(b, w) = Effective(r_m(b), extract_displacement(b, 2, 0))
    BY <1>2, <1>5, <2>2 DEF RMOperand
  <2>4. Ref!RMPlace(b) = Ref!InMemory(Ref!BaseOf[r_m(b) + 1],
                                      (IF b[2] < 128 THEN 0 ELSE 65280) + b[2])
    BY <1>1, <1>2, <1>5 DEF Ref!RMPlace
  <2> QED  BY <1>1, <2>1, <2>3, <2>4, SamePlaces
<1>6. CASE mod(b) = 2
  <2>1. extract_displacement(b, 2, 1) = 256 * b[3] + b[2]
    <3>1. 2 + 1 = 3  OBVIOUS
    <3> QED  BY <3>1 DEF extract_displacement
  <2>2. mod(b) - 1 = 1  BY <1>6
  <2>3. RMOperand(b, w) = Effective(r_m(b), extract_displacement(b, 2, 1))
    BY <1>2, <1>6, <2>2 DEF RMOperand
  <2>4. Ref!RMPlace(b) = Ref!InMemory(Ref!BaseOf[r_m(b) + 1], 256 * b[3] + b[2])
    BY <1>1, <1>2, <1>6 DEF Ref!RMPlace
  <2> QED  BY <1>1, <2>1, <2>3, <2>4, SamePlaces
<1>7. CASE mod(b) = 0 /\ ~IsDirect(b)
  <2>1. RMOperand(b, w) = Effective(r_m(b), 0)  BY <1>7 DEF RMOperand
  <2>2. Ref!RMPlace(b) = Ref!InMemory(Ref!BaseOf[r_m(b) + 1], 0)
    BY <1>1, <1>7 DEF Ref!RMPlace
  <2> QED  BY <1>1, <2>1, <2>2, SamePlaces
<1> QED  BY <1>1, <1>3, <1>4, <1>5, <1>6, <1>7

\* The operands of each class of opcodes.
LEMMA OperandsOf ==
    ASSUME NEW b \in Bytes6
    PROVE  /\ b[0] \in Ref!RegMemClass =>
                Ref!RefOperands(b)
                    = IF (b[0] \div 2) % 2 = 1 THEN <<Ref!RegPlace(b), Ref!RMPlace(b)>>
                      ELSE <<Ref!RMPlace(b), Ref!RegPlace(b)>>
           /\ b[0] \in Ref!ImmediateToRegMem =>
                Ref!RefOperands(b) = <<Ref!RMPlace(b), Ref!Immediate>>
           /\ b[0] \in Ref!ImmediateToRegister =>
                Ref!RefOperands(b)
                    = <<Ref!InRegister(Ref!NameOf(b[0] % 8, Ref!Wide(b))), Ref!Immediate>>
           /\ b[0] \in Ref!ImmediateToAccumulator =>
                Ref!RefOperands(b) = <<Ref!AccumulatorPlace(b), Ref!Immediate>>
           /\ b[0] \in {160, 161} =>
                Ref!RefOperands(b) = <<Ref!AccumulatorPlace(b), Ref!AddressPlace(b)>>
           /\ b[0] \in {162, 163} =>
                Ref!RefOperands(b) = <<Ref!AddressPlace(b), Ref!AccumulatorPlace(b)>>
           /\ b[0] \in {142} =>
                Ref!RefOperands(b) = <<Ref!SegPlace(b), Ref!RMPlace(b)>>
           /\ b[0] \in {140} =>
                Ref!RefOperands(b) = <<Ref!RMPlace(b), Ref!SegPlace(b)>>
           /\ b[0] \in Ref!Short =>
                Ref!RefOperands(b) = <<Ref!Immediate, Ref!Immediate>>
<1> DEFINE between == IF (b[0] \div 2) % 2 = 1 THEN <<Ref!RegPlace(b), Ref!RMPlace(b)>>
                      ELSE <<Ref!RMPlace(b), Ref!RegPlace(b)>>
           to_rm == <<Ref!RMPlace(b), Ref!Immediate>>
           to_reg == <<Ref!InRegister(Ref!NameOf(b[0] % 8, Ref!Wide(b))), Ref!Immediate>>
           to_acc == <<Ref!AccumulatorPlace(b), Ref!Immediate>>
           load == <<Ref!AccumulatorPlace(b), Ref!AddressPlace(b)>>
           store == <<Ref!AddressPlace(b), Ref!AccumulatorPlace(b)>>
           to_seg == <<Ref!SegPlace(b), Ref!RMPlace(b)>>
           from_seg == <<Ref!RMPlace(b), Ref!SegPlace(b)>>
           short == <<Ref!Immediate, Ref!Immediate>>
<1>1. b[0] \in Int  BY DEF Bytes6, Byte
<1>2. Ref!RefOperands(b) =
        CASE b[0] \in Ref!RegMemClass -> between
          [] b[0] \in Ref!ImmediateToRegMem -> to_rm
          [] b[0] \in Ref!ImmediateToRegister -> to_reg
          [] b[0] \in Ref!ImmediateToAccumulator -> to_acc
          [] b[0] \in {160, 161} -> load
          [] b[0] \in {162, 163} -> store
          [] b[0] = 142 -> to_seg
          [] b[0] = 140 -> from_seg
          [] OTHER -> short
  BY DEF Ref!RefOperands
<1> HIDE DEF between, to_rm, to_reg, to_acc, load, store, to_seg, from_seg, short
<1> USE <1>1, <1>2 DEF Ref!RegMemClass, Ref!ImmediateToRegMem, Ref!ImmediateToRegister,
                      Ref!ImmediateToAccumulator, Ref!Short
<1>3. b[0] \in Ref!RegMemClass => Ref!RefOperands(b) = between  OBVIOUS
<1>4. b[0] \in Ref!ImmediateToRegMem => Ref!RefOperands(b) = to_rm  OBVIOUS
<1>5. b[0] \in Ref!ImmediateToRegister => Ref!RefOperands(b) = to_reg  OBVIOUS
<1>6. b[0] \in Ref!ImmediateToAccumulator => Ref!RefOperands(b) = to_acc  OBVIOUS
<1>7. b[0] \in {160, 161} => Ref!RefOperands(b) = load  OBVIOUS
<1>8. b[0] \in {162, 163} => Ref!RefOperands(b) = store  OBVIOUS
<1>9. b[0] \in {142} => Ref!RefOperands(b) = to_seg  OBVIOUS
<1>10. b[0] \in {140} => Ref!RefOperands(b) = from_seg  OBVIOUS
<1>11. b[0] \in Ref!Short => Ref!RefOperands(b) = short  OBVIOUS
<1> QED
  BY <1>3, <1>4, <1>5, <1>6, <1>7, <1>8, <1>9, <1>10, <1>11
  DEF between, to_rm, to_reg, to_acc, load, store, to_seg, from_seg, short

\* SameAsEncoded, but for the operation.
Agrees(line, b) ==
    /\ line.consumed = Ref!RefLength(b)
    /\ <<line.dst, line.src>> = Ref!RefOperands(b)
    /\ Ref!ImmediateBytes(b) > 0 => line.data = Ref!RefImmediate(b)
    /\ line.data_type # "" => (line.data_type = "word") = Ref!Wide(b)

\* Between register and memory: a direct address is read as the source, and as a byte
\* for an operation on bytes.
LEMMA RegMemShapes ==
    ASSUME NEW b \in Bytes6, b[0] \in Ref!RegMemClass, NEW op
    PROVE  Agrees(process_regmem_tpo_reg_op_inst(b, op, FALSE), b)
              <=> ~(IsDirect(b) /\ (b[0] % 4) # 3)
<1> DEFINE w == b[0] % 2
           d == Bit(b[0], 2)
           width == CASE IsDirect(b) -> w + 1
                      [] mod(b) \in {1, 2} -> mod(b)
                      [] OTHER -> 0
           displacement == IF width = 0 THEN 0 ELSE extract_displacement(b, 2, width - 1)
           the_reg == Register(reg(b), w)
           rm == CASE mod(b) = 3 -> Register(r_m(b), w)
                   [] IsDirect(b) -> Memory({}, displacement)
                   [] OTHER -> Effective(r_m(b), displacement)
           dst == IF IsDirect(b) \/ d = 1 THEN the_reg ELSE rm
           src == IF IsDirect(b) \/ d = 1 THEN rm ELSE the_reg
           line == process_regmem_tpo_reg_op_inst(b, op, FALSE)
<1>1. /\ mod(b) \in 0..3 /\ reg(b) \in 0..7 /\ r_m(b) \in 0..7 /\ w \in 0..1 /\ d \in 0..1
      /\ Ref!Mod(b) = mod(b) /\ Ref!Reg(b) = reg(b) /\ (Ref!IsDirect(b) <=> IsDirect(b))
  BY FieldsType, SameFields
<1>2. b[0] \in Int  BY DEF Bytes6, Byte
<1>3. /\ b[0] \notin Ref!ImmediateToRegister /\ b[0] \notin Ref!SegmentMove
      /\ b[0] \notin Ref!ImmediateToAccumulator /\ b[0] \notin Ref!Short
      /\ b[0] \notin 128..131 /\ b[0] \notin {198, 199}
      /\ b[0] \notin Ref!AccumulatorMemory /\ b[0] \in Ref!HasRegisterByte
  BY <1>2 DEF Ref!RegMemClass, Ref!ImmediateToRegister, Ref!SegmentMove, Ref!Short,
              Ref!ImmediateToAccumulator, Ref!AccumulatorMemory, Ref!HasRegisterByte
<1>4. Ref!Wide(b) <=> w = 1  BY <1>3 DEF Ref!Wide
<1>5. Ref!ImmediateBytes(b) = 0
  BY <1>3 DEF Ref!ImmediateBytes
<1>6. Ref!RefLength(b) = 2 + Ref!AddressBytes(b)
  BY <1>3, <1>5 DEF Ref!RefLength, Ref!AddressBytes
<1>7. Ref!AddressBytes(b) = CASE mod(b) = 1 -> 1 [] mod(b) = 2 \/ IsDirect(b) -> 2 [] OTHER -> 0
  BY <1>1, <1>3 DEF Ref!AddressBytes
<1>8. IsDirect(b) => mod(b) = 0  BY DEF IsDirect
<1>9. (b[0] % 4 = 3) <=> w = 1 /\ d = 1
  BY <1>2 DEF Bit
<1>10. Ref!RefOperands(b) = IF d = 1 THEN <<the_reg, RMOperand(b, w)>>
                            ELSE <<RMOperand(b, w), the_reg>>
  <2>1. Ref!RegPlace(b) = the_reg  BY <1>1, <1>4, SameRegister DEF Ref!RegPlace
  <2>2. Ref!RMPlace(b) = RMOperand(b, w)  BY <1>1, <1>4, RMPlaceIs
  <2>3. (b[0] \div 2) % 2 = d  BY DEF Bit
  <2>4. Ref!RefOperands(b) = IF (b[0] \div 2) % 2 = 1 THEN <<Ref!RegPlace(b), Ref!RMPlace(b)>>
                             ELSE <<Ref!RMPlace(b), Ref!RegPlace(b)>>
    BY OperandsOf, Zenon
  <2> HIDE DEF the_reg, d, w
  <2> QED  BY <2>1, <2>2, <2>3, <2>4
<1>11. /\ line.consumed = 2 + width /\ line.dst = dst /\ line.src = src
       /\ line.data_type = ""
  <2> DEFINE operands == IF IsDirect(b) THEN <<the_reg, rm>> ELSE RegMemOperands(d, the_reg, rm)
  <2>1. operands[1] = dst /\ operands[2] = src
    <3> HIDE DEF the_reg, rm, d
    <3> QED  BY DEF RegMemOperands
  <2>2. line = Line(op, 2 + width, operands[1], operands[2], 0, "")
    BY DEF process_regmem_tpo_reg_op_inst
  <2> HIDE DEF operands, line
  <2> QED  BY <2>1, <2>2 DEF Line
<1> HIDE DEF line, w, d, dst, src, the_reg, rm, width, displacement
<1>12. Agrees(line, b) <=> width = Ref!AddressBytes(b) /\ <<dst, src>> = Ref!RefOperands(b)
  <2>1. ~(Ref!ImmediateBytes(b) > 0)  BY <1>5
  <2>2. width \in Nat /\ Ref!AddressBytes(b) \in Nat  BY <1>1, <1>7 DEF width
  <2>3. line.consumed = Ref!RefLength(b) <=> width = Ref!AddressBytes(b)
    <3>1. \A m, n \in Nat : 2 + m = 2 + n <=> m = n  OBVIOUS
    <3> QED  BY <1>6, <1>11, <2>2, <3>1, Zenon
  <2> QED  BY <1>11, <2>1, <2>3, Zenon DEF Agrees
<1>13. ASSUME IsDirect(b) PROVE Agrees(line, b) <=> (b[0] % 4) = 3
  <2>1. width = w + 1 /\ Ref!AddressBytes(b) = 2 /\ mod(b) = 0
    BY <1>7, <1>8, <1>13 DEF width
  <2>2. RMOperand(b, w) = Memory({}, 256 * b[3] + b[2])
    BY <1>13, <2>1 DEF RMOperand
  <2>3. dst = the_reg /\ src = Memory({}, displacement)  BY <1>13, <2>1 DEF dst, src, rm
  <2>4. ASSUME w = 0 PROVE ~Agrees(line, b) /\ (b[0] % 4) # 3
    <3>1. width # Ref!AddressBytes(b)  BY <2>1, <2>4
    <3>2. ~(w = 1)  BY <2>4
    <3> QED  BY <1>9, <1>12, <3>1, <3>2
  <2>5. ASSUME w = 1, d = 0 PROVE ~Agrees(line, b) /\ (b[0] % 4) # 3
    <3>1. Ref!RefOperands(b) = <<Memory({}, 256 * b[3] + b[2]), the_reg>>
      BY <1>10, <2>2, <2>5
    <3>2. the_reg # Memory({}, 256 * b[3] + b[2])  BY KindsDiffer DEF the_reg
    <3>3. <<dst, src>> # Ref!RefOperands(b)  BY <2>3, <3>1, <3>2
    <3>4. ~(d = 1)  BY <2>5
    <3> QED  BY <1>9, <1>12, <3>3, <3>4
  <2>6. ASSUME w = 1, d = 1 PROVE Agrees(line, b) /\ (b[0] % 4) = 3
    <3>1. displacement = 256 * b[3] + b[2]
      <4>1. width = 2 /\ width - 1 = 1 /\ 2 + 1 = 3  BY <2>1, <2>6
      <4> QED  BY <4>1 DEF extract_displacement, displacement
    <3>2. width = Ref!AddressBytes(b)  BY <2>1, <2>6
    <3>3. Ref!RefOperands(b) = <<the_reg, Memory({}, 256 * b[3] + b[2])>>
      BY <1>10, <2>2, <2>6
    <3> QED  BY <1>9, <1>12, <2>3, <2>6, <3>1, <3>2, <3>3
  <2>7. w = 0 \/ (w = 1 /\ d = 0) \/ (w = 1 /\ d = 1)  BY <1>1
  <2> QED  BY <1>13, <2>4, <2>5, <2>6, <2>7, Zenon
<1>14. ASSUME ~IsDirect(b) PROVE Agrees(line, b)
  <2>1. width = Ref!AddressBytes(b)  BY <1>1, <1>7, <1>14 DEF width
  <2>2. rm = RMOperand(b, w)
    <3>1. CASE mod(b) = 3
      <4>1. rm = Register(r_m(b), w)  BY <1>14, <3>1 DEF rm
      <4>2. RMOperand(b, w) = Register(r_m(b), w)  BY <1>14, <3>1 DEF RMOperand
      <4> QED  BY <4>1, <4>2
    <3>2. CASE mod(b) \in {1, 2}
      <4>1. width = mod(b) /\ width # 0 /\ mod(b) # 3  BY <1>14, <3>2 DEF width
      <4>2. displacement = extract_displacement(b, 2, mod(b) - 1)
        BY <4>1 DEF displacement
      <4>3. rm = Effective(r_m(b), displacement)  BY <1>14, <4>1 DEF rm
      <4>4. RMOperand(b, w) = Effective(r_m(b), extract_displacement(b, 2, mod(b) - 1))
        BY <1>14, <3>2, <4>1 DEF RMOperand
      <4> QED  BY <4>2, <4>3, <4>4
    <3>3. CASE mod(b) = 0
      <4>1. displacement = 0  BY <1>14, <3>3 DEF displacement, width
      <4>2. rm = Effective(r_m(b), 0)  BY <1>14, <3>3, <4>1 DEF rm
      <4> QED  BY <1>14, <3>3, <4>2 DEF RMOperand
    <3> QED  BY <1>1, <3>1, <3>2, <3>3
  <2>3. dst = (IF d = 1 THEN the_reg ELSE rm) /\ src = (IF d = 1 THEN rm ELSE the_reg)
    BY <1>14 DEF dst, src
  <2>4. <<dst, src>> = Ref!RefOperands(b)  BY <1>10, <2>2, <2>3
  <2> QED  BY <1>12, <1>14, <2>1, <2>4, Zenon
<1>15. Agrees(line, b) <=> ~(IsDirect(b) /\ (b[0] % 4) # 3)  BY <1>13, <1>14, Zenon
<1> QED  BY <1>15 DEF line

\* Segment moves: a direct address is read as one byte, and a displaced operand is looked
\* up in the table of registers, where no register is the base of the same field.
LEMMA SegmentShapes ==
    ASSUME NEW b \in Bytes6, b[0] \in {140, 142}
    PROVE  Agrees(process_regmem_tpo_reg_op_inst(b, "MOV_INST", TRUE), b)
              <=> ~(IsDirect(b) \/ mod(b) \in {1, 2})
<1> DEFINE d == Bit(b[0], 2)
           width == CASE IsDirect(b) -> 1
                      [] mod(b) \in {1, 2} -> mod(b)
                      [] OTHER -> 0
           displacement == IF width = 0 THEN 0 ELSE extract_displacement(b, 2, width - 1)
           the_reg == Segment(reg(b) % 4)
           table == Memory({register_map[r_m(b) + 1][2]}, displacement)
           rm == CASE mod(b) = 3 -> Register(r_m(b), 1)
                   [] IsDirect(b) -> Memory({}, displacement)
                   [] mod(b) \in {1, 2} -> table
                   [] OTHER -> Effective(r_m(b), displacement)
           dst == IF IsDirect(b) \/ d = 1 THEN the_reg ELSE rm
           src == IF IsDirect(b) \/ d = 1 THEN rm ELSE the_reg
           line == process_regmem_tpo_reg_op_inst(b, "MOV_INST", TRUE)
<1>1. /\ mod(b) \in 0..3 /\ reg(b) % 4 \in 0..3 /\ r_m(b) \in 0..7
      /\ Ref!Mod(b) = mod(b) /\ Ref!Reg(b) = reg(b) /\ Ref!RM(b) = r_m(b)
      /\ (Ref!IsDirect(b) <=> IsDirect(b))
  BY FieldsType, SameFields
<1>2. /\ b[0] \notin Ref!RegMemClass /\ b[0] \notin Ref!ImmediateToRegister
      /\ b[0] \notin Ref!ImmediateToAccumulator /\ b[0] \notin Ref!Short
      /\ b[0] \notin 128..131 /\ b[0] \notin {198, 199}
      /\ b[0] \notin Ref!AccumulatorMemory /\ b[0] \in Ref!HasRegisterByte
      /\ b[0] \in Ref!SegmentMove
  BY DEF Ref!RegMemClass, Ref!ImmediateToRegister, Ref!SegmentMove, Ref!Short,
         Ref!ImmediateToAccumulator, Ref!AccumulatorMemory, Ref!HasRegisterByte
<1>3. Ref!Wide(b) <=> 1 = 1  BY <1>2 DEF Ref!Wide
<1>4. Ref!ImmediateBytes(b) = 0
  BY <1>2 DEF Ref!ImmediateBytes
<1>5. Ref!RefLength(b) = 2 + Ref!AddressBytes(b)
  BY <1>2, <1>4 DEF Ref!RefLength, Ref!AddressBytes
<1>6. Ref!AddressBytes(b) = CASE mod(b) = 1 -> 1 [] mod(b) = 2 \/ IsDirect(b) -> 2 [] OTHER -> 0
  BY <1>1, <1>2 DEF Ref!AddressBytes
<1>7. IsDirect(b) => mod(b) = 0  BY DEF IsDirect
<1>8. Ref!RefOperands(b) = IF d = 1 THEN <<the_reg, RMOperand(b, 1)>>
                           ELSE <<RMOperand(b, 1), the_reg>>
  <2>1. Ref!SegPlace(b) = the_reg
    BY <1>1 DEF Ref!SegPlace, Segment, Ref!InRegister, segment_register_map
  <2>2. Ref!RMPlace(b) = RMOperand(b, 1)  BY <1>1, <1>3, RMPlaceIs
  <2>3. CASE b[0] = 140
    <3>1. d = 0  BY <2>3 DEF Bit
    <3> HIDE DEF the_reg, d
    <3> QED  BY <2>1, <2>2, <2>3, <3>1, OperandsOf
  <2>4. CASE b[0] = 142
    <3>1. d = 1  BY <2>4 DEF Bit
    <3> HIDE DEF the_reg, d
    <3> QED  BY <2>1, <2>2, <2>4, <3>1, OperandsOf
  <2> QED  BY <2>3, <2>4
<1>9. /\ line.consumed = 2 + width /\ line.dst = dst /\ line.src = src
      /\ line.data_type = ""
  <2> DEFINE operands == IF IsDirect(b) THEN <<the_reg, rm>> ELSE RegMemOperands(d, the_reg, rm)
  <2>1. operands[1] = dst /\ operands[2] = src
    <3> HIDE DEF the_reg, rm, d
    <3> QED  BY DEF RegMemOperands
  <2>2. line = Line("MOV_INST", 2 + width, operands[1], operands[2], 0, "")
    BY DEF process_regmem_tpo_reg_op_inst
  <2> HIDE DEF operands, line
  <2> QED  BY <2>1, <2>2 DEF Line
<1> HIDE DEF line, d, dst, src, the_reg, table, rm, width, displacement
<1>10. Agrees(line, b) <=> width = Ref!AddressBytes(b) /\ <<dst, src>> = Ref!RefOperands(b)
  <2>1. ~(Ref!ImmediateBytes(b) > 0)  BY <1>4
  <2>2. width \in Nat /\ Ref!AddressBytes(b) \in Nat  BY <1>1, <1>6 DEF width
  <2>3. line.consumed = Ref!RefLength(b) <=> width = Ref!AddressBytes(b)
    <3>1. \A m, n \in Nat : 2 + m = 2 + n <=> m = n  OBVIOUS
    <3> QED  BY <1>5, <1>9, <2>2, <3>1, Zenon
  <2> QED  BY <1>9, <2>1, <2>3, Zenon DEF Agrees
<1>11. ASSUME IsDirect(b) PROVE ~Agrees(line, b)
  <2>1. width # Ref!AddressBytes(b)  BY <1>6, <1>7, <1>11 DEF width
  <2> QED  BY <1>10, <2>1
<1>12. ASSUME ~IsDirect(b)
       PROVE  dst = (IF d = 1 THEN the_reg ELSE rm) /\ src = (IF d = 1 THEN rm ELSE the_reg)
  BY <1>12 DEF dst, src
<1>13. ASSUME mod(b) \in {1, 2} PROVE ~Agrees(line, b)
  <2>1. ~IsDirect(b) /\ mod(b) # 3  BY <1>7, <1>13
  <2>2. rm = table  BY <1>13, <2>1 DEF rm
  <2>3. RMOperand(b, 1) = Effective(r_m(b), extract_displacement(b, 2, mod(b) - 1))
    BY <1>13, <2>1 DEF RMOperand
  <2>4. {register_map[r_m(b) + 1][2]} # mov_source_effective_address[r_m(b) + 1]
    BY <1>1 DEF register_map, mov_source_effective_address
  <2>5. rm # RMOperand(b, 1)
    BY <2>2, <2>3, <2>4 DEF table, Memory, Effective
  <2>6. <<dst, src>> # Ref!RefOperands(b)  BY <1>8, <1>12, <2>1, <2>5
  <2> QED  BY <1>10, <2>6
<1>14. ASSUME ~IsDirect(b), mod(b) \notin {1, 2} PROVE Agrees(line, b)
  <2>1. width = 0 /\ Ref!AddressBytes(b) = 0  BY <1>6, <1>14 DEF width
  <2>2. rm = RMOperand(b, 1)
    <3>1. CASE mod(b) = 3
      <4>1. rm = Register(r_m(b), 1)  BY <1>14, <3>1 DEF rm
      <4>2. RMOperand(b, 1) = Register(r_m(b), 1)  BY <1>14, <3>1 DEF RMOperand
      <4> QED  BY <4>1, <4>2
    <3>2. CASE mod(b) # 3
      <4>1. displacement = 0  BY <2>1 DEF displacement
      <4>2. rm = Effective(r_m(b), 0)  BY <1>14, <3>2, <4>1 DEF rm
      <4> QED  BY <1>14, <3>2, <4>2 DEF RMOperand
    <3> QED  BY <3>1, <3>2
  <2>3. <<dst, src>> = Ref!RefOperands(b)  BY <1>8, <1>12, <1>14, <2>2
  <2> QED  BY <1>10, <2>1, <2>3
<1>15. Agrees(line, b) <=> ~(IsDirect(b) \/ mod(b) \in {1, 2})
  BY <1>11, <1>13, <1>14, Zenon
<1> QED  BY <1>15 DEF line

\* The immediate, read from the byte it begins at.
LEMMA ImmediateIs ==
    ASSUME NEW b \in Bytes6, NEW at \in 1..5,
           Ref!RefLength(b) - Ref!ImmediateBytes(b) = at
    PROVE  /\ Ref!ImmediateBytes(b) = 2 => Ref!RefImmediate(b) = extract_data(b, at, 1)
           /\ Ref!ImmediateBytes(b) = 1 /\ b[0] # 128 =>
                 Ref!RefImmediate(b) = extract_data(b, at, 0)
           /\ Ref!ImmediateBytes(b) = 1 /\ b[0] = 128 => Ref!RefImmediate(b) = b[at]
<1>1. b[at] \in Int  BY DEF Bytes6, Byte
<1>2. Ref!RefImmediate(b) =
        CASE Ref!ImmediateBytes(b) = 2 -> 256 * b[at + 1] + b[at]
          [] Ref!ImmediateBytes(b) = 1 /\ b[0] # 128 /\ b[at] >= 128 -> 65280 + b[at]
          [] OTHER -> b[at]
  BY DEF Ref!RefImmediate
<1> QED  BY <1>1, <1>2 DEF extract_data, SignExtend

\* The arithmetic on an immediate: the displacement is read as wide as the data.
LEMMA GroupShapes ==
    ASSUME NEW b \in Bytes6, b[0] \in 128..131
    PROVE  Agrees(process_immediate_to_regmem_op_inst(b), b)
              <=> ~(HasDisplacement(b) /\ (b[0] % 2 = 1) # (Ref!AddressBytes(b) = 2))
<1> DEFINE w == b[0] % 2
           s == Bit(b[0], 2)
           width == IF HasDisplacement(b) THEN w + 1 ELSE 0
           displacement == IF width = 0 THEN 0 ELSE extract_displacement(b, 2, w)
           size == IF s = 0 /\ w = 1 THEN 2 ELSE 1
           dst == CASE mod(b) = 3 -> Register(r_m(b), w)
                    [] IsDirect(b) -> Memory({}, displacement)
                    [] OTHER -> Effective(r_m(b), displacement)
           type == IF mod(b) = 3 THEN "" ELSE IF w = 1 THEN "word" ELSE "byte"
           line == process_immediate_to_regmem_op_inst(b)
<1>1. /\ mod(b) \in 0..3 /\ r_m(b) \in 0..7 /\ w \in 0..1 /\ s \in 0..1
      /\ Ref!Mod(b) = mod(b) /\ Ref!RM(b) = r_m(b) /\ (Ref!IsDirect(b) <=> IsDirect(b))
  BY FieldsType, SameFields
<1>2. /\ b[0] \notin Ref!ImmediateToRegister /\ b[0] \notin Ref!SegmentMove
      /\ b[0] \notin Ref!ImmediateToAccumulator /\ b[0] \notin Ref!Short
      /\ b[0] \notin {198, 199} /\ b[0] \notin Ref!AccumulatorMemory
      /\ b[0] \in Ref!HasRegisterByte /\ b[0] \in Ref!ImmediateToRegMem
  BY DEF Ref!RegMemClass, Ref!ImmediateToRegister, Ref!SegmentMove, Ref!Short,
         Ref!ImmediateToRegMem, Ref!ImmediateToAccumulator, Ref!AccumulatorMemory,
         Ref!HasRegisterByte
<1>3. Ref!Wide(b) <=> w = 1  BY <1>2 DEF Ref!Wide
<1>4. Ref!ImmediateBytes(b) = IF b[0] = 129 THEN 2 ELSE 1
  BY <1>2 DEF Ref!ImmediateBytes
<1>5. Ref!RefLength(b) = 2 + Ref!AddressBytes(b) + Ref!ImmediateBytes(b)
  BY <1>2, <1>4 DEF Ref!RefLength, Ref!AddressBytes
<1>6. Ref!AddressBytes(b) = CASE mod(b) = 1 -> 1 [] mod(b) = 2 \/ IsDirect(b) -> 2 [] OTHER -> 0
  BY <1>1, <1>2 DEF Ref!AddressBytes
<1>7. IsDirect(b) => mod(b) = 0  BY DEF IsDirect
<1>8. HasDisplacement(b) <=> IsDirect(b) \/ mod(b) \in {1, 2}  BY DEF HasDisplacement
<1>9. Ref!RefOperands(b) = <<RMOperand(b, w), Data>>
  <2>1. Ref!RMPlace(b) = RMOperand(b, w)  BY <1>1, <1>3, RMPlaceIs
  <2> QED  BY <1>2, <2>1, OperandsOf, SamePlaces, Zenon
<1>10. /\ line.consumed = 2 + width + size /\ line.dst = dst /\ line.src = Data
       /\ line.data = explicit_extract_data(b, 2 + width, s, w) /\ line.data_type = type
  BY DEF process_immediate_to_regmem_op_inst, Line
<1>11. /\ b[0] = 128 => w = 0 /\ s = 0 /\ size = 1
       /\ b[0] = 129 => w = 1 /\ s = 0 /\ size = 2
       /\ b[0] \in {130, 131} => s = 1 /\ size = 1
  BY DEF Bit
<1>12. b[0] = 128 \/ b[0] = 129 \/ b[0] \in {130, 131}  OBVIOUS
<1> HIDE DEF line, w, s, dst, width, displacement, size, type
<1>13. size = Ref!ImmediateBytes(b) /\ size \in 1..2  BY <1>4, <1>11, <1>12
<1>14. width \in Nat /\ Ref!AddressBytes(b) \in 0..2  BY <1>1, <1>6 DEF width
<1>15. line.consumed = Ref!RefLength(b) <=> width = Ref!AddressBytes(b)
  <2>1. \A m, n, k \in Nat : 2 + m + k = 2 + n + k <=> m = n  OBVIOUS
  <2>2. size \in Nat /\ width \in Nat /\ Ref!AddressBytes(b) \in Nat  BY <1>13, <1>14
  <2>3. line.consumed = 2 + width + size /\ Ref!RefLength(b) = 2 + Ref!AddressBytes(b) + size
    BY <1>5, <1>10, <1>13
  <2>4. 2 + width + size = 2 + Ref!AddressBytes(b) + size <=> width = Ref!AddressBytes(b)
    BY <2>1, <2>2
  <2> QED  BY <2>3, <2>4
<1>16. width = Ref!AddressBytes(b)
          <=> ~(HasDisplacement(b) /\ (w = 1) # (Ref!AddressBytes(b) = 2))
  <2>1. CASE HasDisplacement(b)
    <3>1. width = w + 1  BY <2>1 DEF width
    <3>2. Ref!AddressBytes(b) \in {1, 2}  BY <1>6, <1>7, <1>8, <2>1
    <3>3. (w = 1) # (Ref!AddressBytes(b) = 2) <=> w + 1 # Ref!AddressBytes(b)
      BY <1>1, <3>2
    <3> QED  BY <2>1, <3>1, <3>3
  <2>2. CASE ~HasDisplacement(b)
    <3>1. width = 0 /\ Ref!AddressBytes(b) = 0  BY <1>6, <1>8, <2>2 DEF width
    <3> QED  BY <2>2, <3>1
  <2> QED  BY <2>1, <2>2
<1>17. ASSUME width = Ref!AddressBytes(b) PROVE Agrees(line, b)
  <2>1. dst = RMOperand(b, w)
    <3>1. CASE mod(b) = 3
      <4>1. dst = Register(r_m(b), w)  BY <1>7, <3>1 DEF dst
      <4> QED  BY <1>7, <3>1, <4>1 DEF RMOperand
    <3>2. CASE IsDirect(b)
      <4>1. mod(b) # 3 /\ width = 2 /\ w = 1
        BY <1>1, <1>6, <1>7, <1>8, <1>17, <3>2 DEF width
      <4>2. displacement = 256 * b[3] + b[2]
        <5>1. 2 + 1 = 3  OBVIOUS
        <5> QED  BY <4>1, <5>1 DEF displacement, extract_displacement
      <4>3. dst = Memory({}, 256 * b[3] + b[2])  BY <3>2, <4>1, <4>2 DEF dst
      <4>4. mod(b) = 0  BY <1>7, <3>2
      <4> QED  BY <3>2, <4>3, <4>4 DEF RMOperand
    <3>3. CASE mod(b) \in {1, 2}
      <4>1. ~IsDirect(b) /\ mod(b) # 3 /\ width = mod(b) /\ width # 0 /\ w = mod(b) - 1
        BY <1>1, <1>6, <1>7, <1>8, <1>17, <3>3 DEF width
      <4>2. displacement = extract_displacement(b, 2, mod(b) - 1)
        BY <4>1 DEF displacement
      <4>3. dst = Effective(r_m(b), displacement)  BY <4>1 DEF dst
      <4>4. RMOperand(b, w) = Effective(r_m(b), extract_displacement(b, 2, mod(b) - 1))
        BY <3>3, <4>1 DEF RMOperand
      <4> QED  BY <4>2, <4>3, <4>4
    <3>4. CASE mod(b) = 0 /\ ~IsDirect(b)
      <4>1. displacement = 0  BY <1>8, <3>4 DEF displacement, width
      <4>2. dst = Effective(r_m(b), 0)  BY <3>4, <4>1 DEF dst
      <4> QED  BY <3>4, <4>2 DEF RMOperand
    <3> QED  BY <1>1, <3>1, <3>2, <3>3, <3>4
  <2>2. explicit_extract_data(b, 2 + width, s, w) = Ref!RefImmediate(b)
    <3> DEFINE at == 2 + width
    <3>1. at \in 1..5 /\ Ref!RefLength(b) - Ref!ImmediateBytes(b) = at
      BY <1>5, <1>13, <1>14, <1>17
    <3> HIDE DEF at
    <3>2. /\ Ref!ImmediateBytes(b) = 2 => Ref!RefImmediate(b) = extract_data(b, at, 1)
          /\ Ref!ImmediateBytes(b) = 1 /\ b[0] # 128 =>
                Ref!RefImmediate(b) = extract_data(b, at, 0)
          /\ Ref!ImmediateBytes(b) = 1 /\ b[0] = 128 => Ref!RefImmediate(b) = b[at]
      BY <3>1, ImmediateIs
    <3>3. CASE b[0] = 128
      BY <1>4, <1>11, <3>2, <3>3 DEF explicit_extract_data, at
    <3>4. CASE b[0] = 129
      BY <1>4, <1>11, <3>2, <3>4 DEF explicit_extract_data, extract_data, at
    <3>5. CASE b[0] \in {130, 131}
      BY <1>4, <1>11, <3>2, <3>5 DEF explicit_extract_data, extract_data, at
    <3> QED  BY <1>12, <3>3, <3>4, <3>5
  <2>3. type # "" => (type = "word") = Ref!Wide(b)
    <3>1. Ref!Wide(b) \in BOOLEAN  BY <1>2 DEF Ref!Wide
    <3> QED  BY <1>3, <3>1 DEF type
  <2> QED  BY <1>9, <1>10, <1>15, <1>17, <2>1, <2>2, <2>3, Zenon DEF Agrees
<1>18. Agrees(line, b) => line.consumed = Ref!RefLength(b)  BY DEF Agrees
<1>19. Agrees(line, b) <=> ~(HasDisplacement(b) /\ (w = 1) # (Ref!AddressBytes(b) = 2))
  BY <1>15, <1>16, <1>17, <1>18, Zenon
<1> QED  BY <1>19 DEF line, w

\* The immediate moves: the same width, brackets around a register, bp for a direct
\* address, and "byte" for a word without displacement.
LEMMA ImmediateMoveShapes ==
    ASSUME NEW b \in Bytes6, b[0] \in {198, 199}
    PROVE  Agrees(process_mov_immediate_to_register_memory(b), b)
              <=> ~(\/ HasDisplacement(b) /\ (b[0] % 2 = 1) # (Ref!AddressBytes(b) = 2)
                    \/ mod(b) = 3 \/ IsDirect(b) \/ (b[0] = 199 /\ mod(b) \in {0, 1}))
<1> DEFINE w == b[0] % 2
           width == IF HasDisplacement(b) THEN w + 1 ELSE 0
           displacement == IF HasDisplacement(b) THEN extract_displacement(b, 2, w) ELSE 0
           dst == IF mod(b) = 3 THEN Memory({register_map[r_m(b) + 1][w + 1]}, 0)
                  ELSE Effective(r_m(b), displacement)
           type == IF mod(b) \in {2, 3} /\ w = 1 THEN "word" ELSE "byte"
           line == process_mov_immediate_to_register_memory(b)
           Fits == width = Ref!AddressBytes(b)
<1>1. /\ mod(b) \in 0..3 /\ r_m(b) \in 0..7 /\ w \in 0..1
      /\ Ref!Mod(b) = mod(b) /\ Ref!RM(b) = r_m(b) /\ (Ref!IsDirect(b) <=> IsDirect(b))
  BY FieldsType, SameFields
<1>2. /\ b[0] \notin Ref!ImmediateToRegister /\ b[0] \notin Ref!SegmentMove
      /\ b[0] \notin Ref!ImmediateToAccumulator /\ b[0] \notin Ref!Short
      /\ b[0] \notin {128, 130, 131} /\ b[0] # 129 /\ b[0] \notin Ref!AccumulatorMemory
      /\ b[0] \in Ref!HasRegisterByte /\ b[0] \in Ref!ImmediateToRegMem
  BY DEF Ref!RegMemClass, Ref!ImmediateToRegister, Ref!SegmentMove, Ref!Short,
         Ref!ImmediateToRegMem, Ref!ImmediateToAccumulator, Ref!AccumulatorMemory,
         Ref!HasRegisterByte
<1>3. (Ref!Wide(b) <=> w = 1) /\ Ref!Wide(b) \in BOOLEAN  BY <1>2 DEF Ref!Wide
<1>4. Ref!ImmediateBytes(b) = w + 1
  <2>1. Ref!ImmediateBytes(b) = IF Ref!Wide(b) THEN 2 ELSE 1
    BY <1>2 DEF Ref!ImmediateBytes
  <2> HIDE DEF w
  <2> QED  BY <1>1, <1>3, <2>1
<1>5. Ref!RefLength(b) = 2 + Ref!AddressBytes(b) + Ref!ImmediateBytes(b)
  <2> HIDE DEF w
  <2> QED  BY <1>1, <1>2, <1>4 DEF Ref!RefLength, Ref!AddressBytes
<1>6. Ref!AddressBytes(b) = CASE mod(b) = 1 -> 1 [] mod(b) = 2 \/ IsDirect(b) -> 2 [] OTHER -> 0
  BY <1>1, <1>2 DEF Ref!AddressBytes
<1>7. IsDirect(b) => mod(b) = 0  BY DEF IsDirect
<1>8. HasDisplacement(b) <=> IsDirect(b) \/ mod(b) \in {1, 2}  BY DEF HasDisplacement
<1>9. Ref!RefOperands(b) = <<RMOperand(b, w), Data>>
  <2>1. Ref!RMPlace(b) = RMOperand(b, w)  BY <1>1, <1>3, RMPlaceIs
  <2>2. b[0] \in Ref!ImmediateToRegMem  BY <1>2
  <2>3. Ref!RefOperands(b) = <<Ref!RMPlace(b), Ref!Immediate>>  BY <2>2, OperandsOf, Zenon
  <2> QED  BY <2>1, <2>3, SamePlaces
<1>10. /\ line.consumed = 3 + width + w /\ line.dst = dst /\ line.src = Data
       /\ line.data = extract_data(b, 2 + width, w) /\ line.data_type = type
  BY DEF process_mov_immediate_to_register_memory, Line
<1>11. b[0] = 199 <=> w = 1  OBVIOUS
<1> HIDE DEF line, w, dst, width, displacement, type
<1>12. width \in Nat /\ Ref!AddressBytes(b) \in 0..2  BY <1>1, <1>6 DEF width
<1>13. line.consumed = Ref!RefLength(b) <=> Fits
  <2>1. \A m, n, k \in Nat : 3 + m + k = 2 + n + (k + 1) <=> m = n  OBVIOUS
  <2>2. w \in Nat /\ width \in Nat /\ Ref!AddressBytes(b) \in Nat  BY <1>1, <1>12
  <2>3. line.consumed = 3 + width + w
        /\ Ref!RefLength(b) = 2 + Ref!AddressBytes(b) + (w + 1)
    BY <1>4, <1>5, <1>10
  <2> QED  BY <2>1, <2>2, <2>3
<1>14. Fits <=> ~(HasDisplacement(b) /\ (w = 1) # (Ref!AddressBytes(b) = 2))
  <2>1. CASE HasDisplacement(b)
    <3>1. width = w + 1  BY <2>1 DEF width
    <3>2. Ref!AddressBytes(b) \in {1, 2}  BY <1>6, <1>7, <1>8, <2>1
    <3>3. (w = 1) # (Ref!AddressBytes(b) = 2) <=> w + 1 # Ref!AddressBytes(b)
      BY <1>1, <3>2
    <3> QED  BY <2>1, <3>1, <3>3
  <2>2. CASE ~HasDisplacement(b)
    <3>1. width = 0 /\ Ref!AddressBytes(b) = 0  BY <1>6, <1>8, <2>2 DEF width
    <3> QED  BY <2>2, <3>1
  <2> QED  BY <2>1, <2>2
<1>15. Agrees(line, b)
          <=> Fits /\ dst = RMOperand(b, w)
              /\ extract_data(b, 2 + width, w) = Ref!RefImmediate(b)
              /\ (type = "word") = (w = 1)
  <2>1. Ref!ImmediateBytes(b) > 0  BY <1>1, <1>4
  <2>2. type # ""  BY DEF type
  <2>3. <<dst, Data>> = <<RMOperand(b, w), Data>> <=> dst = RMOperand(b, w)  OBVIOUS
  <2>4. (type = "word") = Ref!Wide(b) <=> (type = "word") = (w = 1)  BY <1>3
  <2> HIDE DEF Fits
  <2> QED  BY <1>9, <1>10, <1>13, <2>1, <2>2, <2>3, <2>4, Zenon DEF Agrees
<1>16. ASSUME mod(b) = 3 PROVE dst # RMOperand(b, w)
  <2>1. RMOperand(b, w) = Register(r_m(b), w)  BY <1>7, <1>16 DEF RMOperand
  <2>2. dst = Memory({register_map[r_m(b) + 1][w + 1]}, 0)  BY <1>16 DEF dst
  <2> QED  BY <2>1, <2>2, KindsDiffer
<1>17. ASSUME IsDirect(b) PROVE dst # RMOperand(b, w)
  <2>1. RMOperand(b, w) = Memory({}, 256 * b[3] + b[2])  BY <1>7, <1>17 DEF RMOperand
  <2>2. dst = Memory(mov_source_effective_address[r_m(b) + 1], displacement)
    BY <1>7, <1>17 DEF dst, Effective
  <2>3. mov_source_effective_address[r_m(b) + 1] # {}
    BY <1>1 DEF mov_source_effective_address
  <2> QED  BY <2>1, <2>2, <2>3 DEF Memory
<1>18. ASSUME w = 1, mod(b) \in {0, 1} PROVE (type = "word") # (w = 1)
  BY <1>18 DEF type
<1>19. ASSUME Fits, mod(b) # 3, ~IsDirect(b), w = 1 => mod(b) \notin {0, 1}
       PROVE  Agrees(line, b)
  <2>1. dst = RMOperand(b, w)
    <3>1. CASE mod(b) \in {1, 2}
      <4>1. width = mod(b) /\ w = mod(b) - 1 /\ HasDisplacement(b)
        BY <1>1, <1>6, <1>7, <1>8, <1>19, <3>1 DEF width
      <4>2. displacement = extract_displacement(b, 2, mod(b) - 1)
        BY <4>1 DEF displacement
      <4>3. dst = Effective(r_m(b), displacement)  BY <1>19 DEF dst
      <4>4. RMOperand(b, w) = Effective(r_m(b), extract_displacement(b, 2, mod(b) - 1))
        BY <1>19, <3>1 DEF RMOperand
      <4> QED  BY <4>2, <4>3, <4>4
    <3>2. CASE mod(b) = 0
      <4>1. displacement = 0  BY <1>8, <1>19, <3>2 DEF displacement
      <4>2. dst = Effective(r_m(b), 0)  BY <1>19, <4>1 DEF dst
      <4> QED  BY <1>19, <3>2, <4>2 DEF RMOperand
    <3> QED  BY <1>1, <1>19, <3>1, <3>2
  <2>2. extract_data(b, 2 + width, w) = Ref!RefImmediate(b)
    <3> DEFINE at == 2 + width
    <3>1. at \in 1..5 /\ Ref!RefLength(b) - Ref!ImmediateBytes(b) = at
      BY <1>1, <1>4, <1>5, <1>12, <1>19
    <3> HIDE DEF at
    <3>2. b[0] # 128  OBVIOUS
    <3>3. /\ Ref!ImmediateBytes(b) = 2 => Ref!RefImmediate(b) = extract_data(b, at, 1)
          /\ Ref!ImmediateBytes(b) = 1 => Ref!RefImmediate(b) = extract_data(b, at, 0)
      BY <3>1, <3>2, ImmediateIs
    <3>4. \/ w = 1 /\ Ref!ImmediateBytes(b) = 2
          \/ w = 0 /\ Ref!ImmediateBytes(b) = 1
      BY <1>1, <1>4
    <3> QED  BY <3>3, <3>4 DEF at
  <2>3. (type = "word") = (w = 1)  BY <1>1, <1>19 DEF type
  <2> QED  BY <1>15, <1>19, <2>1, <2>2, <2>3
<1>20. Agrees(line, b)
          <=> ~(\/ HasDisplacement(b) /\ (w = 1) # (Ref!AddressBytes(b) = 2)
                \/ mod(b) = 3 \/ IsDirect(b) \/ (b[0] = 199 /\ mod(b) \in {0, 1}))
  <2> HIDE DEF Fits
  <2> QED  BY <1>11, <1>14, <1>15, <1>16, <1>17, <1>18, <1>19, Zenon
<1> QED  BY <1>20 DEF line, w

\* Without a register byte nothing is displaced.
LEMMA NoRegisterByte ==
    ASSUME NEW b \in Bytes6, b[0] \notin Ref!HasRegisterByte
    PROVE  Ref!AddressBytes(b) = 0
           /\ Ref!RefLength(b) = 1 + Ref!ImmediateBytes(b)
                                 + (IF b[0] \in Ref!AccumulatorMemory THEN 2 ELSE 0)
<1>1. Ref!AddressBytes(b) = 0  BY DEF Ref!AddressBytes
<1>2. Ref!ImmediateBytes(b) \in Nat  BY DEF Ref!ImmediateBytes
<1> QED  BY <1>1, <1>2 DEF Ref!RefLength

\* An instruction of one opcode and data, whose data is read as wide as it is.
LEMMA DataAgrees ==
    ASSUME NEW b \in Bytes6, b[0] \notin Ref!HasRegisterByte,
           b[0] \notin Ref!AccumulatorMemory, b[0] # 128, NEW w \in 0..1,
           Ref!ImmediateBytes(b) = w + 1, NEW op, NEW dst,
           Ref!RefOperands(b) = <<dst, Data>>
    PROVE  Agrees(Line(op, 2 + w, dst, Data, extract_data(b, 1, w), ""), b)
<1> DEFINE line == Line(op, 2 + w, dst, Data, extract_data(b, 1, w), "")
<1>1. Ref!RefLength(b) = 2 + w  BY NoRegisterByte
<1>2. extract_data(b, 1, w) = Ref!RefImmediate(b)
  <2>1. 1 \in 1..5 /\ Ref!RefLength(b) - Ref!ImmediateBytes(b) = 1  BY <1>1
  <2>2. /\ Ref!ImmediateBytes(b) = 2 => Ref!RefImmediate(b) = extract_data(b, 1, 1)
        /\ Ref!ImmediateBytes(b) = 1 => Ref!RefImmediate(b) = extract_data(b, 1, 0)
    BY <2>1, ImmediateIs
  <2>3. \/ w = 1 /\ Ref!ImmediateBytes(b) = 2
        \/ w = 0 /\ Ref!ImmediateBytes(b) = 1
    OBVIOUS
  <2> QED  BY <2>2, <2>3
<1>3. /\ line.consumed = 2 + w /\ line.dst = dst /\ line.src = Data
      /\ line.data = extract_data(b, 1, w) /\ line.data_type = ""
  BY DEF Line
<1> HIDE DEF line
<1>4. Agrees(line, b)  BY <1>1, <1>2, <1>3, Zenon DEF Agrees
<1> QED  BY <1>4 DEF line

LEMMA ToRegisterAgrees ==
    ASSUME NEW b \in Bytes6, b[0] \in Ref!ImmediateToRegister
    PROVE  Agrees(process_mov_immediate_to_register(b), b)
<1> DEFINE w == Bit(b[0], 8)
<1>1. w \in 0..1 /\ b[0] % 8 \in 0..7  BY FieldsType
<1>2. /\ b[0] \notin Ref!HasRegisterByte /\ b[0] \notin Ref!AccumulatorMemory /\ b[0] # 128
      /\ b[0] \notin {128, 130, 131} /\ b[0] # 129
  BY DEF Ref!RegMemClass, Ref!ImmediateToRegister, Ref!SegmentMove, Ref!ImmediateToRegMem,
         Ref!AccumulatorMemory, Ref!HasRegisterByte
<1>3. Ref!Wide(b) <=> w = 1
  <2>1. Ref!Wide(b) <=> b[0] >= 184
    BY DEF Ref!Wide, Ref!ImmediateToRegister, Ref!SegmentMove
  <2>2. b[0] >= 184 <=> (b[0] \div 8) % 2 = 1  BY DEF Ref!ImmediateToRegister
  <2> QED  BY <2>1, <2>2 DEF Bit
<1> HIDE DEF w
<1>4. Ref!ImmediateBytes(b) = w + 1
  <2>1. Ref!ImmediateBytes(b) = IF Ref!Wide(b) THEN 2 ELSE 1
    BY <1>2 DEF Ref!ImmediateBytes, Ref!ImmediateToRegister, Ref!Short
  <2> QED  BY <1>1, <1>3, <2>1
<1>5. Ref!RefOperands(b) = <<Register(b[0] % 8, w), Data>>
  <2>1. Register(b[0] % 8, w) = Ref!InRegister(Ref!NameOf(b[0] % 8, Ref!Wide(b)))
    BY <1>1, <1>3, SameRegister
  <2> QED  BY <2>1, OperandsOf, SamePlaces, Zenon
<1>6. Agrees(Line("MOV_INST", 2 + w, Register(b[0] % 8, w), Data, extract_data(b, 1, w), ""), b)
  BY <1>1, <1>2, <1>4, <1>5, DataAgrees
<1> QED  BY <1>6 DEF process_mov_immediate_to_register, w

LEMMA ToAccumulatorAgrees ==
    ASSUME NEW b \in Bytes6, b[0] \in Ref!ImmediateToAccumulator, NEW op
    PROVE  Agrees(process_immediate_accumulator_op_inst(b, op), b)
<1> DEFINE w == b[0] % 2
<1>1. w \in 0..1 /\ 0 \in 0..7  BY FieldsType
<1>2. /\ b[0] \notin Ref!HasRegisterByte /\ b[0] \notin Ref!AccumulatorMemory /\ b[0] # 128
      /\ b[0] \notin {128, 130, 131} /\ b[0] # 129
      /\ b[0] \notin Ref!ImmediateToRegister /\ b[0] \notin Ref!SegmentMove
      /\ b[0] \notin Ref!Short
  BY DEF Ref!RegMemClass, Ref!ImmediateToRegister, Ref!SegmentMove, Ref!ImmediateToRegMem,
         Ref!AccumulatorMemory, Ref!HasRegisterByte, Ref!ImmediateToAccumulator, Ref!Short
<1>3. Ref!Wide(b) <=> w = 1  BY <1>2 DEF Ref!Wide
<1> HIDE DEF w
<1>4. Ref!ImmediateBytes(b) = w + 1
  <2>1. Ref!ImmediateBytes(b) = IF Ref!Wide(b) THEN 2 ELSE 1
    BY <1>2 DEF Ref!ImmediateBytes
  <2> QED  BY <1>1, <1>3, <2>1
<1>5. Ref!RefOperands(b) = <<Register(0, w), Data>>
  <2>1. Register(0, w) = Ref!AccumulatorPlace(b)
    BY <1>1, <1>3, SameRegister DEF Ref!AccumulatorPlace
  <2> QED  BY <2>1, OperandsOf, SamePlaces, Zenon
<1>6. Agrees(Line(op, 2 + w, Register(0, w), Data, extract_data(b, 1, w), ""), b)
  BY <1>1, <1>2, <1>4, <1>5, DataAgrees
<1> QED  BY <1>6 DEF process_immediate_accumulator_op_inst, w

LEMMA JumpsAgree ==
    ASSUME NEW b \in Bytes6, b[0] \in Ref!Short
    PROVE  Agrees(process_jump_op_inst(b), b)
<1>1. /\ b[0] \notin Ref!HasRegisterByte /\ b[0] \notin Ref!AccumulatorMemory /\ b[0] # 128
      /\ b[0] \notin {128, 130, 131} /\ b[0] # 129 /\ b[0] \notin {198, 199}
      /\ b[0] \notin Ref!ImmediateToRegister /\ b[0] \notin Ref!ImmediateToAccumulator
  BY DEF Ref!RegMemClass, Ref!ImmediateToRegister, Ref!SegmentMove, Ref!ImmediateToRegMem,
         Ref!AccumulatorMemory, Ref!HasRegisterByte, Ref!ImmediateToAccumulator, Ref!Short
<1>2. 0 \in 0..1 /\ 2 + 0 = 2 /\ Ref!ImmediateBytes(b) = 0 + 1
  BY <1>1 DEF Ref!ImmediateBytes
<1>3. Ref!RefOperands(b) = <<Data, Data>>  BY OperandsOf, SamePlaces, Zenon
<1>4. Agrees(Line(JumpName[b[0]], 2 + 0, Data, Data, extract_data(b, 1, 0), ""), b)
  BY <1>1, <1>2, <1>3, DataAgrees
<1> QED  BY <1>2, <1>4 DEF process_jump_op_inst

\* Between the accumulator and memory: the address of a byte is read as one byte.
LEMMA AccumulatorShapes ==
    ASSUME NEW b \in Bytes6, b[0] \in 160..163
    PROVE  Agrees(DecodeLine(b), b) <=> b[0] \notin {160, 162}
<1> DEFINE w == b[0] % 2
           ax == Register(0, 1)
           address == Memory({}, IF w = 1 THEN 256 * b[2] + b[1] ELSE b[1])
           load == process_mov_accumulator_inst(b, TRUE)
           store == process_mov_accumulator_inst(b, FALSE)
<1>1. w \in 0..1 /\ 0 \in 0..7 /\ 1 \in 0..1  BY FieldsType
<1>2. /\ b[0] \notin Ref!HasRegisterByte /\ b[0] \in Ref!AccumulatorMemory
      /\ b[0] \notin {128, 130, 131} /\ b[0] # 129 /\ b[0] \notin {198, 199}
      /\ b[0] \notin Ref!ImmediateToRegister /\ b[0] \notin Ref!SegmentMove
      /\ b[0] \notin Ref!ImmediateToAccumulator /\ b[0] \notin Ref!Short
  BY DEF Ref!RegMemClass, Ref!ImmediateToRegister, Ref!SegmentMove, Ref!ImmediateToRegMem,
         Ref!AccumulatorMemory, Ref!HasRegisterByte, Ref!ImmediateToAccumulator, Ref!Short
<1>3. Ref!Wide(b) <=> w = 1  BY <1>2 DEF Ref!Wide
<1>4. Ref!ImmediateBytes(b) = 0  BY <1>2 DEF Ref!ImmediateBytes
<1>5. Ref!RefLength(b) = 3  BY <1>2, <1>4, NoRegisterByte
<1>6. /\ load.consumed = 2 + w /\ load.dst = ax /\ load.src = address /\ load.data_type = ""
      /\ store.consumed = 2 + w /\ store.dst = address /\ store.src = ax
      /\ store.data_type = ""
  BY DEF process_mov_accumulator_inst, Line
<1>7. b[0] \notin {160, 162} <=> w = 1  OBVIOUS
<1>8. w = 1 => ax = Ref!AccumulatorPlace(b) /\ address = Ref!AddressPlace(b)
  <2> HIDE DEF w
  <2> QED  BY <1>1, <1>3, SameRegister, SamePlaces DEF Ref!AccumulatorPlace, Ref!AddressPlace
<1> HIDE DEF w, ax, address, load, store
<1>9. 2 + w = 3 <=> w = 1  BY <1>1
<1>10. ~(Ref!ImmediateBytes(b) > 0)  BY <1>4
<1>11. ASSUME b[0] \in {160, 161} PROVE Agrees(load, b) <=> w = 1
  <2>1. Ref!RefOperands(b) = <<Ref!AccumulatorPlace(b), Ref!AddressPlace(b)>>
    BY <1>11, OperandsOf, Zenon
  <2>2. w = 1 => <<ax, address>> = Ref!RefOperands(b)  BY <1>8, <2>1
  <2> QED  BY <1>5, <1>6, <1>9, <1>10, <2>2, Zenon DEF Agrees
<1>12. ASSUME b[0] \in {162, 163} PROVE Agrees(store, b) <=> w = 1
  <2>1. Ref!RefOperands(b) = <<Ref!AddressPlace(b), Ref!AccumulatorPlace(b)>>
    BY <1>12, OperandsOf, Zenon
  <2>2. w = 1 => <<address, ax>> = Ref!RefOperands(b)  BY <1>8, <2>1
  <2> QED  BY <1>5, <1>6, <1>9, <1>10, <2>2, Zenon DEF Agrees
<1>13. /\ b[0] \in {160, 161} => DecodeLine(b) = load
       /\ b[0] \in {162, 163} => DecodeLine(b) = store
  BY HandlerOf, Zenon DEF load, store
<1>14. b[0] \in {160, 161} \/ b[0] \in {162, 163}  OBVIOUS
<1> QED  BY <1>7, <1>11, <1>12, <1>13, <1>14

\* What a misread shape is, class by class.
LEMMA MisreadIs ==
    ASSUME NEW b \in Bytes6
    PROVE  /\ b[0] \in Ref!RegMemClass => (Misread(b) <=> IsDirect(b) /\ (b[0] % 4) # 3)
           /\ b[0] \in {140, 142} => (Misread(b) <=> IsDirect(b) \/ mod(b) \in {1, 2})
           /\ b[0] \in 128..131 =>
                (Misread(b)
                    <=> HasDisplacement(b) /\ (b[0] % 2 = 1) # (Ref!AddressBytes(b) = 2))
           /\ b[0] \in {198, 199} =>
                (Misread(b)
                    <=> \/ HasDisplacement(b) /\ (b[0] % 2 = 1) # (Ref!AddressBytes(b) = 2)
                        \/ mod(b) = 3 \/ IsDirect(b) \/ (b[0] = 199 /\ mod(b) \in {0, 1}))
           /\ b[0] \in 160..163 => (Misread(b) <=> b[0] \in {160, 162})
           /\ b[0] \in Ref!ImmediateToRegister \cup Ref!ImmediateToAccumulator \cup Ref!Short =>
                ~Misread(b)
<1> DEFINE ByWidth == (b[0] % 2 = 1) # (Ref!AddressBytes(b) = 2)
           NotLoad == (b[0] % 4) # 3
           group == b[0] \in 128..131
           move == b[0] \in {198, 199}
           regmem == b[0] \in Ref!RegMemClass
           segment == b[0] \in {140, 142}
           load == b[0] \in {160, 161}
           store == b[0] \in {162, 163}
           rest == b[0] \in Ref!ImmediateToRegister \cup Ref!ImmediateToAccumulator \cup Ref!Short
<1>1. /\ Ref!Mod(b) = mod(b) /\ (Ref!IsDirect(b) <=> IsDirect(b))
  BY SameFields
<1>2. b[0] \in Int  BY DEF Bytes6, Byte
<1>3. /\ b[0] \in Ref!HasRegisterByte <=> regmem \/ group \/ move \/ segment
      /\ b[0] \in Ref!ImmediateToRegMem <=> group \/ move
      /\ b[0] \in Ref!SegmentMove <=> segment
  BY DEF Ref!HasRegisterByte, Ref!ImmediateToRegMem, Ref!SegmentMove
<1>4. /\ regmem => ~group /\ ~move /\ ~segment /\ ~load /\ ~store
      /\ group => ~move /\ ~segment /\ ~load /\ ~store
      /\ move => ~segment /\ ~load /\ ~store
      /\ segment => ~load /\ ~store
      /\ rest => ~regmem /\ ~group /\ ~move /\ ~segment /\ ~load /\ ~store
  BY <1>2 DEF Ref!RegMemClass, Ref!ImmediateToRegister, Ref!ImmediateToAccumulator, Ref!Short
<1>5. b[0] \in {160, 162} <=> (load /\ b[0] = 160) \/ (store /\ b[0] = 162)
  OBVIOUS
<1>6. load => ~store  OBVIOUS
<1>7. b[0] = 160 => ~(b[0] = 162)  OBVIOUS
<1>8. b[0] \in 160..163 <=> load \/ store  OBVIOUS
<1> HIDE DEF ByWidth, NotLoad, group, move, regmem, segment, load, store, rest
<1>9. HasDisplacement(b) <=> IsDirect(b) \/ mod(b) \in {1, 2}  BY DEF HasDisplacement
<1>10. Misread(b)
        <=> \/ (group \/ move) /\ HasDisplacement(b) /\ ByWidth
            \/ IsDirect(b) /\ ((regmem /\ NotLoad) \/ segment)
            \/ segment /\ mod(b) \in {1, 2}
            \/ (load /\ b[0] = 160) \/ (store /\ b[0] = 162)
            \/ move /\ (mod(b) = 3 \/ IsDirect(b) \/ (b[0] = 199 /\ mod(b) \in {0, 1}))
  <2>1. Direct(b) <=> (regmem \/ group \/ move \/ segment) /\ IsDirect(b)
    BY <1>1, <1>3 DEF Direct
  <2>2. Displaced(b) <=> (regmem \/ group \/ move \/ segment) /\ mod(b) \in {1, 2}
    BY <1>1, <1>3 DEF Displaced
  <2>3. DisplacementByWidth(b) <=> (group \/ move) /\ HasDisplacement(b) /\ ByWidth
    BY <1>3, <1>9, <2>1, <2>2 DEF DisplacementByWidth, ByWidth
  <2>4. DirectOperand(b) <=> IsDirect(b) /\ ((regmem /\ NotLoad) \/ segment)
    BY <1>3, <2>1 DEF DirectOperand, NotLoad, regmem
  <2>5. SegmentBase(b) <=> segment /\ mod(b) \in {1, 2}
    BY <1>3, <2>2 DEF SegmentBase
  <2>6. AccumulatorByte(b) <=> (load /\ b[0] = 160) \/ (store /\ b[0] = 162)
    BY <1>5 DEF AccumulatorByte
  <2>7. ImmediateMove(b)
          <=> move /\ (mod(b) = 3 \/ IsDirect(b) \/ (b[0] = 199 /\ mod(b) \in {0, 1}))
    BY <1>1, <2>1 DEF ImmediateMove, move
  <2> QED  BY <2>3, <2>4, <2>5, <2>6, <2>7 DEF Misread
<1>11. regmem => (Misread(b) <=> IsDirect(b) /\ NotLoad)  BY <1>4, <1>10
<1>12. segment => (Misread(b) <=> IsDirect(b) \/ mod(b) \in {1, 2})  BY <1>4, <1>10
<1>13. group => (Misread(b) <=> HasDisplacement(b) /\ ByWidth)  BY <1>4, <1>10
<1>14. move => (Misread(b)
                  <=> \/ HasDisplacement(b) /\ ByWidth
                      \/ mod(b) = 3 \/ IsDirect(b) \/ (b[0] = 199 /\ mod(b) \in {0, 1}))
  BY <1>4, <1>10
<1>15. (load => (Misread(b) <=> b[0] = 160)) /\ (store => (Misread(b) <=> b[0] = 162))
  BY <1>4, <1>6, <1>10
<1>16. rest => ~Misread(b)  BY <1>4, <1>10
<1>17. b[0] \in 160..163 => (Misread(b) <=> b[0] \in {160, 162})
  BY <1>5, <1>15, <1>8
<1> QED  BY <1>11, <1>12, <1>13, <1>14, <1>16, <1>17
         DEF ByWidth, NotLoad, group, move, regmem, segment, load, store, rest

\* The shapes, for every instruction the program recognizes.
LEMMA LineShapes ==
    ASSUME NEW b \in Bytes6, Recognized(b)
    PROVE  Agrees(DecodeLine(b), b) <=> ~Misread(b)
<1>1. b[0] \in Int  BY DEF Bytes6, Byte
<1>2. CASE b[0] \in Ref!RegMemClass
  <2>1. \A op : Agrees(process_regmem_tpo_reg_op_inst(b, op, FALSE), b) <=> ~Misread(b)
    BY <1>2, RegMemShapes, MisreadIs
  <2>2. b[0] \in 136..139 \/ b[0] \in 0..3 \/ b[0] \in 40..43 \/ b[0] \in 56..59
    BY <1>2 DEF Ref!RegMemClass
  <2> DEFINE mov == process_regmem_tpo_reg_op_inst(b, "MOV_INST", FALSE)
             add == process_regmem_tpo_reg_op_inst(b, "ADD_INST", FALSE)
             sub == process_regmem_tpo_reg_op_inst(b, "SUB_INST", FALSE)
             cmp == process_regmem_tpo_reg_op_inst(b, "CMP_INST", FALSE)
  <2>3. \A line \in {mov, add, sub, cmp} : Agrees(line, b) <=> ~Misread(b)
    BY <2>1, Zenon
  <2>4. /\ b[0] \in 136..139 => DecodeLine(b) = mov
        /\ b[0] \in 0..3 => DecodeLine(b) = add
        /\ b[0] \in 40..43 => DecodeLine(b) = sub
        /\ b[0] \in 56..59 => DecodeLine(b) = cmp
    BY HandlerOf, Zenon
  <2> HIDE DEF mov, add, sub, cmp
  <2> QED  BY <2>2, <2>3, <2>4
<1>3. CASE b[0] \in {140, 142}
  <2>1. DecodeLine(b) = process_regmem_tpo_reg_op_inst(b, "MOV_INST", TRUE)
    BY <1>3, HandlerOf
  <2>2. Agrees(process_regmem_tpo_reg_op_inst(b, "MOV_INST", TRUE), b)
          <=> ~(IsDirect(b) \/ mod(b) \in {1, 2})
    BY <1>3, SegmentShapes
  <2>3. Misread(b) <=> IsDirect(b) \/ mod(b) \in {1, 2}  BY <1>3, MisreadIs
  <2>4. Agrees(DecodeLine(b), b) <=> ~(IsDirect(b) \/ mod(b) \in {1, 2})  BY <2>1, <2>2
  <2> QED  BY <2>3, <2>4
<1>4. CASE b[0] \in 128..131
  <2>1. DecodeLine(b) = process_immediate_to_regmem_op_inst(b)  BY <1>4, HandlerOf, Zenon
  <2>2. Agrees(process_immediate_to_regmem_op_inst(b), b) <=> ~Misread(b)
    BY <1>4, GroupShapes, MisreadIs
  <2> QED  BY <2>1, <2>2
<1>5. CASE b[0] \in {198, 199}
  <2>1. DecodeLine(b) = process_mov_immediate_to_register_memory(b)  BY <1>5, HandlerOf, Zenon
  <2>2. Agrees(process_mov_immediate_to_register_memory(b), b) <=> ~Misread(b)
    BY <1>5, ImmediateMoveShapes, MisreadIs
  <2> QED  BY <2>1, <2>2
<1>6. CASE b[0] \in 160..163
  <2>1. Misread(b) <=> b[0] \in {160, 162}  BY <1>6, MisreadIs
  <2>2. Agrees(DecodeLine(b), b) <=> b[0] \notin {160, 162}  BY <1>6, AccumulatorShapes
  <2> QED  BY <2>1, <2>2
<1>7. CASE b[0] \in 176..191
  <2>1. b[0] \in Ref!ImmediateToRegister  BY <1>7 DEF Ref!ImmediateToRegister
  <2>2. ~Misread(b)  BY <2>1, MisreadIs
  <2> QED  BY <1>7, <2>1, <2>2, ToRegisterAgrees, HandlerOf, Zenon
<1>8. CASE b[0] \in Ref!ImmediateToAccumulator
  <2>1. ~Misread(b)  BY <1>8, MisreadIs
  <2>2. \A op : Agrees(process_immediate_accumulator_op_inst(b, op), b)
    BY <1>8, ToAccumulatorAgrees
  <2>3. b[0] \in {4, 5} \/ b[0] \in {44, 45} \/ b[0] \in {60, 61}
    BY <1>8 DEF Ref!ImmediateToAccumulator
  <2> QED  BY <2>1, <2>2, <2>3, HandlerOf, Zenon
<1>9. CASE b[0] \in Ref!Short
  <2>1. ~Misread(b)  BY <1>9, MisreadIs
  <2>2. b[0] \in (112..127) \cup (224..227)  BY <1>9 DEF Ref!Short
  <2> QED  BY <1>9, <2>1, <2>2, JumpsAgree, HandlerOf, Zenon
<1>10. \/ b[0] \in Ref!RegMemClass \/ b[0] \in {140, 142} \/ b[0] \in 128..131
       \/ b[0] \in {198, 199} \/ b[0] \in 160..163 \/ b[0] \in 176..191
       \/ b[0] \in Ref!ImmediateToAccumulator \/ b[0] \in Ref!Short
  BY <1>1 DEF Recognized, Ref!RegMemClass, Ref!ImmediateToAccumulator, Ref!Short
<1> QED  BY <1>2, <1>3, <1>4, <1>5, <1>6, <1>7, <1>8, <1>9, <1>10

-----------------------------------------------------------------------------
(* The invariant.  bytes_available either is what is left of the chunk, or *)
(* it has wrapped: then the pointer is beyond the chunk, and stays there.  *)

Lines == {DecodeLine(b) : b \in {c \in Bytes6 : Recognized(c)}}
Entries == [at : Nat, inst : Lines, bytes : Bytes6]
StateType ==
    /\ file \in Seq(Byte) /\ memory \in [0..MEMORY_SIZE - 1 -> Byte]
    /\ offset \in 0..Len(file) /\ base \in 0..offset
    /\ bytes_available \in 0..SIZE_T - 1 /\ ptr \in 0..MEMORY_SIZE
    /\ failed_read \in BOOLEAN
    /\ status \in {"start", "running", "done", "error", "crashed"}
    /\ listing \in Seq(Entries)

Exact == bytes_available = offset - (base + ptr)
Wrapped ==
    /\ base + ptr > offset /\ bytes_available = offset - (base + ptr) + SIZE_T
    /\ status \in {"running", "error", "crashed"}
ChunkInMemory ==
    /\ offset - base <= BUFFER_SIZE
    /\ \A k \in 0..offset - base - 1 : memory[k] = file[base + k + 1]
Tiles ==
    /\ \A i \in 1..Len(listing) : listing[i].at = StartOf(i) /\ EndOf(i) <= base + ptr
    /\ StartOf(Len(listing) + 1) = base + ptr
ReadLinesAreOfTheFile ==
    \A i \in 1..Len(listing) : EndOf(i) <= offset =>
        \A k \in 1..listing[i].inst.consumed :
            listing[i].bytes[k - 1] = file[listing[i].at + k]
AtTheEnd ==
    status = "done" => base + ptr = offset /\ (failed_read \/ offset = Len(file))
FDInv ==
    /\ StateType /\ (Exact \/ Wrapped) /\ ChunkInMemory
    /\ Tiles /\ ReadLinesAreOfTheFile /\ AtTheEnd

LEMMA LinesType == \A line \in Lines : WellFormed(line)
  BY LinesAreWellFormed DEF Lines

\* A value one subtraction below zero is brought back by one modulus.
LEMMA WrapOnce ==
    ASSUME NEW m \in Nat \ {0}, NEW x \in Int, -m <= x, x < m
    PROVE  x % m = IF x < 0 THEN x + m ELSE x
  OBVIOUS

\* The invariant gives the checked properties.
LEMMA InvGivesProperties == FDInv => TypeOK /\ ListingIsOfTheFile /\ CutIsFatal
<1> SUFFICES ASSUME FDInv PROVE TypeOK /\ ListingIsOfTheFile /\ CutIsFatal  OBVIOUS
<1> USE DEF FDInv
<1>1. /\ DOMAIN listing = 1..Len(listing) /\ Len(listing) \in Nat
      /\ \A i \in 1..Len(listing) : listing[i] \in Entries
  BY DEF StateType
<1>2. \A i \in 1..Len(listing) : WellFormed(listing[i].inst)
  BY <1>1, LinesType DEF Entries
<1>3. TypeOK
  BY <1>1, <1>2 DEF TypeOK, StateType, Entries, Bytes6, WellFormed
<1>4. ListingIsOfTheFile
  BY <1>1 DEF ListingIsOfTheFile, Tiles, ReadLinesAreOfTheFile, AtTheEnd
<1>5. CutIsFatal
  <2> SUFFICES ASSUME NEW i \in 1..Len(listing), EndOf(i) > offset
               PROVE  /\ status \in {"running", "error", "crashed"}
                      /\ bytes_available > MEMORY_SIZE
    BY <1>1 DEF CutIsFatal
  <2>1. EndOf(i) \in Nat
    BY <1>1, <1>2 DEF EndOf, Entries, WellFormed
  <2>2. EndOf(i) <= base + ptr  BY DEF Tiles
  <2>3. base + ptr > offset  BY <2>1, <2>2 DEF StateType
  <2>4. Wrapped  BY <2>3 DEF Exact, StateType
  <2> QED  BY <2>4, FirstDecoderAssumption DEF Wrapped, StateType
<1> QED  BY <1>3, <1>4, <1>5

-----------------------------------------------------------------------------
(* Every step preserves it.                                                *)

LEMMA InitInv == Init => FDInv
<1> SUFFICES ASSUME Init PROVE FDInv  OBVIOUS
<1>1. StateType
  <2>1. file \in Seq(Byte) /\ memory \in [0..MEMORY_SIZE - 1 -> Byte]
    BY FirstDecoderAssumption DEF Init, Byte
  <2>2. Len(file) \in Nat /\ listing \in Seq(Entries)  BY <2>1 DEF Init
  <2>3. 0 \in 0..SIZE_T - 1 /\ 0 \in 0..MEMORY_SIZE /\ 0 \in 0..Len(file) /\ 0 \in 0..0
    BY <2>2, FirstDecoderAssumption
  <2> QED  BY <2>1, <2>2, <2>3 DEF Init, StateType
<1>2. Exact /\ ChunkInMemory
  BY FirstDecoderAssumption DEF Init, Exact, ChunkInMemory
<1>3. Tiles /\ ReadLinesAreOfTheFile /\ AtTheEnd
  BY DEF Init, Tiles, StartOf, ReadLinesAreOfTheFile, AtTheEnd
<1> QED  BY <1>1, <1>2, <1>3 DEF FDInv

\* A step that only changes the status, and not to a normal end.
LEMMA StatusStep ==
    ASSUME FDInv, status' \in {"running", "error", "crashed"},
           UNCHANGED <<file, memory, offset, base, bytes_available, ptr, listing, failed_read>>
    PROVE  FDInv'
<1>1. StateType'  BY DEF FDInv, StateType
<1>2. Exact' \/ Wrapped'  BY DEF FDInv, Exact, Wrapped
<1>3. ChunkInMemory' /\ Tiles' /\ ReadLinesAreOfTheFile' /\ AtTheEnd'
  BY DEF FDInv, ChunkInMemory, Tiles, ReadLinesAreOfTheFile, AtTheEnd, StartOf, EndOf
<1> QED  BY <1>1, <1>2, <1>3 DEF FDInv

\* A chunk is only read when the count is exact: the lines so far are all of the file.
LEMMA ReadStep ==
    ASSUME FDInv, ChunkUsedUp, NEW n \in 0..Wanted, NEW failed \in BOOLEAN,
           Fread(n, failed), failed \/ n = Wanted
    PROVE  FDInv'
<1> USE DEF FDInv, ChunkUsedUp, Fread, FreadInto
<1>1. /\ Len(file) \in Nat /\ offset \in Nat /\ base \in Nat /\ ptr \in Nat
      /\ BUFFER_SIZE \in Nat \ {0} /\ MEMORY_SIZE \in Nat /\ SIZE_T \in Nat
      /\ BUFFER_SIZE <= MEMORY_SIZE /\ 2 * MEMORY_SIZE < SIZE_T
      /\ offset <= Len(file) /\ base <= offset /\ ptr <= MEMORY_SIZE
  BY FirstDecoderAssumption DEF StateType
<1>2. /\ n \in Nat /\ n <= BUFFER_SIZE /\ offset + n <= Len(file)
      /\ n = 0 => failed \/ offset = Len(file)
  BY <1>1 DEF Wanted
<1>3. base + ptr = offset
  <2>1. CASE Exact  BY <2>1, <1>1 DEF Exact
  <2>2. CASE Wrapped
    <3>1. offset - (base + ptr) + SIZE_T = 0  BY <2>2 DEF Wrapped
    <3> QED  BY <3>1, <1>1
  <2> QED  BY <2>1, <2>2
<1>4. base' + ptr' = offset /\ base' = offset /\ ptr' = 0 /\ offset' = offset + n
  BY <1>1
<1>5. memory' \in [0..MEMORY_SIZE - 1 -> Byte]
  <2>1. DOMAIN memory = 0..MEMORY_SIZE - 1  BY DEF StateType
  <2>2. ASSUME NEW k \in 0..MEMORY_SIZE - 1, k < n PROVE file[offset + k + 1] \in Byte
    <3>1. offset + k + 1 \in 1..Len(file)  BY <1>1, <1>2, <2>2
    <3> QED  BY <3>1 DEF StateType
  <2>3. ASSUME NEW k \in 0..MEMORY_SIZE - 1 PROVE memory[k] \in Byte  BY DEF StateType
  <2> QED  BY <2>1, <2>2, <2>3
<1>6. StateType'
  BY <1>1, <1>2, <1>4, <1>5 DEF StateType
<1>7. Exact'
  BY <1>1, <1>2, <1>4 DEF Exact
<1>8. ChunkInMemory'
  <2>1. offset' - base' = n  BY <1>1, <1>2, <1>4
  <2>2. ASSUME NEW k \in 0..n - 1 PROVE memory'[k] = file'[base' + k + 1]
    <3>1. k \in DOMAIN memory /\ k < n  BY <1>1, <1>2 DEF StateType
    <3> QED  BY <3>1, <1>4
  <2> QED  BY <1>2, <2>1, <2>2 DEF ChunkInMemory
<1>9. Tiles'
  BY <1>3, <1>4 DEF Tiles, StartOf, EndOf
<1>10. ReadLinesAreOfTheFile'
  BY <1>3 DEF Tiles, ReadLinesAreOfTheFile, EndOf
<1>11. AtTheEnd'
  BY <1>1, <1>2, <1>4 DEF AtTheEnd, StateType
<1> QED  BY <1>6, <1>7, <1>8, <1>9, <1>10, <1>11

\* The bytes in front of the pointer.
LEMMA WindowType == FDInv => Window \in Bytes6
<1> SUFFICES ASSUME FDInv PROVE Window \in Bytes6  OBVIOUS
<1>1. /\ ptr \in Nat /\ MEMORY_SIZE \in Nat
      /\ \A n \in 0..MEMORY_SIZE - 1 : memory[n] \in Byte
  BY FirstDecoderAssumption DEF FDInv, StateType
<1>2. ASSUME NEW k \in 0..5, ptr + k < MEMORY_SIZE PROVE memory[ptr + k] \in Byte
  BY <1>1, <1>2
<1> QED  BY <1>2 DEF Window, Bytes6, Byte

LEMMA DecodeStep ==
    ASSUME FDInv, DecodeOne
    PROVE  FDInv'
<1> DEFINE line == DecodeLine(Window)
           entry == [at |-> base + ptr, inst |-> line, bytes |-> Window]
<1>1. line \in Lines /\ WellFormed(line) /\ Window \in Bytes6
  BY WindowType, LinesType DEF DecodeOne, Lines
<1>2. line.consumed \in Nat /\ 2 <= line.consumed /\ line.consumed <= 6
  BY <1>1 DEF WellFormed
<1>3. /\ Len(file) \in Nat /\ offset \in Nat /\ base \in Nat /\ ptr \in Nat
      /\ BUFFER_SIZE \in Nat \ {0} /\ MEMORY_SIZE \in Nat /\ SIZE_T \in Nat
      /\ BUFFER_SIZE <= MEMORY_SIZE /\ 2 * MEMORY_SIZE < SIZE_T
      /\ offset <= Len(file) /\ base <= offset /\ ptr <= MEMORY_SIZE
      /\ bytes_available \in Nat /\ 0 < bytes_available /\ bytes_available < SIZE_T
      /\ status = "running"
  BY FirstDecoderAssumption DEF FDInv, StateType, DecodeOne, CanDecode
<1>4. CASE ptr + line.consumed > MEMORY_SIZE
  <2>1. ~(ptr + line.consumed <= MEMORY_SIZE)  BY <1>2, <1>3, <1>4
  <2>2. /\ status' = "crashed"
        /\ UNCHANGED <<file, memory, offset, base, bytes_available, ptr, listing, failed_read>>
    BY <2>1 DEF DecodeOne
  <2> QED  BY <2>2, StatusStep
<1>5. CASE ptr + line.consumed <= MEMORY_SIZE
  <2>1. /\ listing' = Append(listing, entry) /\ ptr' = ptr + line.consumed
        /\ bytes_available' = Remaining(line.consumed) /\ status' = "running"
        /\ UNCHANGED <<file, memory, offset, base, failed_read>>
    BY <1>3, <1>5 DEF DecodeOne
  <2>2. entry \in Entries  BY <1>1, <1>3 DEF Entries
  <2>3. /\ entry.at = base + ptr /\ entry.inst = line /\ entry.bytes = Window  OBVIOUS
  <2> HIDE DEF line, entry
  <2> PICK n \in Nat : n = Len(listing)  BY DEF FDInv, StateType
  <2>4. /\ listing \in Seq(Entries)
        /\ listing' \in Seq(Entries) /\ Len(listing) = n /\ Len(listing') = n + 1
        /\ \A i \in 1..n : listing'[i] = listing[i]
        /\ listing'[n + 1] = entry
    BY <2>1, <2>2 DEF FDInv, StateType
  <2>5. bytes_available' = IF bytes_available - line.consumed < 0
                           THEN bytes_available - line.consumed + SIZE_T
                           ELSE bytes_available - line.consumed
    <3>1. /\ SIZE_T \in Nat \ {0} /\ bytes_available - line.consumed \in Int
          /\ -SIZE_T <= bytes_available - line.consumed
          /\ bytes_available - line.consumed < SIZE_T
      BY <1>2, <1>3, <1>5
    <3> QED  BY <2>1, <3>1, WrapOnce DEF Remaining
  <2> DEFINE left == bytes_available - line.consumed
  <2>6. /\ left \in Int /\ left < SIZE_T /\ 0 <= left + SIZE_T
        /\ left >= 0 => bytes_available' = left
        /\ left < 0 => bytes_available' = left + SIZE_T
    <3>1. bytes_available \in Int /\ line.consumed \in Int /\ SIZE_T \in Int
          /\ 2 <= line.consumed /\ line.consumed <= 6
          /\ 0 < bytes_available /\ bytes_available < SIZE_T
          /\ line.consumed <= SIZE_T
      BY <1>2, <1>3, <1>5
    <3>2. left \in Int /\ left < SIZE_T /\ 0 <= left + SIZE_T
      BY <3>1
    <3> HIDE DEF left
    <3>3. /\ left >= 0 => bytes_available' = left
          /\ left < 0 => bytes_available' = left + SIZE_T
      BY <2>5, <3>2 DEF left
    <3> QED  BY <3>2, <3>3
  <2>7. StateType'
    <3>1. bytes_available' \in 0..SIZE_T - 1  BY <1>3, <2>6
    <3>2. ptr' \in 0..MEMORY_SIZE  BY <1>2, <1>3, <1>5, <2>1
    <3> QED  BY <2>1, <2>4, <3>1, <3>2 DEF FDInv, StateType
  <2>8. Exact' \/ Wrapped'
    <3>1. offset' = offset /\ base' + ptr' = base + ptr + line.consumed /\ status' = "running"
      BY <1>2, <1>3, <2>1
    <3>2. ASSUME Exact, left >= 0 PROVE Exact'
      BY <3>1, <3>2, <1>2, <1>3, <2>6 DEF Exact
    <3>3. ASSUME Exact, left < 0 PROVE Wrapped'
      BY <3>1, <3>3, <1>2, <1>3, <2>6 DEF Exact, Wrapped
    <3>4. ASSUME Wrapped PROVE Wrapped'
      <4>1. left >= 0  BY <3>4, <1>2, <1>3, <1>5 DEF Wrapped
      <4> QED  BY <3>1, <3>4, <4>1, <1>2, <1>3, <2>6 DEF Wrapped
    <3> QED  BY <3>2, <3>3, <3>4, <2>6 DEF FDInv
  <2>9. ChunkInMemory'
    BY <2>1 DEF FDInv, ChunkInMemory
  <2>10. /\ \A i \in 1..n : EndOf(i)' = EndOf(i) /\ StartOf(i)' = StartOf(i)
        /\ StartOf(n + 1)' = StartOf(n + 1)
        /\ EndOf(n + 1)' = base + ptr + line.consumed
        /\ StartOf(n + 2)' = EndOf(n + 1)'
    <3>1. \A i \in 1..n : EndOf(i)' = EndOf(i)  BY <2>4 DEF EndOf
    <3>2. \A i \in 1..n + 1 : i # 1 => i - 1 \in 1..n  BY <2>4
    <3>3. \A i \in 1..n + 1 : StartOf(i)' = StartOf(i)
      BY <3>1, <3>2 DEF StartOf
    <3>4. EndOf(n + 1)' = base + ptr + line.consumed
      BY <2>3, <2>4 DEF EndOf
    <3>5. n + 2 # 1 /\ (n + 2) - 1 = n + 1  OBVIOUS
    <3>6. StartOf(n + 2)' = EndOf(n + 1)'
      BY <3>5 DEF StartOf
    <3> QED  BY <2>4, <3>1, <3>3, <3>4, <3>6
  <2>11. \A i \in 1..n : EndOf(i) \in Nat
    <3>1. \A i \in 1..n : listing[i] \in Entries  BY <2>4
    <3>2. \A i \in 1..n : listing[i].at \in Nat /\ WellFormed(listing[i].inst)
      BY <3>1, LinesType DEF Entries
    <3> QED  BY <3>2 DEF EndOf, WellFormed
  <2>12. \A i \in 1..n + 1 : i \in 1..n \/ i = n + 1
    BY <2>4
  <2>13. Tiles'
    <3>1. ASSUME NEW i \in 1..n
          PROVE  listing'[i].at = StartOf(i)' /\ EndOf(i)' <= base' + ptr'
      BY <1>2, <1>3, <2>1, <2>4, <2>10, <2>11 DEF FDInv, Tiles
    <3>2. /\ listing'[n + 1].at = StartOf(n + 1)'
          /\ EndOf(n + 1)' <= base' + ptr'
      BY <1>2, <1>3, <2>1, <2>3, <2>4, <2>10 DEF FDInv, Tiles
    <3>3. StartOf(n + 2)' = base' + ptr'
      BY <1>2, <1>3, <2>1, <2>10
    <3> QED  BY <2>4, <2>12, <3>1, <3>2, <3>3 DEF Tiles
  <2>14. ReadLinesAreOfTheFile'
    <3>1. ASSUME NEW i \in 1..n, EndOf(i)' <= offset',
                 NEW k \in 1..listing'[i].inst.consumed
          PROVE  listing'[i].bytes[k - 1] = file'[listing'[i].at + k]
      BY <3>1, <2>1, <2>4, <2>10 DEF FDInv, ReadLinesAreOfTheFile
    <3>2. ASSUME EndOf(n + 1)' <= offset', NEW k \in 1..line.consumed
          PROVE  Window[k - 1] = file[base + ptr + k]
      <4>1. k \in 1..6 /\ ptr + k - 1 \in 0..offset - base - 1 /\ ptr + (k - 1) < MEMORY_SIZE
        BY <1>2, <1>3, <1>5, <2>1, <2>10, <3>2
      <4>2. k - 1 \in 0..5 /\ ptr + (k - 1) = ptr + k - 1
            /\ base + (ptr + k - 1) + 1 = base + ptr + k
        BY <1>3, <4>1
      <4>3. Window[k - 1] = memory[ptr + k - 1]  BY <4>1, <4>2 DEF Window
      <4>4. memory[ptr + k - 1] = file[base + (ptr + k - 1) + 1]
        BY <4>1 DEF FDInv, ChunkInMemory
      <4> QED  BY <4>2, <4>3, <4>4
    <3>3. ASSUME EndOf(n + 1)' <= offset'
          PROVE  \A k \in 1..listing'[n + 1].inst.consumed :
                    listing'[n + 1].bytes[k - 1]
                        = file'[listing'[n + 1].at + k]
      BY <3>2, <3>3, <2>1, <2>3, <2>4
    <3> QED  BY <2>4, <2>12, <3>1, <3>3 DEF ReadLinesAreOfTheFile
  <2>15. AtTheEnd'  BY <2>1 DEF AtTheEnd
  <2> QED  BY <2>7, <2>8, <2>9, <2>13, <2>14, <2>15 DEF FDInv
<1> QED  BY <1>2, <1>3, <1>4, <1>5

LEMMA NextInv == FDInv /\ [Next]_vars => FDInv'
<1> SUFFICES ASSUME FDInv, [Next]_vars PROVE FDInv'  OBVIOUS
<1>1. CASE OpenFiles  BY <1>1, StatusStep DEF OpenFiles
<1>2. CASE ReadChunk
  <2>1. Wanted \in 0..Wanted
    BY FirstDecoderAssumption DEF Wanted, FDInv, StateType
  <2> QED  BY <1>2, <2>1, ReadStep DEF ReadChunk
<1>3. CASE FailRead  BY <1>3, ReadStep DEF FailRead
<1>4. CASE DecodeOne  BY <1>4, DecodeStep
<1>5. CASE NotRecognized  BY <1>5, StatusStep DEF NotRecognized
<1>6. CASE PastMemory  BY <1>6, StatusStep DEF PastMemory
<1>7. CASE UNCHANGED vars
  BY <1>7 DEF vars, FDInv, StateType, Exact, Wrapped, ChunkInMemory, Tiles, StartOf, EndOf,
              ReadLinesAreOfTheFile, AtTheEnd
<1> QED  BY <1>1, <1>2, <1>3, <1>4, <1>5, <1>6, <1>7 DEF Next, Step, Ended

LEMMA SpecInv == Spec => []FDInv
  BY InitInv, NextInv, PTL DEF Spec

-----------------------------------------------------------------------------
(* Every line is decoded from the bytes it is listed with.                 *)

DecodedLines ==
    \A i \in 1..Len(listing) :
        Recognized(listing[i].bytes) /\ listing[i].inst = DecodeLine(listing[i].bytes)

LEMMA DecodedInit == Init => DecodedLines
  BY DEF Init, DecodedLines

LEMMA DecodedNext == FDInv /\ DecodedLines /\ [Next]_vars => DecodedLines'
<1> SUFFICES ASSUME FDInv, DecodedLines, [Next]_vars PROVE DecodedLines'  OBVIOUS
<1>1. CASE listing' = listing  BY <1>1 DEF DecodedLines
<1>2. CASE DecodeOne /\ listing' # listing
  <2> DEFINE entry == [at |-> base + ptr, inst |-> DecodeLine(Window), bytes |-> Window]
  <2>1. listing' = Append(listing, entry) /\ Recognized(Window)
    BY <1>2 DEF DecodeOne
  <2>2. entry.inst = DecodeLine(Window) /\ entry.bytes = Window  OBVIOUS
  <2> HIDE DEF entry
  <2> PICK n \in Nat : n = Len(listing)  BY DEF FDInv, StateType
  <2>3. /\ Len(listing) = n /\ Len(listing') = n + 1
        /\ \A i \in 1..n : listing'[i] = listing[i]
        /\ listing'[n + 1] = entry
    BY <2>1 DEF FDInv, StateType
  <2>4. \A i \in 1..n : Recognized(listing'[i].bytes)
                        /\ listing'[i].inst = DecodeLine(listing'[i].bytes)
    BY <2>3 DEF DecodedLines
  <2>5. Recognized(listing'[n + 1].bytes)
        /\ listing'[n + 1].inst = DecodeLine(listing'[n + 1].bytes)
    BY <2>1, <2>2, <2>3
  <2>6. \A i \in 1..n + 1 : i \in 1..n \/ i = n + 1  OBVIOUS
  <2> QED  BY <2>3, <2>4, <2>5, <2>6 DEF DecodedLines
<1>3. DecodeOne \/ listing' = listing
  BY DEF Next, Step, Ended, vars, OpenFiles, ReadChunk, FailRead, Fread, FreadInto,
         NotRecognized, PastMemory
<1> QED  BY <1>1, <1>2, <1>3

LEMMA DecodedGivesShapes == FDInv /\ DecodedLines => MisreadsTheseShapesOnly
<1> SUFFICES ASSUME FDInv, DecodedLines, NEW i \in DOMAIN listing
             PROVE  SameAsEncoded(listing[i]) <=> ~Misread(listing[i].bytes)
  BY DEF MisreadsTheseShapesOnly
<1> DEFINE b == listing[i].bytes
           line == listing[i].inst
<1>1. i \in 1..Len(listing)  BY DEF FDInv, StateType
<1>2. b \in Bytes6
  <2>1. listing[i] \in Entries  BY <1>1 DEF FDInv, StateType
  <2> QED  BY <2>1 DEF Entries
<1>3. Recognized(b) /\ line = DecodeLine(b)  BY <1>1 DEF DecodedLines
<1>4. SameAsEncoded(listing[i]) <=> Agrees(line, b) /\ line.op = Ref!decode_bitstream(b).op
  BY Zenon DEF SameAsEncoded, Agrees
<1> HIDE DEF b, line
<1>5. line.op = Ref!decode_bitstream(b).op  BY <1>2, <1>3, SameOperation
<1>6. Agrees(line, b) <=> ~Misread(b)  BY <1>2, <1>3, LineShapes
<1>7. SameAsEncoded(listing[i]) <=> ~Misread(b)  BY <1>4, <1>5, <1>6, Zenon
<1> QED  BY <1>7 DEF b

-----------------------------------------------------------------------------
\* Type correctness: every operand printed is a place, every count a size_t.
THEOREM FirstDecoderTypeCorrect == Spec => []TypeOK
  BY SpecInv, InvGivesProperties, PTL

\* Over any number of chunks of any size, the lines that end within the bytes read tile
\* the file and are decoded from its bytes, and a normal exit has listed all that was read.
THEOREM FirstDecoderListingIsOfTheFile == Spec => []ListingIsOfTheFile
  BY SpecInv, InvGivesProperties, PTL

\* An instruction cut by the end of a chunk makes the count wrap for good.
THEOREM FirstDecoderCutIsFatal == Spec => []CutIsFatal
  BY SpecInv, InvGivesProperties, PTL

\* For every program, chunk size and memory, and for whatever bytes a line is decoded from,
\* stale ones included: the line is the instruction the bytes encode, under the
\* library's name, exactly when they have none of the shapes of Misread.
THEOREM FirstDecoderMisreadsTheseShapesOnly == Spec => []MisreadsTheseShapesOnly
<1>1. Spec => []FDInv  BY SpecInv
<1>2. Spec => []DecodedLines  BY <1>1, DecodedInit, DecodedNext, PTL DEF Spec
<1> QED  BY <1>1, <1>2, DecodedGivesShapes, PTL
===============================================================================
