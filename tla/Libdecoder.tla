----------------------------- MODULE Libdecoder -----------------------------
(***************************************************************************)
(* The 8086 instruction decoder library (libdecoder_8086/libdecoder.c) as  *)
(* operators on the bytes at the decode pointer: b[0] is *ptr, b[1] the    *)
(* byte after it.  The decoder takes no length into account, so b must be  *)
(* defined on 0..5, whatever lies there.  A 16-bit quantity is an element  *)
(* of Word; a C int16_t is the Word with the same bits.                    *)
(***************************************************************************)
EXTENDS InstructionTable, Integers

Byte == 0..255
Word == 0..65535
Window == 0..5

\* An int16_t is negative when its top bit is set.
Int16(w) == IF w >= 32768 THEN w - 65536 ELSE w

\* The field of a byte that starts at bit shift and has the given number of values.
Shl == <<1, 2, 4, 8, 16, 32, 64>>
Field(byte, shift, values) == (byte \div Shl[shift + 1]) % values

Word16(low, high) == 256 * high + low
\* Mutant: the byte is widened to an int and not kept in 16 bits.
SignExtend_Int(byte) == IF byte >= 128 THEN byte - 256 ELSE byte
SignExtend(byte) == IF byte >= 128 THEN 65280 + byte ELSE byte

-----------------------------------------------------------------------------
(* The decoded instruction.                                                *)

HalfRegisters == {"REG_AL", "REG_AH", "REG_BL", "REG_BH",
                  "REG_CL", "REG_CH", "REG_DL", "REG_DH"}
FullRegisters == {"REG_AX", "REG_BX", "REG_CX", "REG_DX",
                  "REG_SP", "REG_BP", "REG_SI", "REG_DI"}
Registers == HalfRegisters \cup FullRegisters
SegRegisters == {"SEG_REG_ES", "SEG_REG_CS", "SEG_REG_SS", "SEG_REG_DS"}

register_map ==
    [r \in 0..7 |-> [w \in 0..1 |->
        IF w = 1
        THEN <<"REG_AX", "REG_CX", "REG_DX", "REG_BX",
               "REG_SP", "REG_BP", "REG_SI", "REG_DI">>[r + 1]
        ELSE <<"REG_AL", "REG_CL", "REG_DL", "REG_BL",
               "REG_AH", "REG_CH", "REG_DH", "REG_BH">>[r + 1]]]

segment_register_map ==
    [s \in 0..3 |-> <<"SEG_REG_ES", "SEG_REG_CS", "SEG_REG_SS", "SEG_REG_DS">>[s + 1]]

mod_effective_address_map ==
    [r \in 0..7 |-> <<<<"REG_BX", "REG_SI">>, <<"REG_BX", "REG_DI">>,
                      <<"REG_BP", "REG_SI">>, <<"REG_BP", "REG_DI">>,
                      <<"REG_SI", "MAX_REG">>, <<"REG_DI", "MAX_REG">>,
                      <<"REG_BP", "MAX_REG">>, <<"REG_BX", "MAX_REG">>>>[r + 1]]

op_encoding ==
    [e \in 0..7 |-> CASE e = 0 -> "ADD_INST" [] e = 5 -> "SUB_INST"
                      [] e = 7 -> "CMP_INST" [] OTHER -> "MAX_INST"]

jmp_inst_map ==
    [j \in 0..15 |-> <<"JO_INST", "JNO_INST", "JB_INST", "JNB_INST",
                       "JE_INST", "JNZ_INST", "JBE_INST", "JA_INST",
                       "JS_INST", "JNS_INST", "JP_INST", "JNP_INST",
                       "JL_INST", "JNL_INST", "JLE_INST", "JG_INST">>[j + 1]]

loop_inst_map ==
    [l \in 0..3 |-> <<"LOOPNZ_INST", "LOOPZ_INST", "LOOP_INST", "JCXZ_INST">>[l + 1]]

JumpOps == {jmp_inst_map[j] : j \in 0..15} \cup {loop_inst_map[l] : l \in 0..3}
ArithOps == {"ADD_INST", "SUB_INST", "CMP_INST"}
Ops == {"MOV_INST", "MAX_INST"} \cup ArithOps \cup JumpOps

OperandTypes == {"TYPE_REGISTER", "TYPE_SEGMENT_REGISTER", "TYPE_DIRECT_ADDRESS",
                 "TYPE_EFFECTIVE_ADDRESS", "TYPE_DATA", "MAX_TYPE"}

\* The src_ or the dst_ members of struct decoded_instruction_s.
Operand == [type : OperandTypes,
            register : Registers \cup {"MAX_REG"},
            seg_register : SegRegisters \cup {"MAX_SEG_REG"},
            direct_address : Word,
            effective_reg1 : Registers \cup {"MAX_REG"},
            effective_reg2 : Registers \cup {"MAX_REG"},
            effective_displacement : Word]

NoOperand ==
    [type |-> "MAX_TYPE", register |-> "MAX_REG", seg_register |-> "MAX_SEG_REG",
     direct_address |-> 0, effective_reg1 |-> "MAX_REG",
     effective_reg2 |-> "MAX_REG", effective_displacement |-> 0]

Decorators == {"src_byte", "src_word", "dst_byte", "dst_word"}

\* sane is FALSE once a sanity check of the decoder has called ERROR, which
\* ends the process.
Instruction == [op : Ops, inst_num_bytes : 0..6, src : Operand, dst : Operand,
                src_data : Word, decorators : SUBSET Decorators,
                inst_is_short_w_data : BOOLEAN, sane : BOOLEAN]

reset_instruction ==
    [op |-> "MAX_INST", inst_num_bytes |-> 0, src |-> NoOperand,
     dst |-> NoOperand, src_data |-> 0, decorators |-> {},
     inst_is_short_w_data |-> FALSE, sane |-> TRUE]

-----------------------------------------------------------------------------
(* Operands.                                                               *)

RegOperand(field, w) ==
    [NoOperand EXCEPT !.type = "TYPE_REGISTER", !.register = register_map[field][w]]
SegOperand(field) ==
    [NoOperand EXCEPT !.type = "TYPE_SEGMENT_REGISTER",
                      !.seg_register = segment_register_map[field]]
DirectOperand(address) ==
    [NoOperand EXCEPT !.type = "TYPE_DIRECT_ADDRESS", !.direct_address = address]
EffectiveOperand(rm, displacement) ==
    [NoOperand EXCEPT !.type = "TYPE_EFFECTIVE_ADDRESS",
                      !.effective_reg1 = mod_effective_address_map[rm][1],
                      !.effective_reg2 = mod_effective_address_map[rm][2],
                      !.effective_displacement = displacement]
DataOperand == [NoOperand EXCEPT !.type = "TYPE_DATA"]
NamedRegister(reg) == [NoOperand EXCEPT !.type = "TYPE_REGISTER", !.register = reg]

\* True also for a memory destination of any width; an operand that cannot be
\* a destination is a sanity error (IsDestination).
is_dst_16bit(dst) ==
    IF dst.type = "TYPE_REGISTER" THEN dst.register \in FullRegisters ELSE TRUE
IsDestination(dst) == dst.type \notin {"TYPE_DATA", "MAX_TYPE"}

-----------------------------------------------------------------------------
(* Bytes that follow the opcode.  from is the number of bytes consumed.     *)

extract_displacement(b, from, is_16bit) ==
    IF is_16bit THEN Word16(b[from], b[from + 1]) ELSE SignExtend(b[from])
extract_direct_address(b, from) == Word16(b[from], b[from + 1])
extract_data(b, from, is_8bit, is_signed_extended) ==
    CASE ~is_8bit -> Word16(b[from], b[from + 1])
      [] is_8bit /\ is_signed_extended -> SignExtend(b[from])
      [] OTHER -> b[from]

-----------------------------------------------------------------------------
(* parse_instruction, in the order of the C function.                      *)

\* The flags and fields of the first two bytes.  A segment operation has no W
\* flag and is forced to 16 bits.
Fields(cmd, b) ==
    LET Flag(feature, value) == IF feature \in cmd.has THEN value ELSE 0
    IN  [d |-> Flag("byte1_has_d_flag", Field(b[0], 1, 2)),
         s |-> Flag("byte1_has_s_flag", Field(b[0], 1, 2)),
         w |-> IF "byte2_has_sr_field" \in cmd.has THEN 1
               ELSE Flag("byte1_has_w_flag", Field(b[0], cmd.w_flag_shift, 2)),
         reg |-> IF "byte2_has_reg_field" \in cmd.has
                 THEN Field(b[1], cmd.reg_field_shift, 8)
                 ELSE Flag("byte1_has_reg_field", Field(b[0], cmd.reg_field_shift, 8)),
         mod |-> Flag("byte2_has_mod_field", Field(b[1], 6, 4)),
         rm |-> Flag("byte2_has_rm_field", Field(b[1], 0, 8)),
         sr |-> Flag("byte2_has_sr_field", Field(b[1], 3, 4))]

\* The instruction after the opcode and the register byte.
OpcodeBytes(cmd, b) ==
    [reset_instruction EXCEPT
        !.op = IF "byte2_has_op_encode_field" \in cmd.has
               THEN op_encoding[Field(b[1], 3, 8)] ELSE cmd.op,
        !.inst_num_bytes = IF "op_has_register_byte" \in cmd.has THEN 2 ELSE 1]

is_direct_access(f) == f.mod = 0 /\ f.rm = 6
is_register_mode(f) == f.mod = 3
DisplacementBytes(f) ==
    CASE is_direct_access(f) \/ f.mod = 2 -> 2
      [] f.mod = 1 -> 1
      [] OTHER -> 0

\* MOD 00, R/M 110: the memory operand is a 16-bit address.
DirectAccess(cmd, f, b, i) ==
    LET address == DirectOperand(extract_direct_address(b, 2))
    IN  IF "op_has_data_bytes" \in cmd.has
        THEN [i EXCEPT !.dst = address, !.src = DataOperand]
        ELSE [i EXCEPT !.src = address,
                       !.dst = IF "byte2_has_sr_field" \in cmd.has
                               THEN SegOperand(f.sr) ELSE RegOperand(f.reg, f.w)]

\* MOD 11 and the memory modes: rm is the operand the R/M field names.  An
\* operation without SR field and D flag takes immediate data.
RegisterOrMemory(cmd, f, rm, i) ==
    CASE {"byte2_has_sr_field", "sr_is_target"} \subseteq cmd.has ->
            [i EXCEPT !.dst = SegOperand(f.sr), !.src = rm]
      [] "byte2_has_sr_field" \in cmd.has /\ "sr_is_target" \notin cmd.has ->
            [i EXCEPT !.dst = rm, !.src = SegOperand(f.sr)]
      [] "byte2_has_sr_field" \notin cmd.has /\ "byte1_has_d_flag" \in cmd.has ->
            IF f.d = 1
            THEN [i EXCEPT !.dst = RegOperand(f.reg, f.w), !.src = rm]
            ELSE [i EXCEPT !.dst = rm, !.src = RegOperand(f.reg, f.w)]
      [] OTHER ->
            IF \/ is_register_mode(f)
               \/ {"byte1_has_reg_field", "byte2_has_reg_field"} \cap cmd.has = {}
                  /\ "op_has_data_bytes" \in cmd.has
            THEN [i EXCEPT !.dst = rm, !.src = DataOperand]
            ELSE i

ModOperands(cmd, f, b, i) ==
    LET after == [i EXCEPT !.inst_num_bytes = @ + DisplacementBytes(f)]
        displacement == IF DisplacementBytes(f) = 0 THEN 0
                        ELSE extract_displacement(b, i.inst_num_bytes, f.mod = 2)
        rm == IF is_register_mode(f) THEN RegOperand(f.rm, f.w)
              ELSE EffectiveOperand(f.rm, displacement)
    IN  IF is_direct_access(f) THEN DirectAccess(cmd, f, b, after)
        ELSE RegisterOrMemory(cmd, f, rm, after)

\* Mutant: immediate to register is forgotten.
Operands_NoImmediate(cmd, f, b, i) ==
    IF "byte2_has_mod_field" \in cmd.has THEN ModOperands(cmd, f, b, i) ELSE i

\* The operands the MOD or the REG field select, with their displacement.
Operands(cmd, f, b, i) ==
    CASE "byte2_has_mod_field" \in cmd.has ->
            [ModOperands(cmd, f, b, i) EXCEPT !.sane = "byte2_has_rm_field" \in cmd.has]
      [] "byte2_has_mod_field" \notin cmd.has
         /\ {"byte1_has_reg_field", "byte2_has_reg_field"} \cap cmd.has # {}
         /\ "byte1_has_w_flag" \in cmd.has ->
            [i EXCEPT !.dst = RegOperand(f.reg, f.w), !.src = DataOperand]
      [] OTHER -> i

\* The accumulator as destination or as source.  The low byte follows the
\* register in the C enumeration (REG_AX + 1 = REG_AL); only the destination is
\* adjusted to the width.  No row has both.
Hardcoded(cmd, f, b, i) ==
    LET HasAddress == "op_has_address_bytes" \in cmd.has
        address == DirectOperand(extract_direct_address(b, i.inst_num_bytes))
        after == [i EXCEPT !.inst_num_bytes = IF HasAddress THEN @ + 2 ELSE @]
        accumulator == NamedRegister(
            IF "byte1_has_w_flag" \in cmd.has /\ f.w = 0 THEN "REG_AL" ELSE "REG_AX")
    IN  CASE "op_has_hardcoded_dst" \in cmd.has ->
                [after EXCEPT !.dst = accumulator,
                              !.src = IF HasAddress THEN address
                                      ELSE IF "op_has_data_bytes" \in cmd.has
                                           THEN DataOperand ELSE @]
          [] /\ "op_has_hardcoded_dst" \notin cmd.has
             /\ "op_has_hardcoded_src" \in cmd.has
             /\ HasAddress ->
                [after EXCEPT !.src = NamedRegister("REG_AX"), !.dst = address]
          [] OTHER -> i

\* Mutants: the S flag is ignored; a byte without S flag is extended as well.
DataIs8bit_NoSFlag(cmd, f) == f.w = 0
DataIsSigned_Always(cmd, f) == TRUE

\* How the immediate is read: one byte unless the row says a whole word.
DataIs8bit(cmd, f) ==
    IF "byte1_has_s_flag" \in cmd.has THEN ~(f.s = 0 /\ f.w = 1) ELSE f.w = 0
DataIsSigned(cmd, f) ==
    IF "byte1_has_s_flag" \in cmd.has THEN f.s = 1 ELSE f.w = 0

\* The size decorator of the printed operand.  sw is 2 * S + W.
DataDecorators(cmd, f, dst) ==
    LET sw == 2 * f.s + f.w
    IN  IF "byte1_has_s_flag" \in cmd.has
        THEN CASE sw = 0 /\ is_dst_16bit(dst) -> {"dst_byte"}
               [] sw = 3 /\ is_dst_16bit(dst) -> {"dst_word"}
               [] OTHER -> {}
        ELSE CASE f.w = 1 -> {"src_word"}
               [] f.w = 0 /\ is_dst_16bit(dst) -> {"src_byte"}
               [] OTHER -> {}

\* is_dst_16bit is called, and checks the destination, in these cases.
ChecksDestination(cmd, f) ==
    IF "byte1_has_s_flag" \in cmd.has THEN f.s = f.w ELSE f.w = 0

DataBytes(cmd, f, b, i) ==
    IF "op_has_data_bytes" \notin cmd.has THEN i
    ELSE [i EXCEPT
            !.src_data = extract_data(b, i.inst_num_bytes, DataIs8bit(cmd, f),
                                      DataIsSigned(cmd, f)),
            !.inst_num_bytes = @ + (IF DataIs8bit(cmd, f) THEN 1 ELSE 2),
            !.decorators = DataDecorators(cmd, f, i.dst),
            !.sane = @ /\ "byte1_has_w_flag" \in cmd.has
                       /\ (ChecksDestination(cmd, f) => IsDestination(i.dst))]

\* A jump or a loop: a signed 8-bit offset; the opcode names the condition.
ShortData(cmd, b, i) ==
    IF "is_short_instruction" \notin cmd.has THEN i
    ELSE [i EXCEPT
            !.inst_is_short_w_data = TRUE,
            !.src_data = extract_data(b, i.inst_num_bytes, TRUE, TRUE),
            !.inst_num_bytes = @ + 1,
            !.op = CASE Field(b[0], 4, 16) = 7 -> jmp_inst_map[Field(b[0], 0, 16)]
                     [] b[0] \in 224..227 -> loop_inst_map[Field(b[0], 0, 4)]
                     [] OTHER -> @]

parse_instruction(cmd, b) ==
    LET f == Fields(cmd, b)
        i1 == Operands(cmd, f, b, OpcodeBytes(cmd, b))
        i2 == Hardcoded(cmd, f, b, i1)
    IN  ShortData(cmd, b, DataBytes(cmd, f, b, i2))

-----------------------------------------------------------------------------
(* decode_bitstream: the first row that matches.  bytes_available is a     *)
(* parameter of the C function that only its log output reads.             *)

\* (byte & opcode_bitmask) = opcode, for a mask of leading ones.
Matches(cmd, byte) == byte - (byte % (256 - cmd.opcode_bitmask)) = cmd.opcode
Matching(byte) == {n \in 1..Len(op_cmds) : Matches(op_cmds[n], byte)}

\* No row matches: decode_bitstream returns 0.
Decodable(b) == Matching(b[0]) # {}
FirstMatch(byte) == CHOOSE n \in Matching(byte) : \A m \in Matching(byte) : n <= m
decode_bitstream(b) == parse_instruction(op_cmds[FirstMatch(b[0])], b)

-----------------------------------------------------------------------------
(* print_decoded_instruction.                                              *)

\* The switches on the operand types end in ERROR for any other type.
Printable(i) ==
    \/ i.inst_is_short_w_data
    \/ IsDestination(i.dst) /\ i.src.type # "MAX_TYPE"
=============================================================================
