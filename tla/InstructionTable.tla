-------------------------- MODULE InstructionTable --------------------------
(***************************************************************************)
(* The opcode table of libdecoder_8086/instruction_bitstream.h.  A row     *)
(* keeps the bits to match and the set of the flags that are true in it;   *)
(* every other boolean member of the C initialiser is false.               *)
(***************************************************************************)
EXTENDS Naturals, Sequences

\* The boolean members of struct opcode_bitstream_s, but for op_has_opt_disp_bytes,
\* which the decoder never reads.
Features ==
    {"op_has_register_byte", "op_has_data_bytes", "op_has_address_bytes",
     "byte1_has_d_flag", "byte1_has_s_flag", "byte1_has_w_flag",
     "byte1_has_reg_field", "byte2_has_reg_field", "byte2_has_mod_field",
     "byte2_has_rm_field", "byte2_has_sr_field", "byte2_has_op_encode_field",
     "sr_is_target", "op_has_hardcoded_dst", "op_has_hardcoded_src",
     "is_short_instruction"}

\* One row: the mnemonic, the bits to match, the position of the W flag and of
\* the REG field (which are not at bit 0 and bit 3 in every row), the features.
Row(op, opcode, opcode_bitmask, w_flag_shift, reg_field_shift, has) ==
    [op |-> op, opcode |-> opcode, opcode_bitmask |-> opcode_bitmask,
     w_flag_shift |-> w_flag_shift, reg_field_shift |-> reg_field_shift,
     has |-> has]

\* The features of the rows that have a MOD REG R/M byte and a direction flag.
RegMem ==
    {"op_has_register_byte", "byte1_has_d_flag", "byte1_has_w_flag",
     "byte2_has_reg_field", "byte2_has_mod_field", "byte2_has_rm_field"}

\* The features of the rows whose destination is the accumulator.
Accumulator == {"op_has_data_bytes", "byte1_has_w_flag", "op_has_hardcoded_dst"}

mov1_op == Row("MOV_INST", 136, 252, 0, 3, RegMem)
mov2_op == Row("MOV_INST", 198, 254, 0, 0,
    {"op_has_register_byte", "op_has_data_bytes", "byte1_has_w_flag",
     "byte2_has_mod_field", "byte2_has_rm_field"})
mov3_op == Row("MOV_INST", 176, 240, 3, 0,
    {"op_has_data_bytes", "byte1_has_w_flag", "byte1_has_reg_field"})
mov4_op == Row("MOV_INST", 160, 254, 0, 0,
    {"op_has_address_bytes", "byte1_has_w_flag", "op_has_hardcoded_dst"})
mov5_op == Row("MOV_INST", 162, 254, 0, 0,
    {"op_has_address_bytes", "byte1_has_w_flag", "op_has_hardcoded_src"})
mov6_op == Row("MOV_INST", 142, 255, 0, 3,
    {"op_has_register_byte", "byte2_has_mod_field", "byte2_has_rm_field",
     "byte2_has_sr_field", "sr_is_target"})
mov7_op == Row("MOV_INST", 140, 255, 0, 3,
    {"op_has_register_byte", "byte2_has_mod_field", "byte2_has_rm_field",
     "byte2_has_sr_field"})
add1_op == Row("ADD_INST", 0, 252, 0, 3, RegMem)
multi1_op == Row("MAX_INST", 128, 252, 0, 3,
    {"op_has_register_byte", "op_has_data_bytes", "byte1_has_s_flag",
     "byte1_has_w_flag", "byte2_has_mod_field", "byte2_has_rm_field",
     "byte2_has_op_encode_field"})
add2_op == Row("ADD_INST", 4, 254, 0, 0, Accumulator)
sub1_op == Row("SUB_INST", 40, 252, 0, 3, RegMem)
sub2_op == Row("SUB_INST", 44, 254, 0, 0, Accumulator)
cmp1_op == Row("CMP_INST", 56, 252, 0, 3, RegMem)
cmp2_op == Row("CMP_INST", 60, 254, 0, 0, Accumulator)
jump_op == Row("MAX_INST", 112, 240, 0, 3, {"is_short_instruction"})
loop_op == Row("MAX_INST", 224, 252, 0, 3, {"is_short_instruction"})

\* The order decode_bitstream tries the rows in.
op_cmds ==
    <<mov1_op, mov2_op, mov3_op, mov4_op, mov5_op, mov6_op, mov7_op, add1_op,
      multi1_op, add2_op, sub1_op, sub2_op, cmp1_op, cmp2_op, jump_op, loop_op>>
=============================================================================
