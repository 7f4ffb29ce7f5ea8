-------------------------- MODULE DecoderReference --------------------------
(***************************************************************************)
(* What the decoder's instruction stream means, stated from the encoding   *)
(* alone: one formula for the length, one for each operand, with no table  *)
(* of flags and no order of matching.  A memory operand is a set of base   *)
(* registers and an offset, whether the encoding is an effective or a      *)
(* direct address.                                                         *)
(***************************************************************************)
EXTENDS Libdecoder, FiniteSets

\* The opcode classes, by first byte.
RegMemClass == (0..3) \cup (40..43) \cup (56..59) \cup (136..139)
ImmediateToRegMem == (128..131) \cup {198, 199}
ImmediateToRegister == 176..191
ImmediateToAccumulator == {4, 5, 44, 45, 60, 61}
AccumulatorMemory == 160..163
SegmentMove == {140, 142}
Short == (112..127) \cup (224..227)
Opcodes == RegMemClass \cup ImmediateToRegMem \cup ImmediateToRegister
           \cup ImmediateToAccumulator \cup AccumulatorMemory \cup SegmentMove
           \cup Short
HasRegisterByte == RegMemClass \cup ImmediateToRegMem \cup SegmentMove

Mod(b) == b[1] \div 64
Reg(b) == (b[1] \div 8) % 8
RM(b) == b[1] % 8
Wide(b) ==
    CASE b[0] \in ImmediateToRegister -> b[0] >= 184
      [] b[0] \in SegmentMove -> TRUE
      [] OTHER -> b[0] % 2 = 1
IsDirect(b) == Mod(b) = 0 /\ RM(b) = 6

AddressBytes(b) ==
    CASE b[0] \in HasRegisterByte /\ Mod(b) = 1 -> 1
      [] b[0] \in HasRegisterByte /\ (Mod(b) = 2 \/ IsDirect(b)) -> 2
      [] OTHER -> 0
ImmediateBytes(b) ==
    CASE b[0] \in {128, 130, 131} -> 1
      [] b[0] = 129 -> 2
      [] b[0] \in {198, 199} \cup ImmediateToRegister \cup ImmediateToAccumulator ->
            IF Wide(b) THEN 2 ELSE 1
      [] b[0] \in Short -> 1
      [] OTHER -> 0

\* How many bytes an instruction takes.
RefLength(b) ==
    (IF b[0] \in HasRegisterByte THEN 2 ELSE 1)
    + AddressBytes(b) + ImmediateBytes(b)
    + (IF b[0] \in AccumulatorMemory THEN 2 ELSE 0)

\* A place an instruction reads or writes.
InRegister(name) == [kind |-> "register", name |-> name]
InMemory(base, offset) == [kind |-> "memory", base |-> base, offset |-> offset]
Immediate == [kind |-> "immediate"]

WordRegister == <<"REG_AX", "REG_CX", "REG_DX", "REG_BX",
                  "REG_SP", "REG_BP", "REG_SI", "REG_DI">>
ByteRegister == <<"REG_AL", "REG_CL", "REG_DL", "REG_BL",
                  "REG_AH", "REG_CH", "REG_DH", "REG_BH">>
NameOf(number, wide) == IF wide THEN WordRegister[number + 1] ELSE ByteRegister[number + 1]

\* The registers that form the address, by R/M.
BaseOf == <<{"REG_BX", "REG_SI"}, {"REG_BX", "REG_DI"}, {"REG_BP", "REG_SI"},
            {"REG_BP", "REG_DI"}, {"REG_SI"}, {"REG_DI"}, {"REG_BP"}, {"REG_BX"}>>

RegPlace(b) == InRegister(NameOf(Reg(b), Wide(b)))
RMPlace(b) ==
    CASE Mod(b) = 3 -> InRegister(NameOf(RM(b), Wide(b)))
      [] IsDirect(b) -> InMemory({}, 256 * b[3] + b[2])
      [] Mod(b) = 1 -> InMemory(BaseOf[RM(b) + 1], (IF b[2] < 128 THEN 0 ELSE 65280) + b[2])
      [] Mod(b) = 2 -> InMemory(BaseOf[RM(b) + 1], 256 * b[3] + b[2])
      [] OTHER -> InMemory(BaseOf[RM(b) + 1], 0)
SegPlace(b) == InRegister(<<"SEG_REG_ES", "SEG_REG_CS", "SEG_REG_SS", "SEG_REG_DS">>[(Reg(b) % 4) + 1])
AccumulatorPlace(b) == InRegister(NameOf(0, Wide(b)))
AddressPlace(b) == InMemory({}, 256 * b[2] + b[1])

\* <<destination, source>>.
RefOperands(b) ==
    CASE b[0] \in RegMemClass ->
            IF (b[0] \div 2) % 2 = 1 THEN <<RegPlace(b), RMPlace(b)>>
            ELSE <<RMPlace(b), RegPlace(b)>>
      [] b[0] \in ImmediateToRegMem -> <<RMPlace(b), Immediate>>
      [] b[0] \in ImmediateToRegister -> <<InRegister(NameOf(b[0] % 8, Wide(b))), Immediate>>
      [] b[0] \in ImmediateToAccumulator -> <<AccumulatorPlace(b), Immediate>>
      [] b[0] \in {160, 161} -> <<AccumulatorPlace(b), AddressPlace(b)>>
      [] b[0] \in {162, 163} -> <<AddressPlace(b), AccumulatorPlace(b)>>
      [] b[0] = 142 -> <<SegPlace(b), RMPlace(b)>>
      [] b[0] = 140 -> <<RMPlace(b), SegPlace(b)>>
      [] OTHER -> <<Immediate, Immediate>>

\* The value an immediate operand adds or stores, as a 16-bit word: the bytes
\* after the address bytes, sign-extended unless the operation is an unsigned
\* one (128: byte operation of the arithmetic group).
RefImmediate(b) ==
    LET at == RefLength(b) - ImmediateBytes(b)
    IN  CASE ImmediateBytes(b) = 2 -> 256 * b[at + 1] + b[at]
          [] ImmediateBytes(b) = 1 /\ b[0] # 128 /\ b[at] >= 128 -> 65280 + b[at]
          [] OTHER -> b[at]

\* The place a decoded operand stands for.
PlaceOf(operand) ==
    CASE operand.type = "TYPE_REGISTER" -> InRegister(operand.register)
      [] operand.type = "TYPE_SEGMENT_REGISTER" -> InRegister(operand.seg_register)
      [] operand.type = "TYPE_DIRECT_ADDRESS" -> InMemory({}, operand.direct_address)
      [] operand.type = "TYPE_EFFECTIVE_ADDRESS" ->
            InMemory({operand.effective_reg1, operand.effective_reg2} \ {"MAX_REG"},
                     operand.effective_displacement)
      [] OTHER -> Immediate
=============================================================================
