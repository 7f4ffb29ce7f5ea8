---------------------------- MODULE SimulatorProofs ----------------------------
(***************************************************************************)
(* The simulator's registers, memory, flags and ip keep their widths, and  *)
(* its main loop never leaves a full memory.                               *)
(***************************************************************************)
EXTENDS Simulator, LibdecoderProofs, SequenceTheorems

-----------------------------------------------------------------------------
(* Words and bytes.                                                        *)

\* A word is an address, and a byte is a word.
LEMMA WordIsAddress == \A n : n \in Word <=> n \in Int /\ 0 <= n /\ n < MEMORY_SIZE
BY WordBounds DEF MEMORY_SIZE

LEMMA Ranges ==
    /\ \A n \in Word : n \in Int /\ n \in 0..MEMORY_SIZE - 1
    /\ \A n \in Byte : n \in Int /\ n \in Word
    /\ 0 \in Byte
<1>1. MEMORY_SIZE \in Int  BY DEF MEMORY_SIZE
<1>2. \A n \in Word : n \in Int /\ n \in 0..MEMORY_SIZE - 1  BY <1>1, WordIsAddress
<1>3. \A n \in Byte : n \in Int /\ n \in Word  BY ByteBounds, WordIsAddress DEF MEMORY_SIZE
<1>4. 0 \in Byte  BY ByteBounds
<1> QED  BY <1>2, <1>3, <1>4

LEMMA Modulus ==
    \A n \in Int : /\ n % 65536 \in Word /\ n % 256 \in Byte
                  /\ n % MEMORY_SIZE \in 0..MEMORY_SIZE - 1
<1> SUFFICES ASSUME NEW n \in Int
             PROVE  /\ n % 65536 \in Word /\ n % 256 \in Byte
                    /\ n % MEMORY_SIZE \in 0..MEMORY_SIZE - 1
  OBVIOUS
<1>1. /\ n % 65536 \in Int /\ 0 <= n % 65536 /\ n % 65536 < 65536  OBVIOUS
<1>2. /\ n % 256 \in Int /\ 0 <= n % 256 /\ n % 256 < 256  OBVIOUS
<1>3. n % 65536 \in Word
  <2>1. /\ n % 65536 \in Int /\ 0 <= n % 65536 /\ n % 65536 < MEMORY_SIZE
    BY <1>1 DEF MEMORY_SIZE
  <2> QED  BY <2>1, WordIsAddress
<1>4. n % 256 \in Byte  BY <1>2, ByteBounds
<1>5. n % MEMORY_SIZE \in Word  BY <1>3 DEF MEMORY_SIZE
<1>6. n % MEMORY_SIZE \in 0..MEMORY_SIZE - 1  BY <1>5, Ranges
<1> QED  BY <1>3, <1>4, <1>6

\* The halves of a word.
LEMMA Halves ==
    \A w \in Word : w % 256 \in Byte /\ w \div 256 \in Byte
<1>1. ASSUME NEW w \in Word PROVE w % 256 \in Byte /\ w \div 256 \in Byte
  <2>1. /\ w \in Int /\ 0 <= w /\ w < 65536  BY WordIsAddress DEF MEMORY_SIZE
  <2>2. w % 256 \in Int /\ 0 <= w % 256 /\ w % 256 <= 255  BY <2>1
  <2>3. w \div 256 \in Int /\ 0 <= w \div 256 /\ w \div 256 <= 255  BY <2>1
  <2> QED  BY <2>2, <2>3, ByteBounds
<1> QED  BY <1>1

\* Two bytes make a word, whichever is high.
LEMMA Joined ==
    \A x, y \in Byte : 256 * x + y \in Word
<1>1. ASSUME NEW x \in Byte, NEW y \in Byte PROVE 256 * x + y \in Word
  <2>1. /\ x \in Int /\ 0 <= x /\ x <= 255
        /\ y \in Int /\ 0 <= y /\ y <= 255
    BY ByteBounds
  <2>2. /\ 256 * x + y \in Int /\ 0 <= 256 * x + y /\ 256 * x + y < MEMORY_SIZE
    BY <2>1 DEF MEMORY_SIZE
  <2> QED  BY <2>2, WordIsAddress
<1> QED  BY <1>1

\* A slot keeps a word whatever is written to it or to one of its halves.
LEMMA MergeType ==
    ASSUME NEW reg, NEW whole \in Word, NEW value \in Word
    PROVE  Merge(reg, whole, value) \in Word
<1>1. /\ 256 * (whole \div 256) + (value % 256) \in Word
      /\ 256 * (value % 256) + (whole % 256) \in Word
  BY Halves, Joined
<1> QED  BY <1>1 DEF Merge

\* Each register name has a slot.
LEMMA WholeType == \A reg \in Registers : WholeOf(reg) \in Registers
BY DEF WholeOf, Registers, HalfRegisters, FullRegisters

-----------------------------------------------------------------------------
(* The parts of the state.                                                 *)

MemoryType == DOMAIN memory \subseteq 0..MEMORY_SIZE - 1 /\ memory \in [DOMAIN memory -> Byte]
RegistersType ==
    registers \in [Registers -> Word] /\ segment_registers \in [SegRegisters -> Word]

LEMMA ReadType ==
    ASSUME RegistersType, NEW reg \in Registers
    PROVE  read_register(reg) \in Word
<1>1. registers[WholeOf(reg)] \in Word  BY WholeType DEF RegistersType
<1> QED  BY <1>1, Halves, Ranges DEF read_register

LEMMA CellType ==
    ASSUME MemoryType, NEW address
    PROVE  Cell(memory, address) \in Byte /\ Cell(memory, address) \in Word
<1>1. 0 \in Byte /\ \A n \in Byte : n \in Word  BY Ranges
<1>2. CASE address \in DOMAIN memory
  <2>1. memory[address] \in Byte  BY <1>2 DEF MemoryType
  <2> QED  BY <1>1, <1>2, <2>1 DEF Cell
<1>3. CASE address \notin DOMAIN memory  BY <1>1, <1>3 DEF Cell
<1> QED  BY <1>2, <1>3

LEMMA AddressType ==
    ASSUME RegistersType, NEW operand \in Operand, NEW displacement \in Word
    PROVE  EffectiveAddress(operand, displacement) \in 0..MEMORY_SIZE - 1
<1> DEFINE Base(reg) == IF reg = "MAX_REG" THEN 0 ELSE read_register(reg)
<1>1. /\ operand.effective_reg1 \in Registers \cup {"MAX_REG"}
      /\ operand.effective_reg2 \in Registers \cup {"MAX_REG"}
  BY DEF Operand
<1>2. \A reg \in Registers \cup {"MAX_REG"} : Base(reg) \in Int
  <2> TAKE reg \in Registers \cup {"MAX_REG"}
  <2>1. CASE reg = "MAX_REG"  BY <2>1
  <2>2. CASE reg \in Registers
    <3>1. read_register(reg) \in Word  BY <2>2, ReadType
    <3>2. read_register(reg) \in Int  BY <3>1, Ranges
    <3> HIDE DEF read_register
    <3> QED  BY <3>2
  <2> QED  BY <2>1, <2>2
<1> DEFINE sum == Base(operand.effective_reg1) + Base(operand.effective_reg2) + displacement
<1>3. sum \in Int
  <2>1. displacement \in Int  BY WordBounds
  <2> HIDE DEF Base
  <2> QED  BY <1>1, <1>2, <2>1
<1>4. EffectiveAddress(operand, displacement) = sum % MEMORY_SIZE  BY DEF EffectiveAddress
<1> HIDE DEF sum
<1> QED  BY <1>3, <1>4, Modulus

-----------------------------------------------------------------------------
(* The effects.                                                            *)

LEMMA SetRegisterType ==
    ASSUME RegistersType, MemoryType, NEW reg \in Registers, NEW value \in Word,
           SetRegister(reg, value)
    PROVE  RegistersType' /\ MemoryType'
<1>1. Merge(reg, registers[WholeOf(reg)], value) \in Word
  BY WholeType, MergeType DEF RegistersType
<1> QED  BY <1>1, WholeType DEF SetRegister, RegistersType, MemoryType

LEMMA SetMemoryType ==
    ASSUME RegistersType, MemoryType, NEW address \in 0..MEMORY_SIZE - 1, NEW value \in Int,
           SetMemory(address, value)
    PROVE  RegistersType' /\ MemoryType'
<1>1. value % 256 \in Byte  BY Modulus
<1>2. RegistersType'  BY DEF SetMemory, RegistersType
<1>3. DOMAIN memory' = DOMAIN memory \cup {address}  BY DEF SetMemory, Store
<1>4. \A a \in DOMAIN memory' : memory'[a] \in Byte
  BY <1>1, <1>3 DEF SetMemory, Store, MemoryType
<1>5. memory' = [a \in DOMAIN memory' |-> memory'[a]]  BY <1>3 DEF SetMemory, Store
<1> QED  BY <1>2, <1>3, <1>4, <1>5 DEF MemoryType

LEMMA SetSegmentType ==
    ASSUME RegistersType, MemoryType, NEW seg \in SegRegisters, NEW value \in Word,
           SetSegment(seg, value)
    PROVE  RegistersType' /\ MemoryType'
BY DEF SetSegment, RegistersType, MemoryType

-----------------------------------------------------------------------------
(* The handlers.                                                           *)

\* What a decoded instruction gives the handlers.
LEMMA OperandsAreProper ==
    ASSUME NEW i \in ProperInstruction
    PROVE  /\ i \in Instruction /\ i.src_data \in Word /\ i.inst_num_bytes \in 0..6
           /\ i.dst \in Operand /\ i.src \in Operand
           /\ i.dst.type = "TYPE_REGISTER" => i.dst.register \in Registers
           /\ i.src.type = "TYPE_REGISTER" => i.src.register \in Registers
           /\ i.dst.type = "TYPE_SEGMENT_REGISTER" => i.dst.seg_register \in SegRegisters
           /\ i.src.type = "TYPE_SEGMENT_REGISTER" => i.src.seg_register \in SegRegisters
           /\ i.dst.direct_address \in Word /\ i.src.direct_address \in Word
           /\ i.dst.effective_displacement \in Word /\ i.src.effective_displacement \in Word
<1>1. /\ i \in Instruction /\ i.dst \in ProperOperand /\ i.src \in ProperOperand
  BY DEF ProperInstruction
<1>2. i.src_data \in Word /\ i.inst_num_bytes \in 0..6  BY <1>1 DEF Instruction
<1>3. \A o \in ProperOperand :
        /\ o \in Operand
        /\ o.type = "TYPE_REGISTER" => o.register \in Registers
        /\ o.type = "TYPE_SEGMENT_REGISTER" => o.seg_register \in SegRegisters
        /\ o.direct_address \in Word /\ o.effective_displacement \in Word
  BY DEF ProperOperand, Operand
<1> QED  BY <1>1, <1>2, <1>3

\* What a mov stores, where the pair of types is one of MovPairs.
LEMMA MovSourceType ==
    ASSUME RegistersType, MemoryType, NEW i \in ProperInstruction,
           <<i.dst.type, i.src.type>> \in MovPairs
    PROVE  MovSource(i) \in Word
<1>1. i.src.type \in {"TYPE_REGISTER", "TYPE_SEGMENT_REGISTER", "TYPE_DATA",
                      "TYPE_DIRECT_ADDRESS", "TYPE_EFFECTIVE_ADDRESS"}
  BY DEF MovPairs
<1>2. CASE i.src.type = "TYPE_REGISTER"
  <2>1. MovSource(i) = read_register(i.src.register)  BY <1>2 DEF MovSource
  <2> QED  BY <1>2, <2>1, ReadType, OperandsAreProper
<1>3. CASE i.src.type = "TYPE_SEGMENT_REGISTER"
  <2>1. MovSource(i) = segment_registers[i.src.seg_register]  BY <1>3 DEF MovSource
  <2> QED  BY <1>3, <2>1, OperandsAreProper DEF RegistersType
<1>4. CASE i.src.type = "TYPE_DATA"
  <2>1. MovSource(i) = i.src_data  BY <1>4 DEF MovSource
  <2> QED  BY <2>1, OperandsAreProper
<1>5. CASE i.src.type \in {"TYPE_DIRECT_ADDRESS", "TYPE_EFFECTIVE_ADDRESS"}
  <2>1. \E a : MovSource(i) = Cell(memory, a)  BY <1>5 DEF MovSource
  <2> QED  BY <2>1, CellType
<1> QED  BY <1>1, <1>2, <1>3, <1>4, <1>5

LEMMA SourceValueType ==
    ASSUME RegistersType, NEW i \in ProperInstruction,
           i.src.type \in {"TYPE_DATA", "TYPE_REGISTER"}
    PROVE  SourceValue(i) \in Word
BY ReadType, OperandsAreProper DEF SourceValue

\* Clocks are natural numbers.
LEMMA ClocksType ==
    ASSUME NEW i, NEW address, NEW penalty \in Nat
    PROVE  get_ea_clocks(i) \in Nat /\ OddPenalty(address, penalty) \in Nat
<1>1. \A o : OperandClocks(o) \in Nat
  <2> TAKE o
  <2> DEFINE disp == IF o.effective_displacement # 0 THEN 4 ELSE 0
             base == {o.effective_reg1, o.effective_reg2} \ {"MAX_REG"}
  <2>1. disp \in Nat  OBVIOUS
  <2>2. OperandClocks(o) \in {7 + disp, 8 + disp, 5 + disp}
    <3>1. OperandClocks(o) =
            CASE base \in {{"REG_BP", "REG_DI"}, {"REG_BX", "REG_SI"}} -> 7 + disp
              [] base \in {{"REG_BP", "REG_SI"}, {"REG_BX", "REG_DI"}} -> 8 + disp
              [] OTHER -> 5 + disp
      BY DEF OperandClocks
    <3> HIDE DEF disp, base
    <3> QED  BY <3>1
  <2> HIDE DEF disp
  <2> QED  BY <2>1, <2>2
<1>2. get_ea_clocks(i) \in {OperandClocks(i.dst), OperandClocks(i.src), 6}
  BY DEF get_ea_clocks
<1>3. OddPenalty(address, penalty) \in {penalty, 0}  BY DEF OddPenalty
<1> QED  BY <1>1, <1>2, <1>3

\* A 16-bit counter stays one.
CountersType == ip \in Word /\ total_clocks \in Word
LEMMA ChargeType ==
    ASSUME CountersType, NEW clocks \in Nat, Charge(clocks)
    PROVE  total_clocks' \in Word
<1>1. total_clocks + clocks \in Int
  <2>1. total_clocks \in Int  BY WordIsAddress DEF CountersType
  <2> QED  BY <2>1
<1> QED  BY <1>1, Modulus DEF Charge

LEMMA AdvanceType ==
    ASSUME CountersType, NEW i \in ProperInstruction, NEW taken
    PROVE  /\ Advance(i) => ip' \in Word
           /\ Target(i, taken) => ip' \in Word
<1>1. /\ ip + i.inst_num_bytes \in Int
      /\ ip + i.inst_num_bytes + (IF taken THEN i.src_data ELSE 0) \in Int
  <2>1. ip \in Int /\ i.inst_num_bytes \in Int /\ i.src_data \in Int
    BY OperandsAreProper, Ranges DEF CountersType
  <2> QED  BY <2>1
<1> QED  BY <1>1, Modulus DEF Advance, Target

-----------------------------------------------------------------------------
(* The invariant, and the steps.                                           *)

RunType ==
    /\ program \in Programs
    /\ bytes_available = IF Len(program) <= MEMORY_SIZE THEN Len(program) ELSE MEMORY_SIZE
    /\ flags \in [z : BOOLEAN, s : BOOLEAN]
    /\ status \in {"running", "error", "crashed", "done"}

\* A process that has ended normally has ip at or behind the end of the program.
EndsBehindTheProgram == status = "done" => ip >= bytes_available

SimInv == MemoryType /\ RegistersType /\ CountersType /\ RunType /\ EndsBehindTheProgram

LEMMA Available ==
    ASSUME RunType
    PROVE  /\ bytes_available \in 0..MEMORY_SIZE
           /\ Len(program) >= MEMORY_SIZE => bytes_available = MEMORY_SIZE
<1> DEFINE length == Len(program)
<1>1. length \in Nat  BY SimulatorAssumption DEF RunType
<1>2. bytes_available = IF length <= MEMORY_SIZE THEN length ELSE MEMORY_SIZE  BY DEF RunType
<1> HIDE DEF length
<1>3. /\ bytes_available \in 0..MEMORY_SIZE
      /\ length >= MEMORY_SIZE => bytes_available = MEMORY_SIZE
  <2>1. MEMORY_SIZE \in Nat  BY DEF MEMORY_SIZE
  <2> QED  BY <1>1, <1>2, <2>1
<1> QED  BY <1>3 DEF length

LEMMA InitInv == Init => SimInv
<1> SUFFICES ASSUME Init PROVE SimInv  OBVIOUS
<1>1. program \in Seq(Byte) /\ Len(program) \in Nat  BY SimulatorAssumption DEF Init
<1>2. /\ bytes_available \in Nat /\ bytes_available <= Len(program)
      /\ bytes_available <= MEMORY_SIZE
  <2>1. MEMORY_SIZE \in Nat  BY DEF MEMORY_SIZE
  <2> QED  BY <1>1, <2>1 DEF Init
<1> DEFINE cells == {c \in 0..bytes_available - 1 : program[c + 1] # 0}
<1>3. cells \subseteq 0..MEMORY_SIZE - 1
  <2> SUFFICES ASSUME NEW c \in 0..bytes_available - 1 PROVE c \in 0..MEMORY_SIZE - 1
    OBVIOUS
  <2>1. MEMORY_SIZE \in Int  BY DEF MEMORY_SIZE
  <2> QED  BY <1>2, <2>1
<1>4. \A a \in cells : program[a + 1] \in Byte
  <2> TAKE a \in cells
  <2>1. a + 1 \in 1..Len(program)  BY <1>1, <1>2
  <2> QED  BY <1>1, <2>1, ElementOfSeq
<1>5. memory = [a \in cells |-> program[a + 1]]  BY DEF Init
<1> HIDE DEF cells
<1>6. MemoryType  BY <1>3, <1>4, <1>5 DEF MemoryType
<1>7. RegistersType
  <2>1. 0 \in Word  BY WordBounds
  <2> QED  BY <2>1 DEF Init, RegistersType
<1>8. CountersType  BY WordBounds DEF Init, CountersType
<1>9. RunType /\ EndsBehindTheProgram  BY DEF Init, RunType, EndsBehindTheProgram
<1> QED  BY <1>6, <1>7, <1>8, <1>9 DEF SimInv

\* The bytes at ip, and what is read beyond the memory, are six bytes.
LEMMA FetchedType ==
    ASSUME MemoryType, CountersType
    PROVE  Fetched \subseteq [Window -> Byte]
<1> SUFFICES ASSUME NEW spill \in Spill, NEW k \in Window
             PROVE  (IF ip + k < MEMORY_SIZE THEN Cell(memory, ip + k)
                     ELSE spill[ip + k - MEMORY_SIZE]) \in Byte
  BY DEF Fetched
<1>1. CASE ip + k < MEMORY_SIZE
  <2>1. Cell(memory, ip + k) \in Byte  BY CellType
  <2> HIDE DEF Cell
  <2> QED  BY <1>1, <2>1
<1>2. CASE ~(ip + k < MEMORY_SIZE)
  <2>1. /\ ip \in Int /\ ip < MEMORY_SIZE /\ MEMORY_SIZE \in Int
    BY WordIsAddress DEF CountersType, MEMORY_SIZE
  <2>2. ip + k - MEMORY_SIZE \in Window  BY <1>2, <2>1 DEF Window
  <2>3. spill \in [Window -> Byte]  BY SimulatorAssumption
  <2> QED  BY <1>2, <2>2, <2>3
<1> QED  BY <1>1, <1>2

LEMMA MovStep ==
    ASSUME SimInv, NEW i \in ProperInstruction, parse_mov_inst(i)
    PROVE  RegistersType' /\ MemoryType' /\ CountersType'
<1> USE DEF SimInv
<1>1. MovSource(i) \in Word  BY MovSourceType DEF parse_mov_inst
<1>2. ip' \in Word  BY AdvanceType DEF parse_mov_inst
<1>3. get_ea_clocks(i) \in Nat  BY ClocksType
<1>4. CASE MovToRegister(i)
  <2>1. MovRegisterClocks(i) \in Nat
    <3>1. MovRegisterClocks(i) \in {2, 0, 4, 8 + get_ea_clocks(i)}  BY DEF MovRegisterClocks
    <3> QED  BY <1>3, <3>1
  <2>2. total_clocks' \in Word  BY <1>4, <2>1, ChargeType DEF MovToRegister
  <2>3. i.dst.register \in Registers /\ SetRegister(i.dst.register, MovSource(i))
    BY <1>4, OperandsAreProper DEF MovToRegister
  <2> QED  BY <1>1, <1>2, <2>2, <2>3, SetRegisterType DEF CountersType
<1>5. CASE MovToSegment(i)
  <2>1. total_clocks' \in Word  BY <1>5, ChargeType DEF MovToSegment
  <2>2. i.dst.seg_register \in SegRegisters /\ SetSegment(i.dst.seg_register, MovSource(i))
    BY <1>5, OperandsAreProper DEF MovToSegment
  <2> QED  BY <1>1, <1>2, <2>1, <2>2, SetSegmentType DEF CountersType
<1>6. CASE MovToAddress(i)
  <2>1. total_clocks' \in Word  BY <1>6, ChargeType DEF MovToAddress
  <2>2. i.dst.direct_address \in 0..MEMORY_SIZE - 1 /\ i.src_data \in Int
    BY OperandsAreProper, Ranges
  <2>3. SetMemory(i.dst.direct_address, i.src_data)  BY <1>6 DEF MovToAddress
  <2> QED  BY <1>2, <2>1, <2>2, <2>3, SetMemoryType DEF CountersType
<1>7. CASE MovToEffective(i)
  <2> DEFINE clocks == IF i.src.type = "TYPE_REGISTER" THEN 9 + get_ea_clocks(i) ELSE 0
  <2>1. clocks \in Nat  BY <1>3
  <2>2. Charge(clocks)  BY <1>7 DEF MovToEffective
  <2> HIDE DEF clocks
  <2>3. total_clocks' \in Word  BY <2>1, <2>2, ChargeType
  <2>4. EffectiveAddress(i.dst, i.dst.effective_displacement) \in 0..MEMORY_SIZE - 1
    BY OperandsAreProper, AddressType
  <2>5. SetMemory(EffectiveAddress(i.dst, i.dst.effective_displacement), MovSource(i))
    BY <1>7 DEF MovToEffective
  <2>6. MovSource(i) \in Int  BY <1>1, Ranges
  <2> QED  BY <1>2, <2>3, <2>4, <2>5, <2>6, SetMemoryType DEF CountersType
<1> QED  BY <1>4, <1>5, <1>6, <1>7 DEF parse_mov_inst

LEMMA AddStep ==
    ASSUME SimInv, NEW i \in ProperInstruction, parse_add_inst(i)
    PROVE  RegistersType' /\ MemoryType' /\ CountersType' /\ flags' \in [z : BOOLEAN, s : BOOLEAN]
<1> USE DEF SimInv
<1>1. ip' \in Word  BY AdvanceType DEF parse_add_inst
<1>2. flags \in [z : BOOLEAN, s : BOOLEAN]  BY DEF RunType
<1>3. CASE AddToRegister(i)
  <2> DEFINE sum == (read_register(i.dst.register) + SourceValue(i)) % 65536
             clocks == IF i.src.type = "TYPE_DATA" THEN 4 ELSE 3
  <2>1. i.src.type \in {"TYPE_DATA", "TYPE_REGISTER"} /\ i.dst.register \in Registers
    BY <1>3, OperandsAreProper DEF AddToRegister, parse_add_inst, AddPairs
  <2>2. read_register(i.dst.register) \in Int /\ SourceValue(i) \in Int
    BY <2>1, ReadType, SourceValueType, Ranges
  <2>3. sum \in Word  BY <2>2, Modulus
  <2>4. /\ flags' = eval_flags(sum) /\ SetRegister(i.dst.register, sum) /\ Charge(clocks)
    BY <1>3 DEF AddToRegister
  <2>5. clocks \in Nat  OBVIOUS
  <2> HIDE DEF sum, clocks
  <2>6. RegistersType' /\ MemoryType'  BY <2>1, <2>3, <2>4, SetRegisterType
  <2>7. total_clocks' \in Word  BY <2>4, <2>5, ChargeType
  <2> QED  BY <1>1, <2>4, <2>6, <2>7 DEF CountersType, eval_flags
<1>4. CASE AddFromMemory(i)
  <2> DEFINE address == EffectiveAddress(i.src, i.src.effective_displacement)
             sum == (read_register(i.dst.register) + Cell(memory, address)) % 65536
             clocks == 9 + get_ea_clocks(i) + OddPenalty(address, 4)
  <2>1. i.dst.register \in Registers  BY <1>4, OperandsAreProper DEF AddFromMemory
  <2>2. read_register(i.dst.register) \in Int /\ Cell(memory, address) \in Int
    BY <2>1, ReadType, CellType, Ranges
  <2>3. sum \in Word  BY <2>2, Modulus
  <2>4. clocks \in Nat  BY ClocksType
  <2>5. SetRegister(i.dst.register, sum) /\ Charge(clocks) /\ flags' = flags
    BY <1>4 DEF AddFromMemory
  <2> HIDE DEF sum, clocks
  <2>6. RegistersType' /\ MemoryType'  BY <2>1, <2>3, <2>5, SetRegisterType
  <2>7. total_clocks' \in Word  BY <2>4, <2>5, ChargeType
  <2> QED  BY <1>1, <1>2, <2>5, <2>6, <2>7 DEF CountersType
<1>5. CASE AddToMemory(i)
  <2> DEFINE address == EffectiveAddress(i.dst, i.dst.effective_displacement)
             sum == Cell(memory, address) + SourceValue(i)
             clocks == (IF i.src.type = "TYPE_DATA" THEN 17 ELSE 16) + get_ea_clocks(i)
                       + OddPenalty(address, 8)
  <2>1. address \in 0..MEMORY_SIZE - 1  BY OperandsAreProper, AddressType
  <2>2. i.src.type \in {"TYPE_DATA", "TYPE_REGISTER"}
    BY <1>5 DEF AddToMemory, parse_add_inst, AddPairs
  <2>3. sum \in Int
    <3>1. Cell(memory, address) \in Int /\ SourceValue(i) \in Int
      BY <2>2, CellType, SourceValueType, Ranges
    <3> QED  BY <3>1
  <2>4. clocks \in Nat
    <3>1. get_ea_clocks(i) \in Nat /\ OddPenalty(address, 8) \in Nat  BY ClocksType
    <3> QED  BY <3>1
  <2>5. SetMemory(address, sum) /\ Charge(clocks) /\ flags' = flags
    BY <1>5 DEF AddToMemory
  <2> HIDE DEF address, sum, clocks
  <2>6. RegistersType' /\ MemoryType'  BY <2>1, <2>3, <2>5, SetMemoryType
  <2>7. total_clocks' \in Word  BY <2>4, <2>5, ChargeType
  <2> QED  BY <1>1, <1>2, <2>5, <2>6, <2>7 DEF CountersType
<1> QED  BY <1>3, <1>4, <1>5 DEF parse_add_inst

LEMMA SubCmpStep ==
    ASSUME SimInv, NEW i \in ProperInstruction, parse_sub_cmp_inst(i)
    PROVE  RegistersType' /\ MemoryType' /\ CountersType' /\ flags' \in [z : BOOLEAN, s : BOOLEAN]
<1> USE DEF SimInv
<1> DEFINE difference == (read_register(i.dst.register) - SourceValue(i)) % 65536
<1>1. /\ i.src.type \in {"TYPE_DATA", "TYPE_REGISTER"} /\ i.dst.register \in Registers
  BY OperandsAreProper DEF parse_sub_cmp_inst, SubCmpPairs
<1>2. read_register(i.dst.register) \in Int /\ SourceValue(i) \in Int
  BY <1>1, ReadType, SourceValueType, Ranges
<1>3. difference \in Word  BY <1>2, Modulus
<1>4. /\ flags' = eval_flags(difference)
      /\ \/ SetRegister(i.dst.register, difference)
         \/ UNCHANGED <<registers, memory, segment_registers>>
      /\ Advance(i) /\ UNCHANGED total_clocks
  BY DEF parse_sub_cmp_inst
<1> HIDE DEF difference
<1>5. RegistersType' /\ MemoryType'
  <2>1. CASE SetRegister(i.dst.register, difference)  BY <1>1, <1>3, <2>1, SetRegisterType
  <2>2. CASE UNCHANGED <<registers, memory, segment_registers>>
    BY <2>2 DEF RegistersType, MemoryType
  <2> QED  BY <1>4, <2>1, <2>2
<1>6. CountersType'  BY <1>4, AdvanceType DEF CountersType
<1> QED  BY <1>4, <1>5, <1>6 DEF eval_flags

LEMMA JumpStep ==
    ASSUME SimInv, NEW i \in ProperInstruction, parse_jmp_inst(i)
    PROVE  RegistersType' /\ MemoryType' /\ CountersType' /\ flags' \in [z : BOOLEAN, s : BOOLEAN]
<1> USE DEF SimInv
<1>1. CASE JumpNotZero(i)
  <2>1. CountersType'  BY <1>1, AdvanceType DEF JumpNotZero, CountersType
  <2> QED  BY <1>1, <2>1 DEF JumpNotZero, RegistersType, MemoryType, RunType
<1>2. CASE Loop(i)
  <2> DEFINE count == (registers["REG_CX"] - 1) % 65536
  <2>1. "REG_CX" \in Registers  BY DEF Registers, FullRegisters
  <2>2. count \in Word
    <3>1. registers["REG_CX"] \in Int  BY <2>1, Ranges DEF RegistersType
    <3> QED  BY <3>1, Modulus
  <2>3. /\ SetRegister("REG_CX", count) /\ flags' = eval_flags(count)
        /\ Target(i, count # 0) /\ UNCHANGED total_clocks
    BY <1>2 DEF Loop
  <2> HIDE DEF count
  <2>4. RegistersType' /\ MemoryType'  BY <2>1, <2>2, <2>3, SetRegisterType
  <2>5. CountersType'  BY <2>3, AdvanceType DEF CountersType
  <2> QED  BY <2>3, <2>4, <2>5 DEF eval_flags
<1> QED  BY <1>1, <1>2 DEF parse_jmp_inst

LEMMA NextInv == SimInv /\ [Next]_vars => SimInv'
<1> SUFFICES ASSUME SimInv, [Next]_vars PROVE SimInv'  OBVIOUS
<1>1. CASE Execute
  <2>1. PICK b \in Fetched : /\ Decodable(b)
                            /\ \/ parse_mov_inst(decode_bitstream(b))
                               \/ parse_add_inst(decode_bitstream(b))
                               \/ parse_sub_cmp_inst(decode_bitstream(b))
                               \/ parse_jmp_inst(decode_bitstream(b))
    BY <1>1 DEF Execute
  <2>2. b \in [Window -> Byte]  BY FetchedType DEF SimInv
  <2> DEFINE i == decode_bitstream(b)
  <2>3. i \in ProperInstruction  BY <2>1, <2>2, DecodedInstructionIsWellFormed
  <2>4. parse_mov_inst(i) \/ parse_add_inst(i) \/ parse_sub_cmp_inst(i) \/ parse_jmp_inst(i)
    BY <2>1
  <2> HIDE DEF i
  <2>5. Continue
    BY <2>4 DEF parse_mov_inst, parse_add_inst, parse_sub_cmp_inst, parse_jmp_inst,
                JumpNotZero, Loop
  <2>6. flags' \in [z : BOOLEAN, s : BOOLEAN]
    <3>1. CASE parse_mov_inst(i)  BY <3>1 DEF parse_mov_inst, SimInv, RunType
    <3> QED  BY <2>3, <2>4, <3>1, AddStep, SubCmpStep, JumpStep
  <2>7. RegistersType' /\ MemoryType' /\ CountersType'
    BY <2>3, <2>4, MovStep, AddStep, SubCmpStep, JumpStep
  <2>8. RunType' /\ EndsBehindTheProgram'
    BY <2>5, <2>6 DEF SimInv, Continue, RunType, EndsBehindTheProgram
  <2> QED  BY <2>7, <2>8 DEF SimInv
<1>2. CASE Fail
  BY <1>2 DEF Fail, machine, SimInv, MemoryType, RegistersType, CountersType, RunType,
              EndsBehindTheProgram
<1>3. CASE Exit
  BY <1>3 DEF Exit, machine, SimInv, MemoryType, RegistersType, CountersType, RunType,
              EndsBehindTheProgram
<1>4. CASE Terminated \/ UNCHANGED vars
  BY <1>4 DEF Terminated, vars, machine, SimInv, MemoryType, RegistersType, CountersType,
              RunType, EndsBehindTheProgram
<1> QED  BY <1>1, <1>2, <1>3, <1>4 DEF Next

LEMMA SpecInv == Spec => []SimInv
  BY InitInv, NextInv, PTL DEF Spec

-----------------------------------------------------------------------------
\* Type correctness: whatever the program and the bytes beyond the memory are, registers
\* stay words, cells bytes within the 64 KB, and ip and the clock 16-bit counters.
THEOREM SimulatorTypeCorrect == Spec => []TypeOK
<1>1. SimInv => TypeOK
  <2> SUFFICES ASSUME SimInv PROVE TypeOK  OBVIOUS
  <2>1. bytes_available \in 0..MEMORY_SIZE  BY Available DEF SimInv
  <2> QED  BY <2>1 DEF SimInv, TypeOK, MemoryType, RegistersType, CountersType, RunType
<1> QED  BY <1>1, SpecInv, PTL

\* A 16-bit ip never reaches the end of a program that fills the memory, so that the
\* main loop does not end.
THEOREM SimulatorFullMemoryNeverEnds == Spec => []FullMemoryNeverEnds
<1>1. SimInv => FullMemoryNeverEnds
  <2> SUFFICES ASSUME SimInv, Len(program) >= MEMORY_SIZE PROVE status # "done"
    BY DEF FullMemoryNeverEnds
  <2>1. bytes_available = MEMORY_SIZE  BY Available DEF SimInv
  <2>2. ip \in Word  BY DEF SimInv, CountersType
  <2>3. ip \in 0..MEMORY_SIZE - 1  BY <2>2, Ranges
  <2>4. MEMORY_SIZE \in Int  BY DEF MEMORY_SIZE
  <2>5. ~(ip >= bytes_available)  BY <2>1, <2>3, <2>4
  <2> QED  BY <2>5 DEF SimInv, EndsBehindTheProgram
<1> QED  BY <1>1, SpecInv, PTL
=============================================================================
