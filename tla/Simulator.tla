------------------------------ MODULE Simulator ------------------------------
(***************************************************************************)
(* The 8086 simulator (simulator_8086/simulator.c): fetch an instruction at*)
(* ip with decode_bitstream, execute it, until ip leaves the program.  One *)
(* step is one iteration of the main loop; the handlers are its actions.   *)
(***************************************************************************)
EXTENDS Libdecoder

CONSTANTS Programs,     \* the program files: sequences of bytes
          Spill         \* what six bytes read beyond memory[] may be

ASSUME SimulatorAssumption ==
    /\ Programs \subseteq Seq(Byte)
    /\ Spill \subseteq [Window -> Byte] /\ Spill # {}

MEMORY_SIZE == 65536

VARIABLES
    program,            \* the file (history: the code only keeps its bytes)
    memory,             \* the cells loaded with a byte other than 0 or written; the others are 0
    registers,          \* one slot for each name, as in the C array
    segment_registers,
    flags,              \* [z, s]: the two flags of the flag word in use
    ip,
    total_clocks,
    bytes_available,
    status              \* "running", or how the process ended

machine == <<memory, registers, segment_registers, flags, ip, total_clocks>>
vars == <<program, machine, bytes_available, status>>

-----------------------------------------------------------------------------
(* Memory and registers.                                                   *)

Cell(mem, address) == IF address \in DOMAIN mem THEN mem[address] ELSE 0
Store(mem, address, value) ==
    [a \in DOMAIN mem \cup {address} |-> IF a = address THEN value % 256 ELSE mem[a]]

\* reg_item_map: the slot a register name is kept in.
WholeOf(reg) ==
    CASE reg \in {"REG_AL", "REG_AH"} -> "REG_AX"
      [] reg \in {"REG_BL", "REG_BH"} -> "REG_BX"
      [] reg \in {"REG_CL", "REG_CH"} -> "REG_CX"
      [] reg \in {"REG_DL", "REG_DH"} -> "REG_DX"
      [] OTHER -> reg
IsLow(reg) == reg \in {"REG_AL", "REG_BL", "REG_CL", "REG_DL"}
IsHigh(reg) == reg \in {"REG_AH", "REG_BH", "REG_CH", "REG_DH"}

read_register(reg) ==
    LET whole == registers[WholeOf(reg)]
    IN  CASE IsLow(reg) -> whole % 256
          [] IsHigh(reg) -> whole \div 256
          [] OTHER -> whole

\* Mutant: a write to a low half clears the high half.
Merge_ClearsHigh(reg, whole, value) ==
    CASE IsLow(reg) -> value % 256
      [] IsHigh(reg) -> 256 * (value % 256) + (whole % 256)
      [] OTHER -> value

\* What is left of value in a slot that holds whole.
Merge(reg, whole, value) ==
    CASE IsLow(reg) -> 256 * (whole \div 256) + (value % 256)
      [] IsHigh(reg) -> 256 * (value % 256) + (whole % 256)
      [] OTHER -> value

eval_flags(value) == [z |-> value = 0, s |-> value >= 32768]

\* Mutant: the displacement is forgotten.
EffectiveAddress_NoDisplacement(operand, displacement) ==
    LET Base(reg) == IF reg = "MAX_REG" THEN 0 ELSE read_register(reg)
    IN  (Base(operand.effective_reg1) + Base(operand.effective_reg2)) % MEMORY_SIZE

\* The address of an effective operand, with the displacement the caller adds.
EffectiveAddress(operand, displacement) ==
    LET Base(reg) == IF reg = "MAX_REG" THEN 0 ELSE read_register(reg)
    IN  (Base(operand.effective_reg1) + Base(operand.effective_reg2) + displacement)
            % MEMORY_SIZE

-----------------------------------------------------------------------------
(* Clocks.                                                                 *)

\* The clocks of an address calculation.  A displacement of 0 counts as none.
OperandClocks(operand) ==
    LET base == {operand.effective_reg1, operand.effective_reg2} \ {"MAX_REG"}
        disp == IF operand.effective_displacement # 0 THEN 4 ELSE 0
    IN  CASE base \in {{"REG_BP", "REG_DI"}, {"REG_BX", "REG_SI"}} -> 7 + disp
          [] base \in {{"REG_BP", "REG_SI"}, {"REG_BX", "REG_DI"}} -> 8 + disp
          [] OTHER -> 5 + disp

get_ea_clocks(i) ==
    CASE i.dst.type = "TYPE_EFFECTIVE_ADDRESS" -> OperandClocks(i.dst)
      [] i.dst.type # "TYPE_EFFECTIVE_ADDRESS" /\ i.src.type = "TYPE_EFFECTIVE_ADDRESS" ->
            OperandClocks(i.src)
      [] OTHER -> 6

\* Mutant: the penalty is charged at even addresses.
OddPenalty_Even(address, penalty) == IF address % 2 = 0 THEN penalty ELSE 0

\* The penalty for the transfers of a word at an odd address.
OddPenalty(address, penalty) == IF address % 2 # 0 THEN penalty ELSE 0

-----------------------------------------------------------------------------
(* Effects shared by the handlers.                                         *)

SetRegister(reg, value) ==
    /\ registers' = [registers EXCEPT ![WholeOf(reg)] = Merge(reg, @, value)]
    /\ UNCHANGED <<memory, segment_registers>>
SetMemory(address, value) ==
    /\ memory' = Store(memory, address, value)
    /\ UNCHANGED <<registers, segment_registers>>
SetSegment(seg, value) ==
    /\ segment_registers' = [segment_registers EXCEPT ![seg] = value]
    /\ UNCHANGED <<memory, registers>>

\* total_clocks is a uint16_t.
Charge(clocks) == total_clocks' = (total_clocks + clocks) % 65536
\* Mutant: ip is wider than 16 bits.
Advance_Wide(i) == ip' = ip + i.inst_num_bytes
Advance(i) == ip' = (ip + i.inst_num_bytes) % 65536
Continue == status' = "running" /\ UNCHANGED <<program, bytes_available>>

-----------------------------------------------------------------------------
(* parse_mov_inst.                                                         *)

MovPairs ==
    ({"TYPE_REGISTER"} \X {"TYPE_REGISTER", "TYPE_SEGMENT_REGISTER", "TYPE_DATA",
                           "TYPE_DIRECT_ADDRESS", "TYPE_EFFECTIVE_ADDRESS"})
    \cup ({"TYPE_SEGMENT_REGISTER"} \X {"TYPE_REGISTER", "TYPE_SEGMENT_REGISTER", "TYPE_DATA"})
    \cup {<<"TYPE_DIRECT_ADDRESS", "TYPE_DATA">>}
    \cup ({"TYPE_EFFECTIVE_ADDRESS"} \X {"TYPE_REGISTER", "TYPE_DATA"})

\* The value a move to a register reads.  A load from an effective address adds
\* the displacement of the destination, which is 0, and not that of the source.
MovSource(i) ==
    CASE i.src.type = "TYPE_REGISTER" -> read_register(i.src.register)
      [] i.src.type = "TYPE_SEGMENT_REGISTER" -> segment_registers[i.src.seg_register]
      [] i.src.type = "TYPE_DATA" -> i.src_data
      [] i.src.type = "TYPE_DIRECT_ADDRESS" -> Cell(memory, i.src.direct_address)
      [] OTHER -> Cell(memory, EffectiveAddress(i.src, i.dst.effective_displacement))
MovRegisterClocks(i) ==
    CASE i.src.type = "TYPE_REGISTER" -> 2
      [] i.src.type = "TYPE_SEGMENT_REGISTER" -> 0
      [] i.src.type = "TYPE_DATA" -> 4
      [] OTHER -> 8 + get_ea_clocks(i)

MovToRegister(i) ==
    /\ i.dst.type = "TYPE_REGISTER"
    /\ SetRegister(i.dst.register, MovSource(i))
    /\ Charge(MovRegisterClocks(i))

\* Moves to a segment register, and stores of immediate data, are not timed.
MovToSegment(i) ==
    /\ i.dst.type = "TYPE_SEGMENT_REGISTER"
    /\ SetSegment(i.dst.seg_register, MovSource(i))
    /\ Charge(0)
MovToAddress(i) ==
    /\ i.dst.type = "TYPE_DIRECT_ADDRESS"
    /\ SetMemory(i.dst.direct_address, i.src_data)
    /\ Charge(0)
MovToEffective(i) ==
    /\ i.dst.type = "TYPE_EFFECTIVE_ADDRESS"
    /\ SetMemory(EffectiveAddress(i.dst, i.dst.effective_displacement), MovSource(i))
    /\ Charge(IF i.src.type = "TYPE_REGISTER" THEN 9 + get_ea_clocks(i) ELSE 0)

parse_mov_inst(i) ==
    /\ i.op = "MOV_INST" /\ <<i.dst.type, i.src.type>> \in MovPairs
    /\ MovToRegister(i) \/ MovToSegment(i) \/ MovToAddress(i) \/ MovToEffective(i)
    /\ Advance(i) /\ Continue /\ UNCHANGED flags

-----------------------------------------------------------------------------
(* parse_add_inst.                                                         *)

AddPairs ==
    ({"TYPE_REGISTER"} \X {"TYPE_DATA", "TYPE_REGISTER", "TYPE_EFFECTIVE_ADDRESS"})
    \cup ({"TYPE_EFFECTIVE_ADDRESS"} \X {"TYPE_REGISTER", "TYPE_DATA"})

SourceValue(i) ==
    IF i.src.type = "TYPE_DATA" THEN i.src_data ELSE read_register(i.src.register)

\* The sum is evaluated in 16 bits whatever the width of the register.
AddToRegister(i) ==
    LET sum == (read_register(i.dst.register) + SourceValue(i)) % 65536
    IN  /\ i.dst.type = "TYPE_REGISTER" /\ i.src.type # "TYPE_EFFECTIVE_ADDRESS"
        /\ flags' = eval_flags(sum)
        /\ SetRegister(i.dst.register, sum)
        /\ Charge(IF i.src.type = "TYPE_DATA" THEN 4 ELSE 3)

\* Additions with a memory operand leave the flags alone.
AddFromMemory(i) ==
    LET address == EffectiveAddress(i.src, i.src.effective_displacement)
    IN  /\ i.dst.type = "TYPE_REGISTER" /\ i.src.type = "TYPE_EFFECTIVE_ADDRESS"
        /\ SetRegister(i.dst.register,
                       (read_register(i.dst.register) + Cell(memory, address)) % 65536)
        /\ Charge(9 + get_ea_clocks(i) + OddPenalty(address, 4))
        /\ UNCHANGED flags
AddToMemory(i) ==
    LET address == EffectiveAddress(i.dst, i.dst.effective_displacement)
    IN  /\ i.dst.type = "TYPE_EFFECTIVE_ADDRESS"
        /\ SetMemory(address, Cell(memory, address) + SourceValue(i))
        /\ Charge((IF i.src.type = "TYPE_DATA" THEN 17 ELSE 16) + get_ea_clocks(i)
                  + OddPenalty(address, 8))
        /\ UNCHANGED flags

parse_add_inst(i) ==
    /\ i.op = "ADD_INST" /\ <<i.dst.type, i.src.type>> \in AddPairs
    /\ AddToRegister(i) \/ AddFromMemory(i) \/ AddToMemory(i)
    /\ Advance(i) /\ Continue

-----------------------------------------------------------------------------
(* parse_sub_cmp_inst: registers and immediate data only, not timed.       *)

SubCmpPairs == {"TYPE_REGISTER"} \X {"TYPE_REGISTER", "TYPE_DATA"}

parse_sub_cmp_inst(i) ==
    LET difference == (read_register(i.dst.register) - SourceValue(i)) % 65536
    IN  /\ i.op \in {"SUB_INST", "CMP_INST"}
        /\ <<i.dst.type, i.src.type>> \in SubCmpPairs
        /\ flags' = eval_flags(difference)
        /\ IF i.op = "SUB_INST" THEN SetRegister(i.dst.register, difference)
           ELSE UNCHANGED <<registers, memory, segment_registers>>
        /\ Advance(i) /\ Continue /\ UNCHANGED total_clocks

-----------------------------------------------------------------------------
(* parse_jmp_inst: ip is at the next instruction before the offset is added.*)

\* Mutants: ip is wider than 16 bits; the offset counts from the jump itself.
Target_Wide(i, taken) ==
    ip' = ip + i.inst_num_bytes + (IF taken THEN i.src_data ELSE 0)
Target_FromStart(i, taken) ==
    ip' = (ip + (IF taken THEN i.src_data ELSE i.inst_num_bytes)) % 65536

Target(i, taken) ==
    ip' = (ip + i.inst_num_bytes + (IF taken THEN i.src_data ELSE 0)) % 65536

JumpNotZero(i) ==
    /\ i.op = "JNZ_INST"
    /\ Target(i, ~flags.z)
    /\ UNCHANGED <<memory, registers, segment_registers, flags, total_clocks>>
    /\ Continue
Loop(i) ==
    LET count == (registers["REG_CX"] - 1) % 65536
    IN  /\ i.op = "LOOP_INST"
        /\ SetRegister("REG_CX", count)
        /\ flags' = eval_flags(count)
        /\ Target(i, count # 0)
        /\ UNCHANGED total_clocks
        /\ Continue

parse_jmp_inst(i) == JumpNotZero(i) \/ Loop(i)

-----------------------------------------------------------------------------
(* The main loop.                                                          *)

\* The handlers, and main for jo and MAX_INST, call ERROR for the rest.
Handled(i) ==
    /\ i.sane
    /\ \/ i.op = "MOV_INST" /\ <<i.dst.type, i.src.type>> \in MovPairs
       \/ i.op = "ADD_INST" /\ <<i.dst.type, i.src.type>> \in AddPairs
       \/ i.op \in {"SUB_INST", "CMP_INST"} /\ <<i.dst.type, i.src.type>> \in SubCmpPairs
       \/ i.op \in {"JNZ_INST", "LOOP_INST"}

\* The bytes at the instruction pointer.  Only the last five addresses reach
\* beyond the array.
Fetched ==
    LET At(spill) == [k \in Window |-> IF ip + k < MEMORY_SIZE THEN Cell(memory, ip + k)
                                       ELSE spill[ip + k - MEMORY_SIZE]]
    IN  {At(spill) : spill \in Spill}
Fetching == status = "running" /\ ip < bytes_available

Init ==
    /\ program \in Programs
    /\ bytes_available = IF Len(program) <= MEMORY_SIZE THEN Len(program) ELSE MEMORY_SIZE
    /\ memory = [a \in {c \in 0..bytes_available - 1 : program[c + 1] # 0} |-> program[a + 1]]
    /\ registers = [r \in Registers |-> 0]
    /\ segment_registers = [r \in SegRegisters |-> 0]
    /\ flags = [z |-> FALSE, s |-> FALSE]
    /\ ip = 0 /\ total_clocks = 0
    /\ status = "running"

Execute ==
    /\ Fetching
    /\ \E b \in Fetched :
        /\ Decodable(b)
        /\ \E i \in {decode_bitstream(b)} :
            /\ Handled(i)
            /\ parse_mov_inst(i) \/ parse_add_inst(i) \/ parse_sub_cmp_inst(i) \/ parse_jmp_inst(i)

\* ERROR, which exits the process, whatever the handler wrote before.  The message
\* for MAX_INST prints an op_name that was read from beyond instruction_name[].
Fail ==
    /\ Fetching
    /\ \E b \in Fetched :
        /\ Decodable(b) => ~Handled(decode_bitstream(b))
        /\ \/ status' = "error"
           \/ /\ Decodable(b) /\ decode_bitstream(b).op = "MAX_INST"
              /\ status' = "crashed"
    /\ UNCHANGED <<program, machine, bytes_available>>

Exit ==
    /\ status = "running" /\ ip >= bytes_available
    /\ status' = "done"
    /\ UNCHANGED <<program, machine, bytes_available>>

Terminated == status # "running" /\ UNCHANGED vars

Next == Execute \/ Fail \/ Exit \/ Terminated

Spec == Init /\ [][Next]_vars

\* A process that is scheduled at all takes its next step.
FairSpec == Spec /\ WF_vars(Execute \/ Fail \/ Exit)

-----------------------------------------------------------------------------
\* Every variable has its type: registers and segment registers hold words, cells
\* hold bytes, ip and the clock counter are 16-bit counters.
TypeOK ==
    /\ program \in Programs /\ bytes_available \in 0..MEMORY_SIZE
    /\ DOMAIN memory \subseteq 0..MEMORY_SIZE - 1
    /\ memory \in [DOMAIN memory -> Byte]
    /\ registers \in [Registers -> Word]
    /\ segment_registers \in [SegRegisters -> Word]
    /\ flags \in [z : BOOLEAN, s : BOOLEAN]
    /\ ip \in Word /\ total_clocks \in Word
    /\ status \in {"running", "error", "crashed", "done"}

\* A program that does not fill the memory is over at some time, with a normal end.
\* The premise leaves out what the simulator is not asked to do: only programs that
\* terminate on the machine, and use what it supports, are given to this property.
Terminates == Len(program) < MEMORY_SIZE => <>(status = "done")

\* ip is 16 bits wide and compared with a size_t: a program that fills the memory
\* has no address beyond its end, so the main loop never ends by itself.
FullMemoryNeverEnds == Len(program) >= MEMORY_SIZE => status # "done"

-----------------------------------------------------------------------------
(* What the tests, comments and messages of the repository say.            *)

\* The instruction that a step executes, if it is one of op.
Executes(op) == {i \in {decode_bitstream(b) : b \in {c \in Fetched : Decodable(c)}} :
                    i.op = op /\ Handled(i)}

\* A load reads the cell that a store to the same operand writes: the address of an
\* operand is its registers plus its own displacement.
LoadUsesItsDisplacement ==
    [][\A i \in Executes("MOV_INST") :
          status = "running" /\ i.src.type = "TYPE_EFFECTIVE_ADDRESS"
            => registers'[WholeOf(i.dst.register)] % 256
                 = Cell(memory, EffectiveAddress(i.src, i.src.effective_displacement))
               \/ IsHigh(i.dst.register)]_vars
=============================================================================
