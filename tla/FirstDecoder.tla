----------------------------- MODULE FirstDecoder -----------------------------
(***************************************************************************)
(* The first decoder (decoder_8086/decoder.c), the program the library was *)
(* written after: it reads its input in chunks, decodes what is in the     *)
(* buffer, and counts the bytes left of the chunk in a size_t.  Memory is  *)
(* the buffer and what lies behind it; a read past the end of memory is a  *)
(* crash.  Registers and operations are named as in the library, so that   *)
(* the two can be compared.  A printed operand is the place it names.      *)
(***************************************************************************)
EXTENDS Integers, Sequences

CONSTANTS Files,        \* the inputs: sequences of bytes
          Memories,     \* what the memory may hold before the first read
          BUFFER_SIZE,  \* the size of a chunk (4096 in the code)
          MEMORY_SIZE,  \* addressable bytes from the start of the buffer
          SIZE_T        \* the number of values of a size_t

ASSUME FirstDecoderAssumption ==
    /\ BUFFER_SIZE \in Nat \ {0} /\ MEMORY_SIZE \in Nat /\ SIZE_T \in Nat
    /\ BUFFER_SIZE <= MEMORY_SIZE /\ 2 * MEMORY_SIZE < SIZE_T
    /\ Files \subseteq Seq(0..255)
    /\ Memories \subseteq [0..MEMORY_SIZE - 1 -> 0..255]

VARIABLES
    file,               \* the input file
    memory,             \* the buffer, and what follows it
    offset,             \* bytes read from the file so far
    base,               \* offset in the file of the chunk in the buffer
    bytes_available,    \* size_t: bytes of the chunk not consumed yet
    ptr,                \* the decode pointer, from the start of the buffer
    listing,            \* the printed lines, each with the bytes it was decoded from
    failed_read,        \* TRUE when an fread has failed
    status              \* "start", "running", or how the process ended

vars == <<file, memory, offset, base, bytes_available, ptr, listing, failed_read, status>>

Byte == 0..255
Word == 0..65535

-----------------------------------------------------------------------------
(* What a line names.                                                      *)

register_map ==
    <<<<"REG_AL", "REG_AX">>, <<"REG_CL", "REG_CX">>, <<"REG_DL", "REG_DX">>,
      <<"REG_BL", "REG_BX">>, <<"REG_AH", "REG_SP">>, <<"REG_CH", "REG_BP">>,
      <<"REG_DH", "REG_SI">>, <<"REG_BH", "REG_DI">>>>
mov_source_effective_address ==
    <<{"REG_BX", "REG_SI"}, {"REG_BX", "REG_DI"}, {"REG_BP", "REG_SI"},
      {"REG_BP", "REG_DI"}, {"REG_SI"}, {"REG_DI"}, {"REG_BP"}, {"REG_BX"}>>
segment_register_map == <<"SEG_REG_ES", "SEG_REG_CS", "SEG_REG_SS", "SEG_REG_DS">>

Register(reg, bit_w) == [kind |-> "register", name |-> register_map[reg + 1][bit_w + 1]]
Segment(sr) == [kind |-> "register", name |-> segment_register_map[sr + 1]]
Memory(registers, address) == [kind |-> "memory", base |-> registers, offset |-> address]
Effective(r_m, displacement) ==
    Memory(mov_source_effective_address[r_m + 1], displacement)
Data == [kind |-> "immediate"]

\* An instruction that takes no data has data 0; data_type is the printed size.
Line(op, consumed, dst, src, data, data_type) ==
    [op |-> op, consumed |-> consumed, dst |-> dst, src |-> src,
     data |-> data, data_type |-> data_type]

\* Fields of the opcode b[0] and of the register byte b[1].
Bit(byte, shift) == (byte \div shift) % 2
mod(b) == b[1] \div 64
reg(b) == (b[1] \div 8) % 8
r_m(b) == b[1] % 8

-----------------------------------------------------------------------------
(* The bytes after the opcode.  Displacements and data are read alike: one *)
(* sign-extended byte or two, by the flag the caller passes.               *)

\* Mutant: the byte is widened to an int and not kept in 16 bits.
SignExtend_Int(byte) == IF byte >= 128 THEN byte - 256 ELSE byte
SignExtend(byte) == IF byte >= 128 THEN 65280 + byte ELSE byte
extract_displacement(b, at, bit_w) ==
    IF bit_w = 0 THEN SignExtend(b[at]) ELSE 256 * b[at + 1] + b[at]
extract_data(b, at, bit_w) ==
    IF bit_w = 0 THEN SignExtend(b[at]) ELSE 256 * b[at + 1] + b[at]
explicit_extract_data(b, at, bit_s, bit_w) ==
    CASE bit_s = 0 /\ bit_w = 0 -> b[at]
      [] bit_s = 0 /\ bit_w = 1 -> 256 * b[at + 1] + b[at]
      [] OTHER -> SignExtend(b[at])

IsDirect(b) == mod(b) = 0 /\ r_m(b) = 6
HasDisplacement(b) == IsDirect(b) \/ mod(b) \in {1, 2}

\* mov al/ax, [address] and back: a byte move takes a byte of address.
process_mov_accumulator_inst(b, is_load) ==
    LET bit_w == b[0] % 2
        ax == Register(0, 1)
        address == Memory({}, IF bit_w = 1 THEN 256 * b[2] + b[1] ELSE b[1])
    IN  Line("MOV_INST", 2 + bit_w, IF is_load THEN ax ELSE address,
             IF is_load THEN address ELSE ax, 0, "")

\* The displacement is as wide as the data, whatever MOD says; a register is printed
\* between brackets, and the size only follows W for MOD 10 and 11.
process_mov_immediate_to_register_memory(b) ==
    LET bit_w == b[0] % 2
        width == IF HasDisplacement(b) THEN bit_w + 1 ELSE 0
        displacement ==
            IF HasDisplacement(b) THEN extract_displacement(b, 2, bit_w) ELSE 0
    IN  Line("MOV_INST", 3 + width + bit_w,
             IF mod(b) = 3 THEN Memory({register_map[r_m(b) + 1][bit_w + 1]}, 0)
             ELSE Effective(r_m(b), displacement),
             Data, extract_data(b, 2 + width, bit_w),
             IF mod(b) \in {2, 3} /\ bit_w = 1 THEN "word" ELSE "byte")

process_mov_immediate_to_register(b) ==
    LET bit_w == Bit(b[0], 8)
    IN  Line("MOV_INST", 2 + bit_w, Register(b[0] % 8, bit_w), Data,
             extract_data(b, 1, bit_w), "")

\* Mutant: the registers of MOD 11 are printed in the order of the bytes.
RegMemOperands_IgnoresD(bit_d, the_reg, rm) == <<the_reg, rm>>
\* <<destination, source>>: D says which of them the register is.
RegMemOperands(bit_d, the_reg, rm) ==
    IF bit_d = 1 THEN <<the_reg, rm>> ELSE <<rm, the_reg>>

\* A segment move has no W: its direct address is one byte, and a displaced memory
\* operand is named by the table of registers.  A direct address is always the source.
process_regmem_tpo_reg_op_inst(b, op, is_segment_op) ==
    LET bit_w == IF is_segment_op THEN 0 ELSE b[0] % 2
        bit_d == Bit(b[0], 2)
        wide == IF is_segment_op THEN 1 ELSE bit_w
        width == CASE IsDirect(b) -> bit_w + 1
                   [] mod(b) \in {1, 2} -> mod(b)
                   [] OTHER -> 0
        displacement == IF width = 0 THEN 0 ELSE extract_displacement(b, 2, width - 1)
        the_reg == IF is_segment_op THEN Segment(reg(b) % 4) ELSE Register(reg(b), bit_w)
        rm == CASE mod(b) = 3 -> Register(r_m(b), wide)
                [] IsDirect(b) -> Memory({}, displacement)
                [] mod(b) \in {1, 2} /\ is_segment_op ->
                        Memory({register_map[r_m(b) + 1][2]}, displacement)
                [] OTHER -> Effective(r_m(b), displacement)
        operands == IF IsDirect(b) THEN <<the_reg, rm>>
                    ELSE RegMemOperands(bit_d, the_reg, rm)
    IN  Line(op, 2 + width, operands[1], operands[2], 0, "")

\* add, sub and cmp share the opcodes; the other operations are an ERROR.
op_sel == [sel \in {0, 5, 7} |->
    CASE sel = 0 -> "ADD_INST" [] sel = 5 -> "SUB_INST" [] sel = 7 -> "CMP_INST"]
process_immediate_to_regmem_op_inst(b) ==
    LET bit_s == Bit(b[0], 2)
        bit_w == b[0] % 2
        width == IF HasDisplacement(b) THEN bit_w + 1 ELSE 0
        displacement == IF width = 0 THEN 0 ELSE extract_displacement(b, 2, bit_w)
    IN  Line(op_sel[reg(b)], 2 + width + (IF bit_s = 0 /\ bit_w = 1 THEN 2 ELSE 1),
             CASE mod(b) = 3 -> Register(r_m(b), bit_w)
               [] IsDirect(b) -> Memory({}, displacement)
               [] OTHER -> Effective(r_m(b), displacement),
             Data, explicit_extract_data(b, 2 + width, bit_s, bit_w),
             IF mod(b) = 3 THEN "" ELSE IF bit_w = 1 THEN "word" ELSE "byte")

process_immediate_accumulator_op_inst(b, op) ==
    LET bit_w == b[0] % 2
    IN  Line(op, 2 + bit_w, Register(0, bit_w), Data, extract_data(b, 1, bit_w), "")

\* The opcodes JO_OP to JG_OP, LOOPNZ_OP to JCXZ_OP.
JumpName ==
    [opcode \in (112..127) \cup (224..227) |->
        IF opcode < 128
        THEN <<"JO_INST", "JNO_INST", "JB_INST", "JNB_INST",
               "JE_INST", "JNZ_INST", "JBE_INST", "JA_INST",
               "JS_INST", "JNS_INST", "JP_INST", "JNP_INST",
               "JL_INST", "JNL_INST", "JLE_INST", "JG_INST">>[opcode - 111]
        ELSE <<"LOOPNZ_INST", "LOOPZ_INST", "LOOP_INST", "JCXZ_INST">>[opcode - 223]]
process_jump_op_inst(b) ==
    Line(JumpName[b[0]], 2, Data, Data, extract_data(b, 1, 0), "")

\* The chain of tests on *ptr; (*ptr >> k) = X is an interval of 2^k opcodes.
Recognized(b) ==
    \/ b[0] \in (0..5) \cup (40..45) \cup (56..61) \cup (112..127) \cup (136..140)
                \cup {142} \cup (160..163) \cup (176..191) \cup {198, 199} \cup (224..227)
    \/ b[0] \in 128..131 /\ reg(b) \in {0, 5, 7}
DecodeLine(b) ==
    CASE b[0] \in {198, 199} -> process_mov_immediate_to_register_memory(b)
      [] b[0] \in 176..191 -> process_mov_immediate_to_register(b)
      [] b[0] \in 136..139 -> process_regmem_tpo_reg_op_inst(b, "MOV_INST", FALSE)
      [] b[0] \in {160, 161} -> process_mov_accumulator_inst(b, TRUE)
      [] b[0] \in {162, 163} -> process_mov_accumulator_inst(b, FALSE)
      [] b[0] \in {140, 142} -> process_regmem_tpo_reg_op_inst(b, "MOV_INST", TRUE)
      [] b[0] \in 0..3 -> process_regmem_tpo_reg_op_inst(b, "ADD_INST", FALSE)
      [] b[0] \in 128..131 -> process_immediate_to_regmem_op_inst(b)
      [] b[0] \in {4, 5} -> process_immediate_accumulator_op_inst(b, "ADD_INST")
      [] b[0] \in 40..43 -> process_regmem_tpo_reg_op_inst(b, "SUB_INST", FALSE)
      [] b[0] \in {44, 45} -> process_immediate_accumulator_op_inst(b, "SUB_INST")
      [] b[0] \in 56..59 -> process_regmem_tpo_reg_op_inst(b, "CMP_INST", FALSE)
      [] b[0] \in {60, 61} -> process_immediate_accumulator_op_inst(b, "CMP_INST")
      [] OTHER -> process_jump_op_inst(b)

-----------------------------------------------------------------------------
(* main.                                                                   *)

\* Six bytes from the decode pointer on; 0 stands for a byte beyond the memory, which
\* no instruction is printed from.
Window == [k \in 0..5 |-> IF ptr + k < MEMORY_SIZE THEN memory[ptr + k] ELSE 0]

Init ==
    /\ file \in Files /\ memory \in Memories
    /\ offset = 0 /\ base = 0 /\ bytes_available = 0 /\ ptr = 0
    /\ listing = <<>> /\ failed_read = FALSE
    /\ status = "start"

\* Without the input or the buffer the process ends with an error.  The test after
\* the second fopen is on the input again: without an output the first fprintf crashes.
OpenFiles ==
    /\ status = "start"
    /\ status' \in {"running", "error", "crashed"}
    /\ UNCHANGED <<file, memory, offset, base, bytes_available, ptr, listing, failed_read>>

\* fread returns a chunk, or less at the end of the file; a read that fails returns
\* what it has.  No bytes are the end of the loop, whatever the reason.
FreadInto(n, failed, pointer) ==
    /\ memory' = [k \in DOMAIN memory |-> IF k < n THEN file[offset + k + 1] ELSE memory[k]]
    /\ offset' = offset + n
    /\ base' = offset
    /\ ptr' = pointer
    /\ bytes_available' = n
    /\ failed_read' = (failed_read \/ failed)
    /\ status' = IF n = 0 THEN "done" ELSE "running"
    /\ UNCHANGED <<file, listing>>
\* Mutant: the pointer stays where the last instruction ended.
Fread_KeepsPointer(n, failed) == FreadInto(n, failed, ptr)
Fread(n, failed) == FreadInto(n, failed, 0)
Wanted == IF Len(file) - offset <= BUFFER_SIZE THEN Len(file) - offset ELSE BUFFER_SIZE
ChunkUsedUp == status = "running" /\ bytes_available = 0
ReadChunk == ChunkUsedUp /\ Fread(Wanted, FALSE)
FailRead == ChunkUsedUp /\ \E n \in 0..Wanted : Fread(n, TRUE)

\* Mutant: the count is signed, and the loop ends when it is not positive.
Remaining_Signed(consumed) ==
    IF bytes_available >= consumed THEN bytes_available - consumed ELSE 0
\* bytes_available is a size_t.
Remaining(consumed) == (bytes_available - consumed) % SIZE_T

CanDecode == status = "running" /\ bytes_available > 0

\* An instruction that reaches beyond the memory is not printed.
DecodeOne ==
    /\ CanDecode /\ ptr < MEMORY_SIZE /\ Recognized(Window)
    /\ \E line \in {DecodeLine(Window)} :
        IF ptr + line.consumed <= MEMORY_SIZE
        THEN /\ listing' = Append(listing,
                                  [at |-> base + ptr, inst |-> line, bytes |-> Window])
             /\ ptr' = ptr + line.consumed
             /\ bytes_available' = Remaining(line.consumed)
             /\ status' = status
        ELSE status' = "crashed" /\ UNCHANGED <<ptr, bytes_available, listing>>
    /\ UNCHANGED <<file, memory, offset, base, failed_read>>

\* Mutant: the message is printed and the loop goes on.
NotRecognized_Continues ==
    CanDecode /\ ptr < MEMORY_SIZE /\ ~Recognized(Window) /\ UNCHANGED vars
\* "not a recognized instruction, aborting", or a bad op_sel.
NotRecognized ==
    /\ CanDecode /\ ptr < MEMORY_SIZE /\ ~Recognized(Window)
    /\ status' = "error"
    /\ UNCHANGED <<file, memory, offset, base, bytes_available, ptr, listing, failed_read>>

PastMemory ==
    /\ CanDecode /\ ptr = MEMORY_SIZE
    /\ status' = "crashed"
    /\ UNCHANGED <<file, memory, offset, base, bytes_available, ptr, listing, failed_read>>

Ended == status \in {"done", "error", "crashed"} /\ UNCHANGED vars

Step == OpenFiles \/ ReadChunk \/ FailRead \/ DecodeOne \/ NotRecognized \/ PastMemory
Next == Step \/ Ended

Spec == Init /\ [][Next]_vars
\* The process is scheduled.
FairSpec == Spec /\ WF_vars(Step)

-----------------------------------------------------------------------------
\* Every variable has its type; bytes_available is a size_t.
Registers == UNION {{names[1], names[2]} : names \in {register_map[n] : n \in 1..8}}
IsPlace(p) ==
    \/ p \in [kind : {"register"}, name : Registers \cup {segment_register_map[n] : n \in 1..4}]
    \/ p.kind = "memory" /\ p.base \subseteq Registers /\ p.offset \in Word
    \/ p = Data
TypeOK ==
    /\ file \in Seq(Byte) /\ memory \in [0..MEMORY_SIZE - 1 -> Byte]
    /\ offset \in 0..Len(file) /\ base \in 0..offset
    /\ bytes_available \in 0..SIZE_T - 1 /\ ptr \in 0..MEMORY_SIZE
    /\ failed_read \in BOOLEAN
    /\ status \in {"start", "running", "done", "error", "crashed"}
    /\ \A i \in DOMAIN listing :
          /\ listing[i].at \in Nat
          /\ listing[i].bytes \in [0..5 -> Byte]
          /\ listing[i].inst.consumed \in 2..6 /\ listing[i].inst.data \in Word
          /\ IsPlace(listing[i].inst.dst) /\ IsPlace(listing[i].inst.src)

\* Where the i-th line begins, if it follows the one before it, and where it ends.
EndOf(i) == listing[i].at + listing[i].inst.consumed
StartOf(i) == IF i = 1 THEN 0 ELSE EndOf(i - 1)

\* The lines that end within the bytes read so far tile the file from its first byte
\* and are decoded from the file's own bytes, over any number of chunks, although an
\* instruction that the end of a chunk cuts is decoded from stale bytes.  Such a line is
\* the last correct thing in the listing: a normal exit means that every chunk ended with
\* an instruction, and that all of the file was read unless a read failed.
ListingIsOfTheFile ==
    /\ \A i \in DOMAIN listing : EndOf(i) <= offset =>
          /\ listing[i].at = StartOf(i)
          /\ \A k \in 1..listing[i].inst.consumed :
                listing[i].bytes[k - 1] = file[listing[i].at + k]
    /\ status = "done" =>
          /\ StartOf(Len(listing) + 1) = offset
          /\ failed_read \/ offset = Len(file)

\* A line that runs past the chunk makes the count of remaining bytes wrap: from then on
\* the count never again tells the bytes that are left, no further chunk is read and the
\* process cannot exit normally.
CutIsFatal ==
    (\E i \in DOMAIN listing : EndOf(i) > offset) =>
        /\ status \in {"running", "error", "crashed"}
        /\ bytes_available > MEMORY_SIZE

\* The program ends on every input: the wrapped count alone would let it run over the
\* whole address space.
Terminates == <>(status \in {"done", "error", "crashed"})
=============================================================================
