----------------------------- MODULE Machine8086 -----------------------------
(***************************************************************************)
(* What the simulator promises: the machine an assembly programmer sees.   *)
(* A program is its text, the assembly instructions by address; there are  *)
(* eight 16-bit registers with byte halves, four segment registers, byte   *)
(* addressed little-endian memory, and the zero and sign flags, which follow*)
(* the result of an arithmetic instruction in the width of its operands.   *)
(***************************************************************************)
EXTENDS Integers

VARIABLES text,         \* address -> [op, size, dst, src, length]
          reg, seg,     \* the register files
          mem,          \* the data cells that are not 0
          z, s,         \* the flags
          at,           \* the address of the next instruction
          mode          \* "on", "halted" or "fault"

Names == {"ax", "bx", "cx", "dx", "sp", "bp", "si", "di"}
SegNames == {"es", "cs", "ss", "ds"}
Halves == {"al", "ah", "bl", "bh", "cl", "ch", "dl", "dh"}
HighHalves == {"ah", "bh", "ch", "dh"}
Whole(half) == CASE half \in {"al", "ah"} -> "ax" [] half \in {"bl", "bh"} -> "bx"
                 [] half \in {"cl", "ch"} -> "cx" [] OTHER -> "dx"

\* Operands: registers are named, memory is a sequence of registers and an offset.
Reg(name) == [kind |-> "reg", name |-> name]
Seg(name) == [kind |-> "seg", name |-> name]
Imm(value) == [kind |-> "imm", value |-> value]
Mem(base, offset) == [kind |-> "mem", base |-> base, offset |-> offset]

-----------------------------------------------------------------------------
Modulus(size) == IF size = 1 THEN 256 ELSE 65536
MemAt(a) == IF a % 65536 \in DOMAIN mem THEN mem[a % 65536] ELSE 0

\* At most two registers and an offset.
Address(o) ==
    LET Part(k) == IF k \in DOMAIN o.base THEN reg[o.base[k]] ELSE 0
    IN  (Part(1) + Part(2) + o.offset) % 65536

Value(o, size) ==
    CASE o.kind = "imm" -> o.value % Modulus(size)
      [] o.kind = "seg" -> seg[o.name]
      [] o.kind = "reg" /\ o.name \in Names -> reg[o.name]
      [] o.kind = "reg" /\ o.name \in HighHalves -> reg[Whole(o.name)] \div 256
      [] o.kind = "reg" /\ o.name \in Halves \ HighHalves -> reg[Whole(o.name)] % 256
      [] o.kind = "mem" -> IF size = 1 THEN MemAt(Address(o))
                           ELSE MemAt(Address(o)) + 256 * MemAt(Address(o) + 1)

\* The cells that are not 0 once the cells of new are stored over those of old.
Over(old, new) ==
    LET Both(a) == IF a \in DOMAIN new THEN new[a] ELSE old[a]
    IN  [a \in {c \in DOMAIN old \cup DOMAIN new : Both(c) # 0} |-> Both(a)]
Bytes(a, size, value) ==
    [c \in (IF size = 1 THEN {a} ELSE {a, (a + 1) % 65536}) |->
        IF c = a THEN value % 256 ELSE value \div 256]

\* The instruction leaves value in o and changes nothing else.
Put(o, size, value) ==
    /\ reg' = CASE o.kind = "reg" /\ o.name \in Names -> [reg EXCEPT ![o.name] = value]
                [] o.kind = "reg" /\ o.name \in HighHalves ->
                        [reg EXCEPT ![Whole(o.name)] = 256 * value + (@ % 256)]
                [] o.kind = "reg" /\ o.name \in Halves \ HighHalves ->
                        [reg EXCEPT ![Whole(o.name)] = @ - (@ % 256) + value]
                [] OTHER -> reg
    /\ seg' = IF o.kind = "seg" THEN [seg EXCEPT ![o.name] = value] ELSE seg
    /\ mem' = IF o.kind = "mem" THEN Over(mem, Bytes(Address(o), size, value)) ELSE mem
KeepOperands == UNCHANGED <<reg, seg, mem>>
SetFlags(value, size) == z' = (value = 0) /\ s' = (2 * value >= Modulus(size))

-----------------------------------------------------------------------------
Current == text[at]
Following == (at + Current.length) % 65536
Running == mode = "on" /\ at \in DOMAIN text

Init ==
    /\ reg = [n \in Names |-> 0] /\ seg = [n \in SegNames |-> 0]
    /\ mem = [a \in {} |-> 0]
    /\ z = FALSE /\ s = FALSE
    /\ at = 0 /\ mode = "on"

Mov ==
    /\ Running /\ Current.op = "mov"
    /\ Put(Current.dst, Current.size, Value(Current.src, Current.size))
    /\ at' = Following
    /\ UNCHANGED <<text, z, s, mode>>

Arithmetic ==
    /\ Running /\ Current.op \in {"add", "sub", "cmp"}
    /\ LET size == Current.size
           left == Value(Current.dst, size)
           right == Value(Current.src, size)
           result == (IF Current.op = "add" THEN left + right ELSE left - right)
                        % Modulus(size)
       IN  /\ SetFlags(result, size)
           /\ IF Current.op = "cmp" THEN KeepOperands ELSE Put(Current.dst, size, result)
    /\ at' = Following
    /\ UNCHANGED <<text, mode>>

Jnz ==
    /\ Running /\ Current.op = "jnz"
    /\ at' = IF z THEN Following ELSE (Following + Current.src.value) % 65536
    /\ KeepOperands /\ UNCHANGED <<text, z, s, mode>>

\* loop counts cx down; it is not an arithmetic instruction.
LoopCx ==
    /\ Running /\ Current.op = "loop"
    /\ LET count == (reg["cx"] - 1) % 65536
       IN  /\ Put(Reg("cx"), 2, count)
           /\ at' = IF count = 0 THEN Following ELSE (Following + Current.src.value) % 65536
    /\ UNCHANGED <<text, z, s, mode>>

\* An instruction the machine does not have.
Fault ==
    /\ Running /\ Current.op = "other"
    /\ mode' = "fault"
    /\ KeepOperands /\ UNCHANGED <<text, z, s, at>>

Halt ==
    /\ mode = "on" /\ at \notin DOMAIN text
    /\ mode' = "halted"
    /\ KeepOperands /\ UNCHANGED <<text, z, s, at>>

Next == Mov \/ Arithmetic \/ Jnz \/ LoopCx \/ Fault \/ Halt
Spec == Init /\ [][Next]_<<text, reg, seg, mem, z, s, at, mode>>
=============================================================================
