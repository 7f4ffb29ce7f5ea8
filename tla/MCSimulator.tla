---------------------------- MODULE MCSimulator ----------------------------
(***************************************************************************)
(* Programs assembled from templates, checked against the machine they are *)
(* written for.  A template is the bytes of an instruction with its text.  *)
(***************************************************************************)
EXTENDS Simulator

NoSpill == {[k \in Window |-> 0]}

-----------------------------------------------------------------------------
\* Operands of the text.
R(name) == [kind |-> "reg", name |-> name]
Sg(name) == [kind |-> "seg", name |-> name]
I(value) == [kind |-> "imm", value |-> value]
M(base, offset) == [kind |-> "mem", base |-> base, offset |-> offset]

T(bytes, op, size, dst, src) ==
    [bytes |-> bytes,
     asm |-> [op |-> op, size |-> size, dst |-> dst, src |-> src, length |-> Len(bytes)]]
Other(bytes) == T(bytes, "other", 2, I(0), I(0))
Jnz(offset) == T(<<117, offset>>, "jnz", 2, I(0), I(offset))

\* Every data address a template uses is at or after 256 and the cell after a word
\* is never written: the simulator loads and stores the low byte of a word.
Prologue == T(<<187, 0, 1>>, "mov", 2, R("bx"), I(256))
MovAndArithmetic == {
    T(<<184, 255, 255>>, "mov", 2, R("ax"), I(65535)),
    T(<<185, 0, 128>>, "mov", 2, R("cx"), I(32768)),
    T(<<178, 128>>, "mov", 1, R("dl"), I(128)),
    T(<<182, 1>>, "mov", 1, R("dh"), I(1)),
    T(<<136, 240>>, "mov", 1, R("al"), R("dh")),
    T(<<139, 202>>, "mov", 2, R("cx"), R("dx")),
    T(<<1, 200>>, "add", 2, R("ax"), R("cx")),
    T(<<131, 193, 255>>, "add", 2, R("cx"), I(65535)),
    T(<<41, 193>>, "sub", 2, R("cx"), R("ax")),
    T(<<45, 1, 0>>, "sub", 2, R("ax"), I(1)),
    T(<<57, 200>>, "cmp", 2, R("ax"), R("cx")),
    T(<<129, 249, 0, 128>>, "cmp", 2, R("cx"), I(32768))}
Transfers == {
    T(<<142, 208>>, "mov", 2, Sg("ss"), R("ax")),
    T(<<140, 210>>, "mov", 2, R("dx"), Sg("ss")),
    T(<<136, 71, 2>>, "mov", 1, M(<<"bx">>, 2), R("al")),
    T(<<199, 7, 5, 0>>, "mov", 2, M(<<"bx">>, 0), I(5)),
    T(<<139, 15>>, "mov", 2, R("cx"), M(<<"bx">>, 0)),
    T(<<138, 23>>, "mov", 1, R("dl"), M(<<"bx">>, 0)),
    T(<<161, 2, 1>>, "mov", 2, R("ax"), M(<<>>, 258)),
    T(<<198, 6, 2, 1, 9>>, "mov", 1, M(<<>>, 258), I(9))}
Unsupported == {Other(<<163, 0, 1>>), Other(<<240>>), Other(<<128, 200, 5>>),
                Other(<<112, 0>>)}
Templates == MovAndArithmetic \cup Transfers \cup Unsupported
             \cup {Jnz(n) : n \in 2..4}

\* A forward jump skips the instruction that follows it.
WellFormed(ts) ==
    \A k \in 1..Len(ts) : ts[k].asm.op = "jnz" =>
        k < Len(ts) /\ Len(ts[k + 1].bytes) = ts[k].asm.src.value
Scripts == {ts \in [1..3 -> Templates] : WellFormed(ts)}

Assemble(ts) == Prologue.bytes \o ts[1].bytes \o ts[2].bytes \o ts[3].bytes
ScriptPrograms == {Assemble(ts) : ts \in Scripts}

-----------------------------------------------------------------------------
(* The refinement.                                                         *)

MatchesAt(t, a) ==
    a + Len(t.bytes) <= Len(program) /\ SubSeq(program, a + 1, a + Len(t.bytes)) = t.bytes
TemplatesAt(a) == {t \in Templates \cup {Prologue} : MatchesAt(t, a)}
TextOfProgram ==
    [a \in {c \in 0..Len(program) - 1 : TemplatesAt(c) # {}} |->
        (CHOOSE t \in TemplatesAt(a) : TRUE).asm]

RegisterNames == [ax |-> "REG_AX", bx |-> "REG_BX", cx |-> "REG_CX", dx |-> "REG_DX",
                  sp |-> "REG_SP", bp |-> "REG_BP", si |-> "REG_SI", di |-> "REG_DI"]
SegmentNames == [es |-> "SEG_REG_ES", cs |-> "SEG_REG_CS",
                 ss |-> "SEG_REG_SS", ds |-> "SEG_REG_DS"]
DataCells == {a \in DOMAIN memory : a >= bytes_available /\ memory[a] # 0}

Machine == INSTANCE Machine8086 WITH
    text <- TextOfProgram,
    reg <- [n \in DOMAIN RegisterNames |-> registers[RegisterNames[n]]],
    seg <- [n \in DOMAIN SegmentNames |-> segment_registers[SegmentNames[n]]],
    mem <- [a \in DataCells |-> memory[a]],
    z <- flags.z, s <- flags.s,
    at <- ip,
    mode <- CASE status = "running" -> "on" [] status = "done" -> "halted"
              [] OTHER -> "fault"

\* Fetch, decode and execute of the bytes of a program do, step by step, what the
\* text of the program says: registers and their halves, segment registers, memory,
\* flags and the instruction pointer (main and the parse_ handlers of simulator.c).
ImplementsMachine == Machine!Spec
=============================================================================
