-------------------------- MODULE FirstDecoderShapes --------------------------
(***************************************************************************)
(* The lines of the first decoder against the encoding and the library:    *)
(* which instructions it misreads.                                         *)
(***************************************************************************)
EXTENDS FirstDecoder

Ref == INSTANCE DecoderReference

\* The shapes the first decoder reads otherwise than they are encoded.
Direct(b) == b[0] \in Ref!HasRegisterByte /\ Ref!IsDirect(b)
Displaced(b) == b[0] \in Ref!HasRegisterByte /\ Ref!Mod(b) \in {1, 2}
\* The displacement of an instruction with data is as wide as the data.
DisplacementByWidth(b) ==
    /\ b[0] \in Ref!ImmediateToRegMem
    /\ (Direct(b) \/ Displaced(b)) /\ (b[0] % 2 = 1) # (Ref!AddressBytes(b) = 2)
\* A direct address is the source, and one byte without a W flag.
DirectOperand(b) ==
    Direct(b) /\ (\/ b[0] \in Ref!RegMemClass /\ (b[0] % 4) # 3
                  \/ b[0] \in Ref!SegmentMove)
\* A displaced operand of a segment move is looked up in the table of registers.
SegmentBase(b) == b[0] \in Ref!SegmentMove /\ Displaced(b)
\* The accumulator moves of a byte.
AccumulatorByte(b) == b[0] \in {160, 162}
\* The immediate moves that are printed with brackets, with bp for a direct address, or
\* with "byte" for a word.
ImmediateMove(b) ==
    /\ b[0] \in {198, 199}
    /\ Ref!Mod(b) = 3 \/ Direct(b) \/ (b[0] = 199 /\ Ref!Mod(b) \in {0, 1})
Misread(b) ==
    DisplacementByWidth(b) \/ DirectOperand(b) \/ SegmentBase(b) \/ AccumulatorByte(b)
    \/ ImmediateMove(b)

\* The line is the instruction the bytes encode, under the name the library gives it.
SameAsEncoded(line) ==
    LET b == line.bytes
    IN  /\ line.inst.consumed = Ref!RefLength(b)
        /\ line.inst.op = Ref!decode_bitstream(b).op
        /\ <<line.inst.dst, line.inst.src>> = Ref!RefOperands(b)
        /\ Ref!ImmediateBytes(b) > 0 => line.inst.data = Ref!RefImmediate(b)
        /\ line.inst.data_type # "" => (line.inst.data_type = "word") = Ref!Wide(b)

\* The first decoder reads every instruction as it is encoded, and as the library reads
\* it, but for the shapes above, each of which it misreads whatever the operands are.
MisreadsTheseShapesOnly ==
    \A i \in DOMAIN listing : SameAsEncoded(listing[i]) <=> ~Misread(listing[i].bytes)
===============================================================================
