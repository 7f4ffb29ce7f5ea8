--------------------------- MODULE DecoderChecks ---------------------------
(***************************************************************************)
(* The listing of the decoder program compared with the encoding.          *)
(***************************************************************************)
EXTENDS DecoderDriver, DecoderReference

\* The bytes of a printed line.
BytesOf(line) == BytesAt(line.at, residue)
Lines == {listing[i] : i \in DOMAIN listing}

\* The ERROR calls of parse_instruction, is_dst_16bit and print_decoded_instruction that
\* are marked as sanity checks are unreachable: every row of the table leads to two
\* operands of printable types, and the process only fails for an instruction that the
\* table lacks or the input cuts off.
SanityChecksUnreachable ==
    /\ \A line \in Lines : line.inst.sane /\ Printable(line.inst)
    /\ status = "error" => ptr > BytesRead \/ ~Decodable(BytesAt(ptr, residue))

\* parse_instruction consumes the bytes the encoding gives the instruction: it neither
\* skips a byte of the next one nor leaves one of its own behind; the opcodes that
\* the table lacks are those the encoding of the supported operations does not have.
LengthMatchesReference ==
    /\ \A line \in Lines : line.inst.inst_num_bytes = RefLength(BytesOf(line))
    /\ status = "running" /\ bytes_available > 0 =>
           LET b == BytesAt(ptr, residue) IN Decodable(b) <=> b[0] \in Opcodes

\* The decoder reads a direct address with the operands swapped (a store decodes as a
\* load) and a byte store of the accumulator as a store of ax.
StoresToDirectAddress(b) ==
    \/ IsDirect(b) /\ (b[0] = 140 \/ (b[0] \in RegMemClass /\ (b[0] \div 2) % 2 = 0))
    \/ b[0] = 162

SameOperands(line) ==
    <<PlaceOf(line.inst.dst), PlaceOf(line.inst.src)>> = RefOperands(BytesOf(line))

\* Every operand decodes to the place the encoding names, the direction flag, the width
\* flag, the displacement and the immediate with its extension included, for every
\* instruction but the stores to a direct address.
OperandsMatchReference ==
    \A line \in Lines :
        LET b == BytesOf(line)
        IN  /\ StoresToDirectAddress(b) \/ b[0] \in Short \/ SameOperands(line)
            /\ ImmediateBytes(b) > 0 => line.inst.src_data = RefImmediate(b)

-----------------------------------------------------------------------------
(* What the comments and the round-trip test of the repository expect.     *)

\* "register/memory to/from register": the direction of a move is decoded for every
\* operand, a direct address included.
DirectionIsDecoded ==
    \A line \in Lines : BytesOf(line)[0] \in RegMemClass => SameOperands(line)
=============================================================================
