-------------------------- MODULE MCDecoderDriver --------------------------
(***************************************************************************)
(* Inputs for the decoder program: every opcode with register bytes of     *)
(* every shape, with two tails, and every short file over a set of opcodes *)
(* of each class, register bytes and data bytes.                           *)
(***************************************************************************)
EXTENDS DecoderChecks

\* mov r/m, the immediate group, mov immediate, mov memory, a jump, an opcode of no
\* row; 70 and 200 are register bytes of MOD 01 and MOD 11.
SomeBytes == {139, 131, 184, 161, 117, 240, 70, 200}
SmallFiles == UNION {[1..k -> SomeBytes] : k \in 0..4}

\* The moves between registers and memory with every register byte; every opcode with
\* register bytes of each MOD, the fields 0, 5, 7 and one more, and a sample of data.
RegisterBytes == {64 * mod + 8 * field + rm : mod \in 0..3, field \in {0, 3, 5, 7}, rm \in {0, 5, 6}}
DataSamples == {127, 129, 255}
FirstTwoBytes == {<<opcode, second>> : opcode \in (136..139) \cup SegmentMove, second \in Byte}
                 \cup {<<opcode, second>> : opcode \in HasRegisterByte, second \in RegisterBytes}
                 \cup {<<opcode, second>> : opcode \in Byte, second \in DataSamples}
AllFiles == SmallFiles \cup FirstTwoBytes
RegMemFiles == {f \in FirstTwoBytes : f[1] \in RegMemClass}

\* Positive and negative displacements and data, with bytes that all differ.
Bytes6(bytes) == [k \in Window |-> bytes[k + 1]]
SomeResidues == {Bytes6(<<3, 0, 9, 1, 0, 0>>), Bytes6(<<253, 255, 128, 254, 255, 255>>)}
=============================================================================
