--------------------------- MODULE MCFirstDecoder ---------------------------
(***************************************************************************)
(* Inputs for the first decoder: every opcode with register bytes of every *)
(* shape and two tails that are no opcodes, and every file of up to four   *)
(* instructions, whole or with its last byte missing, that take up to three*)
(* chunks.                                                                 *)
(***************************************************************************)
EXTENDS FirstDecoderShapes, SequencesExt

\* A register move, immediate group, a displaced load, a word to memory, no instruction.
Templates == {<<139, 200>>, <<131, 192, 5>>, <<139, 134, 1, 2>>, <<199, 134, 1, 2, 3, 4>>, <<240>>}
Programs == {FlattenSeq(parts) : parts \in UNION {[1..n -> Templates] : n \in 0..4}}
CutPrograms == {SubSeq(p, 1, Len(p) - 1) : p \in Programs \ {<<>>}}

Tails == {<<17, 18, 19, 20>>, <<240, 241, 243, 244>>}
RegisterBytes == {64 * m + 8 * field + rm : m \in 0..3, field \in {0, 3, 5, 7}, rm \in {0, 5, 6, 7}}
Shapes ==
    {<<opcode, second>> : opcode \in 136..139, second \in Byte}
    \cup {<<opcode, second>> : opcode \in Ref!HasRegisterByte, second \in RegisterBytes}
    \cup {<<opcode, second>> : opcode \in Byte, second \in {0, 127, 129, 255}}
ShapeFiles == {shape \o tail : shape \in Shapes, tail \in Tails}

AllFiles == Programs \cup CutPrograms \cup ShapeFiles

\* What lies in the memory: no instruction, or additions without end.
SomeMemories == {[k \in 0..10 |-> 240], [k \in 0..10 |-> 0]}
=============================================================================
