------------------------- MODULE DecoderDriverProofs -------------------------
(***************************************************************************)
(* The decoder program on every input, of any length, with any buffer size *)
(* and whatever follows the input in the buffer.                           *)
(***************************************************************************)
EXTENDS DecoderChecks, LibdecoderProofs, SequenceTheorems

\* The three invariants are inductive together: the overrun check compares the count
\* of remaining bytes, which ListingTilesInput ties to the decode pointer.
DriverInv == TypeOK /\ ListingTilesInput /\ OverrunIsReported

LEMMA BytesReadType ==
    ASSUME file \in Files
    PROVE  BytesRead \in 0..Len(file) /\ BytesRead \in Nat /\ file \in Seq(Byte)
<1>1. file \in Seq(Byte) /\ BUFFER_SIZE \in Nat  BY DriverAssumption
<1>2. Len(file) \in Nat  BY <1>1
<1> QED  BY <1>1, <1>2 DEF BytesRead

\* The decoder always looks at six bytes, of the input or of what follows it.
LEMMA BytesAtType ==
    ASSUME file \in Files, NEW at \in Nat, NEW after \in Residues
    PROVE  BytesAt(at, after) \in [Window -> Byte]
<1>1. after \in [Window -> Byte]  BY DriverAssumption
<1>2. ASSUME NEW k \in Window, at + k < BytesRead PROVE file[at + k + 1] \in Byte
  BY <1>2, BytesReadType DEF Window
<1>3. ASSUME NEW k \in Window, ~(at + k < BytesRead)
      PROVE  after[at + k - (IF at < BytesRead THEN BytesRead ELSE at)] \in Byte
  <2>1. at + k - (IF at < BytesRead THEN BytesRead ELSE at) \in Window
    BY <1>3, BytesReadType DEF Window
  <2> QED  BY <1>1, <2>1
<1>4. \A k \in Window :
        (IF at + k < BytesRead THEN file[at + k + 1]
         ELSE after[at + k - (IF at < BytesRead THEN BytesRead ELSE at)]) \in Byte
  BY <1>2, <1>3
<1> QED  BY <1>4 DEF BytesAt

\* An instruction that was decoded is well formed and takes at least one byte.
LEMMA DecodedType ==
    ASSUME TypeOK, CanDecode, NEW i \in Decoded
    PROVE  i \in Instruction /\ i.inst_num_bytes \in 1..6
<1>1. BytesAt(ptr, residue) \in [Window -> Byte]  BY BytesAtType DEF TypeOK
<1> QED  BY <1>1, DecodedInstructionIsWellFormed DEF CanDecode, Decoded

LEMMA InitInv == Init => DriverInv
<1> SUFFICES ASSUME Init PROVE DriverInv  OBVIOUS
<1> USE DEF Init
<1>1. BytesRead \in Nat  BY BytesReadType
<1>2. TypeOK  BY <1>1 DEF TypeOK
<1>3. ListingTilesInput  BY <1>1 DEF ListingTilesInput
<1>4. OverrunIsReported  BY DEF OverrunIsReported
<1> QED  BY <1>2, <1>3, <1>4 DEF DriverInv

\* One more instruction is printed at the decode pointer and counted off; whatever
\* the status becomes, it is an error if the instruction overran the input.
LEMMA DecodeInv ==
    ASSUME DriverInv, status = "running", NEW i \in Instruction,
           i.inst_num_bytes \in 1..6,
           NEW next_status \in {"running", "error", "crashed"},
           bytes_available < i.inst_num_bytes => next_status # "running",
           Decode(i, i.inst_num_bytes, next_status)
    PROVE  DriverInv'
<1> USE DEF DriverInv
<1> DEFINE line == [at |-> ptr, inst |-> i]
<1>1. /\ TypeOK
      /\ file' = file /\ residue' = residue /\ status' = next_status
      /\ bytes_available' = bytes_available - i.inst_num_bytes
      /\ ptr' = ptr + i.inst_num_bytes
      /\ listing' = Append(listing, line)
  BY DEF Decode
<1>2. /\ ptr \in Nat /\ bytes_available \in Int /\ i.inst_num_bytes \in Nat
      /\ BytesRead \in Nat /\ BytesRead' = BytesRead
      /\ listing \in Seq([at : Nat, inst : Instruction])
      /\ line \in [at : Nat, inst : Instruction]
  BY <1>1, BytesReadType DEF TypeOK, BytesRead
<1>3. TypeOK'  BY <1>1, <1>2 DEF TypeOK
<1>0. PICK n \in Nat : n = Len(listing)  BY <1>2
<1>4. /\ Len(listing') = n + 1
      /\ DOMAIN listing = 1..n /\ DOMAIN listing' = 1..(n + 1)
      /\ \A k \in 1..n : listing'[k] = listing[k]
      /\ listing'[n + 1] = line
  BY <1>0, <1>1, <1>2
<1>5. /\ \A k \in 1..n : EndOf(k)' = EndOf(k)
      /\ EndOf(n + 1)' = ptr'
  BY <1>1, <1>4 DEF EndOf
<1>6. ListingTilesInput'
  <2>1. ptr' + bytes_available' = BytesRead'  BY <1>1, <1>2 DEF ListingTilesInput
  <2>2. ASSUME NEW k \in DOMAIN listing'
        PROVE  listing'[k].at = IF k = 1 THEN 0 ELSE EndOf(k - 1)'
    <3>1. CASE k \in 1..n
      <4>1. listing'[k].at = IF k = 1 THEN 0 ELSE EndOf(k - 1)
        BY <1>4, <3>1 DEF ListingTilesInput
      <4>2. k # 1 => k - 1 \in 1..n  BY <1>4, <3>1
      <4> QED  BY <1>5, <4>1, <4>2
    <3>2. CASE k = n + 1
      <4>1. listing'[k].at = ptr  BY <1>4, <3>2
      <4>2. CASE n = 0
        <5>1. listing = <<>>  BY <1>0, <1>2, <4>2, EmptySeq
        <5>2. ptr = 0  BY <5>1 DEF ListingTilesInput
        <5> QED  BY <3>2, <4>1, <4>2, <5>2
      <4>3. CASE n # 0
        <5>1. listing # <<>>  BY <1>0, <1>2, <4>3
        <5>2. ptr = EndOf(n)  BY <1>0, <5>1 DEF ListingTilesInput
        <5>3. k # 1 /\ k - 1 = n /\ n \in 1..n  BY <1>4, <3>2, <4>3
        <5>4. EndOf(k - 1)' = ptr  BY <1>5, <5>2, <5>3
        <5> QED  BY <4>1, <5>3, <5>4
      <4> QED  BY <4>2, <4>3
    <3> QED  BY <1>4, <2>2, <3>1, <3>2
  <2>3. ptr' = IF listing' = <<>> THEN 0 ELSE EndOf(Len(listing))'
    <3>1. listing' # <<>>  BY <1>1, <1>2
    <3>2. EndOf(Len(listing))' = EndOf(n + 1)'  BY <1>4 DEF EndOf
    <3> QED  BY <1>5, <3>1, <3>2
  <2> QED  BY <2>1, <2>2, <2>3 DEF ListingTilesInput
<1>7. OverrunIsReported'
  <2> SUFFICES ASSUME NEW k \in DOMAIN listing', EndOf(k)' > BytesRead'
               PROVE  k = Len(listing') /\ status' \in {"error", "crashed"}
    BY DEF OverrunIsReported
  <2>1. CASE k \in 1..n
    <3>1. EndOf(k) > BytesRead  BY <1>2, <1>5, <2>1
    <3> QED  BY <1>4, <2>1, <3>1 DEF OverrunIsReported
  <2>2. CASE k = n + 1
    <3>1. ptr' > BytesRead  BY <1>2, <1>5, <2>2
    <3>2. bytes_available < i.inst_num_bytes
      BY <1>1, <1>2, <3>1 DEF ListingTilesInput
    <3> QED  BY <1>1, <1>4, <2>2, <3>2
  <2> QED  BY <1>4, <2>1, <2>2
<1> QED  BY <1>3, <1>6, <1>7

\* A step that only ends the process, or nothing at all, keeps the invariant.
LEMMA EndInv ==
    ASSUME DriverInv, UNCHANGED <<file, residue, bytes_available, ptr, listing>>,
           \/ status' = status
           \/ status' = "error"
           \/ status' = "done" /\ status = "running"
    PROVE  DriverInv'
<1>1. TypeOK'  BY DEF DriverInv, TypeOK
<1>2. BytesRead' = BytesRead /\ \A k : EndOf(k)' = EndOf(k)  BY DEF BytesRead, EndOf
<1>3. ListingTilesInput'  BY <1>2 DEF DriverInv, ListingTilesInput
<1>4. OverrunIsReported'  BY <1>2 DEF DriverInv, OverrunIsReported
<1> QED  BY <1>1, <1>3, <1>4 DEF DriverInv

LEMMA NextInv == DriverInv /\ [Next]_vars => DriverInv'
<1> SUFFICES ASSUME DriverInv, [Next]_vars PROVE DriverInv'  OBVIOUS
<1>1. CASE DecodeFailed  BY <1>1, EndInv DEF DecodeFailed
<1>2. CASE DecodeOne
  <2>1. PICK i \in Decoded :
          IF i.sane
          THEN \/ Decode(i, i.inst_num_bytes,
                         IF bytes_available < i.inst_num_bytes \/ ~Printable(i)
                         THEN "error" ELSE "running")
               \/ i.op = "MAX_INST" /\ Decode(i, i.inst_num_bytes, "crashed")
          ELSE status' = "error"
               /\ UNCHANGED <<file, residue, bytes_available, ptr, listing>>
    BY <1>2 DEF DecodeOne
  <2>2. CanDecode /\ status = "running"  BY <1>2 DEF DecodeOne, CanDecode
  <2>3. i \in Instruction /\ i.inst_num_bytes \in 1..6
    BY <2>2, DecodedType DEF DriverInv
  <2>4. CASE ~i.sane  BY <2>1, <2>4, EndInv
  <2>5. CASE i.sane /\ Decode(i, i.inst_num_bytes, "crashed")
    BY <2>2, <2>3, <2>5, DecodeInv
  <2>6. CASE i.sane /\ Decode(i, i.inst_num_bytes,
                              IF bytes_available < i.inst_num_bytes \/ ~Printable(i)
                              THEN "error" ELSE "running")
    <3> DEFINE next == IF bytes_available < i.inst_num_bytes \/ ~Printable(i)
                       THEN "error" ELSE "running"
    <3>1. /\ next \in {"running", "error", "crashed"}
          /\ bytes_available < i.inst_num_bytes => next # "running"
      OBVIOUS
    <3>2. Decode(i, i.inst_num_bytes, next)  BY <2>6
    <3> HIDE DEF next
    <3> QED  BY <2>2, <2>3, <3>1, <3>2, DecodeInv
  <2> QED  BY <2>1, <2>4, <2>5, <2>6
<1>3. CASE Exit  BY <1>3, EndInv DEF Exit
<1>4. CASE UNCHANGED vars  BY <1>4, EndInv DEF vars
<1> QED  BY <1>1, <1>2, <1>3, <1>4 DEF Next, Terminated

\* The type invariant: whatever the input and whatever lies behind it, every printed
\* instruction is well formed and the counters stay integers.
THEOREM DriverTypeCorrect == Spec => []TypeOK
<1>1. Spec => []DriverInv  BY InitInv, NextInv, PTL DEF Spec
<1>2. DriverInv => TypeOK  BY DEF DriverInv
<1> QED  BY <1>1, <1>2, PTL

\* The printed instructions tile the input from its first byte, without gap or overlap.
THEOREM DriverListingTilesInput == Spec => []ListingTilesInput
<1>1. Spec => []DriverInv  BY InitInv, NextInv, PTL DEF Spec
<1>2. DriverInv => ListingTilesInput  BY DEF DriverInv
<1> QED  BY <1>1, <1>2, PTL

\* An instruction that runs past the input is the last one printed, and the program
\* does not end normally after it.
THEOREM DriverOverrunIsReported == Spec => []OverrunIsReported
<1>1. Spec => []DriverInv  BY InitInv, NextInv, PTL DEF Spec
<1>2. DriverInv => OverrunIsReported  BY DEF DriverInv
<1> QED  BY <1>1, <1>2, PTL

-----------------------------------------------------------------------------
(* Every line is decoded from the bytes at its place.                      *)

LinesAreDecoded ==
    \A k \in DOMAIN listing :
        /\ Decodable(BytesAt(listing[k].at, residue))
        /\ listing[k].inst = decode_bitstream(BytesAt(listing[k].at, residue))

LEMMA DecodedInit == Init => LinesAreDecoded
BY DEF Init, LinesAreDecoded

LEMMA DecodedNext == TypeOK /\ LinesAreDecoded /\ [Next]_vars => LinesAreDecoded'
<1> SUFFICES ASSUME TypeOK, LinesAreDecoded, [Next]_vars PROVE LinesAreDecoded'  OBVIOUS
<1> DEFINE b == BytesAt(ptr, residue)
           line(i) == [at |-> ptr, inst |-> i]
<1>1. ASSUME UNCHANGED <<file, residue, listing>> PROVE LinesAreDecoded'
  BY <1>1 DEF LinesAreDecoded, BytesAt, BytesRead
<1>2. ASSUME NEW i, i = decode_bitstream(b), Decodable(b), i \in Instruction,
             file' = file, residue' = residue, listing' = Append(listing, line(i))
      PROVE  LinesAreDecoded'
  <2>1. /\ listing \in Seq([at : Nat, inst : Instruction]) /\ ptr \in Nat
        /\ line(i) \in [at : Nat, inst : Instruction]
    BY <1>2 DEF TypeOK
  <2>2. PICK n \in Nat : n = Len(listing)  BY <2>1
  <2>3. /\ DOMAIN listing = 1..n /\ DOMAIN listing' = 1..(n + 1)
        /\ \A k \in 1..n : listing'[k] = listing[k]
        /\ listing'[n + 1] = line(i)
    BY <1>2, <2>1, <2>2
  <2>4. \A at, after : BytesAt(at, after)' = BytesAt(at, after)
    BY <1>2 DEF BytesAt, BytesRead
  <2>5. ASSUME NEW k \in 1..(n + 1)
        PROVE  /\ Decodable(BytesAt(listing'[k].at, residue))
               /\ listing'[k].inst = decode_bitstream(BytesAt(listing'[k].at, residue))
    <3>1. CASE k \in 1..n  BY <2>3, <3>1 DEF LinesAreDecoded
    <3>2. CASE k = n + 1  BY <1>2, <2>3, <3>2
    <3> QED  BY <3>1, <3>2
  <2> HIDE DEF b, line
  <2> QED  BY <1>2, <2>3, <2>4, <2>5 DEF LinesAreDecoded
<1>3. CASE DecodeOne
  <2>1. PICK i \in Decoded :
          \/ \E s \in {"error", "running", "crashed"} : Decode(i, i.inst_num_bytes, s)
          \/ status' = "error" /\ UNCHANGED <<file, residue, bytes_available, ptr, listing>>
    BY <1>3 DEF DecodeOne
  <2>2. CanDecode /\ i \in Instruction  BY <1>3, DecodedType DEF DecodeOne
  <2>3. i = decode_bitstream(b) /\ Decodable(b)  BY <2>2 DEF CanDecode, Decoded
  <2>4. CASE UNCHANGED <<file, residue, listing>>  BY <1>1, <2>4
  <2>5. CASE file' = file /\ residue' = residue /\ listing' = Append(listing, line(i))
    BY <1>2, <2>2, <2>3, <2>5
  <2> QED  BY <2>1, <2>4, <2>5 DEF Decode
<1>4. CASE DecodeFailed \/ Exit \/ Terminated \/ UNCHANGED vars
  BY <1>1, <1>4 DEF DecodeFailed, Exit, Terminated, vars
<1> QED  BY <1>3, <1>4 DEF Next

\* After a normal exit no line reaches beyond the input, so that its bytes are the
\* input's and the line is the same whatever follows the input in the buffer.
THEOREM DriverListingDependsOnInputOnly == Spec => []ListingDependsOnInputOnly
<1>1. Spec => []DriverInv  BY InitInv, NextInv, PTL DEF Spec
<1>2. Spec => []LinesAreDecoded
  <2>1. DriverInv => TypeOK  BY DEF DriverInv
  <2> QED  BY <1>1, <2>1, DecodedInit, DecodedNext, PTL DEF Spec
<1>3. DriverInv /\ LinesAreDecoded => ListingDependsOnInputOnly
  <2> SUFFICES ASSUME DriverInv, LinesAreDecoded, status = "done",
                      NEW k \in DOMAIN listing, NEW after \in Residues
               PROVE  decode_bitstream(BytesAt(listing[k].at, after)) = listing[k].inst
    BY DEF ListingDependsOnInputOnly
  <2> DEFINE at == listing[k].at
             n == listing[k].inst.inst_num_bytes
             b == BytesAt(at, residue)
             c == BytesAt(at, after)
  <2>1. /\ file \in Files /\ residue \in Residues /\ BytesRead \in Nat
        /\ listing \in Seq([at : Nat, inst : Instruction])
    BY BytesReadType DEF DriverInv, TypeOK
  <2>2. at \in Nat /\ n \in 0..6
    <3>0. k \in 1..Len(listing)  BY <2>1
    <3>1. listing[k] \in [at : Nat, inst : Instruction]  BY <2>1, <3>0, ElementOfSeq
    <3>2. \A i \in Instruction : i.inst_num_bytes \in 0..6  BY DEF Instruction
    <3> QED  BY <3>1, <3>2
  <2>3. b \in [Window -> Byte] /\ c \in [Window -> Byte]  BY <2>1, <2>2, BytesAtType
  <2>4. Decodable(b) /\ listing[k].inst = decode_bitstream(b)  BY DEF LinesAreDecoded
  <2>5. ~(at + n > BytesRead)  BY DEF DriverInv, OverrunIsReported, EndOf
  <2>6. ASSUME NEW j \in Window, j < n PROVE b[j] = c[j]
    <3>1. at + j < BytesRead
      <4> HIDE DEF at, n
      <4>1. j \in Int  BY DEF Window
      <4> QED  BY <2>1, <2>2, <2>5, <2>6, <4>1
    <3> QED  BY <3>1 DEF BytesAt
  <2>7. decode_bitstream(c) = decode_bitstream(b)
    <3> HIDE DEF b, c
    <3> QED  BY <2>3, <2>4, <2>6, DecodedInstructionIsItsBytes
  <2> QED  BY <2>4, <2>7
<1> QED  BY <1>1, <1>2, <1>3, PTL

-----------------------------------------------------------------------------
(* The rows of the table are the opcodes of the encoding.                  *)

\* The opcodes of each row of op_cmds, and the row of each opcode.
RowOpcodes ==
    <<136..139, 198..199, 176..191, 160..161, 162..163, 142..142, 140..140, 0..3,
      128..131, 4..5, 40..43, 44..45, 56..59, 60..61, 112..127, 224..227>>
RowNumber(byte) ==
    CASE byte \in 136..139 -> 1 [] byte \in 198..199 -> 2 [] byte \in 176..191 -> 3
      [] byte \in 160..161 -> 4 [] byte \in 162..163 -> 5 [] byte = 142 -> 6
      [] byte = 140 -> 7 [] byte \in 0..3 -> 8 [] byte \in 128..131 -> 9
      [] byte \in 4..5 -> 10 [] byte \in 40..43 -> 11 [] byte \in 44..45 -> 12
      [] byte \in 56..59 -> 13 [] byte \in 60..61 -> 14 [] byte \in 112..127 -> 15
      [] OTHER -> 16

LEMMA RowMatches ==
    ASSUME NEW byte \in Byte, NEW n \in 1..16
    PROVE  Matches(op_cmds[n], byte) <=> byte \in RowOpcodes[n]
<1> USE ByteBounds DEF Matches, Row, op_cmds, RowOpcodes
<1>1. CASE n = 1  BY <1>1 DEF mov1_op
<1>2. CASE n = 2  BY <1>2 DEF mov2_op
<1>3. CASE n = 3  BY <1>3 DEF mov3_op
<1>4. CASE n = 4  BY <1>4 DEF mov4_op
<1>5. CASE n = 5  BY <1>5 DEF mov5_op
<1>6. CASE n = 6  BY <1>6 DEF mov6_op
<1>7. CASE n = 7  BY <1>7 DEF mov7_op
<1>8. CASE n = 8  BY <1>8 DEF add1_op
<1>9. CASE n = 9  BY <1>9 DEF multi1_op
<1>10. CASE n = 10  BY <1>10 DEF add2_op
<1>11. CASE n = 11  BY <1>11 DEF sub1_op
<1>12. CASE n = 12  BY <1>12 DEF sub2_op
<1>13. CASE n = 13  BY <1>13 DEF cmp1_op
<1>14. CASE n = 14  BY <1>14 DEF cmp2_op
<1>15. CASE n = 15  BY <1>15 DEF jump_op
<1>16. CASE n = 16  BY <1>16 DEF loop_op
<1> QED  BY <1>1, <1>2, <1>3, <1>4, <1>5, <1>6, <1>7, <1>8, <1>9, <1>10, <1>11, <1>12,
            <1>13, <1>14, <1>15, <1>16

LEMMA RowIsUnique ==
    ASSUME NEW byte \in Byte, NEW n \in 1..16, byte \in RowOpcodes[n]
    PROVE  RowNumber(byte) = n
BY DEF RowOpcodes, RowNumber

LEMMA RowsAreOpcodes ==
    ASSUME NEW byte \in Byte
    PROVE  byte \in Opcodes <=> \E n \in 1..16 : byte \in RowOpcodes[n]
<1>1. ASSUME NEW n \in 1..16, byte \in RowOpcodes[n] PROVE byte \in Opcodes
  BY <1>1 DEF RowOpcodes, Opcodes, RegMemClass, ImmediateToRegMem, ImmediateToRegister,
              ImmediateToAccumulator, AccumulatorMemory, SegmentMove, Short
<1>2. ASSUME byte \in Opcodes PROVE byte \in RowOpcodes[RowNumber(byte)] /\ RowNumber(byte) \in 1..16
  BY <1>2 DEF RowNumber, RowOpcodes, Opcodes, RegMemClass, ImmediateToRegMem, ImmediateToRegister,
              ImmediateToAccumulator, AccumulatorMemory, SegmentMove, Short
<1> QED  BY <1>1, <1>2

\* An instruction is decodable when its first byte is an opcode of the encoding, and the
\* row that decodes it is the one its opcode belongs to.
LEMMA FirstMatchIsRow ==
    ASSUME NEW b \in [Window -> Byte]
    PROVE  /\ Decodable(b) <=> b[0] \in Opcodes
           /\ Decodable(b) => /\ FirstMatch(b[0]) \in 1..16
                              /\ b[0] \in RowOpcodes[FirstMatch(b[0])]
<1>1. b[0] \in Byte  BY DEF Window
<1>2. Len(op_cmds) = 16  BY DEF op_cmds
<1>3. \A n \in 1..16 : n \in Matching(b[0]) <=> b[0] \in RowOpcodes[n]
  BY <1>1, <1>2, RowMatches DEF Matching
<1>4. Matching(b[0]) \subseteq 1..16  BY <1>2 DEF Matching
<1>5. Decodable(b) <=> b[0] \in Opcodes  BY <1>1, <1>3, <1>4, RowsAreOpcodes DEF Decodable
<1>6. ASSUME Decodable(b)
      PROVE  FirstMatch(b[0]) \in Matching(b[0])
  <2>1. PICK n \in Matching(b[0]) : TRUE  BY <1>6 DEF Decodable
  <2>2. \A m \in Matching(b[0]) : m = n
    BY <1>1, <1>3, <1>4, RowIsUnique
  <2>3. \E k \in Matching(b[0]) : \A m \in Matching(b[0]) : k <= m
    BY <1>4, <2>1, <2>2
  <2> QED  BY <2>3 DEF FirstMatch
<1> QED  BY <1>3, <1>4, <1>5, <1>6

-----------------------------------------------------------------------------
(* The fields and the operands are those of the encoding.                  *)

\* The fields of a byte, by division.
LEMMA FieldValues ==
    ASSUME NEW byte \in Byte
    PROVE  /\ Field(byte, 0, 2) = byte % 2
           /\ Field(byte, 1, 2) = (byte \div 2) % 2
           /\ Field(byte, 3, 2) = (byte \div 8) % 2
           /\ Field(byte, 0, 8) = byte % 8
           /\ Field(byte, 3, 8) = (byte \div 8) % 8
           /\ Field(byte, 6, 4) = byte \div 64
           /\ Field(byte, 3, 4) = ((byte \div 8) % 8) % 4
<1>1. byte \in Int /\ 0 <= byte /\ byte <= 255  BY ByteBounds
<1>2. Shl[0 + 1] = 1 /\ Shl[1 + 1] = 2 /\ Shl[3 + 1] = 8 /\ Shl[6 + 1] = 64  BY DEF Shl
<1>3. Field(byte, 0, 2) = byte % 2 /\ Field(byte, 0, 8) = byte % 8
  BY <1>1, <1>2 DEF Field
<1>4. /\ Field(byte, 1, 2) = (byte \div 2) % 2 /\ Field(byte, 3, 2) = (byte \div 8) % 2
      /\ Field(byte, 3, 8) = (byte \div 8) % 8
  BY <1>2 DEF Field
<1>5. Field(byte, 6, 4) = byte \div 64
  <2>1. byte \div 64 \in 0..3  BY <1>1
  <2>2. \A q \in 0..3 : q % 4 = q  OBVIOUS
  <2> QED  BY <1>2, <2>1, <2>2 DEF Field
<1>6. Field(byte, 3, 4) = ((byte \div 8) % 8) % 4
  <2>1. byte \div 8 \in Nat  BY <1>1
  <2>2. \A q \in Nat : q % 4 = (q % 8) % 4  OBVIOUS
  <2> QED  BY <1>2, <2>1, <2>2 DEF Field
<1> QED  BY <1>3, <1>4, <1>5, <1>6

\* The fields of the register byte.
LEMMA RegisterByteFields ==
    ASSUME NEW b \in [Window -> Byte]
    PROVE  /\ Mod(b) \in 0..3 /\ Reg(b) \in 0..7 /\ RM(b) \in 0..7
           /\ Field(b[1], 6, 4) = Mod(b) /\ Field(b[1], 0, 8) = RM(b)
           /\ Field(b[1], 3, 8) = Reg(b) /\ Field(b[1], 3, 4) = Reg(b) % 4
<1>1. b[1] \in Byte  BY DEF Window
<1>2. b[1] \in Int /\ 0 <= b[1] /\ b[1] <= 255  BY <1>1, ByteBounds
<1>3. Mod(b) \in 0..3 /\ Reg(b) \in 0..7 /\ RM(b) \in 0..7  BY <1>2 DEF Mod, Reg, RM
<1> QED  BY <1>1, <1>3, FieldValues DEF Mod, Reg, RM

\* The places of the decoded operands.
LEMMA PlacesOfOperands ==
    /\ \A r \in 0..7, w \in 0..1 :
          PlaceOf(RegOperand(r, w)) = InRegister(NameOf(r, w = 1))
    /\ \A r \in 0..3 :
          PlaceOf(SegOperand(r))
             = InRegister(<<"SEG_REG_ES", "SEG_REG_CS", "SEG_REG_SS", "SEG_REG_DS">>[r + 1])
    /\ \A a : PlaceOf(DirectOperand(a)) = InMemory({}, a)
    /\ \A rm \in 0..7 : \A a : PlaceOf(EffectiveOperand(rm, a)) = InMemory(BaseOf[rm + 1], a)
    /\ \A r : PlaceOf(NamedRegister(r)) = InRegister(r)
    /\ PlaceOf(DataOperand) = Immediate
<1> USE DEF NoOperand, PlaceOf
<1>1. ASSUME NEW r \in 0..7, NEW w \in 0..1
      PROVE  PlaceOf(RegOperand(r, w)) = InRegister(NameOf(r, w = 1))
  <2>1. RegOperand(r, w).type = "TYPE_REGISTER"
        /\ RegOperand(r, w).register = register_map[r][w]
    BY DEF RegOperand
  <2>2. register_map[r][w] = NameOf(r, w = 1)
    BY DEF register_map, NameOf, WordRegister, ByteRegister
  <2> QED  BY <2>1, <2>2
<1>2. ASSUME NEW r \in 0..3
      PROVE  PlaceOf(SegOperand(r))
                = InRegister(<<"SEG_REG_ES", "SEG_REG_CS", "SEG_REG_SS", "SEG_REG_DS">>[r + 1])
  <2>1. SegOperand(r).type = "TYPE_SEGMENT_REGISTER"
        /\ SegOperand(r).seg_register = segment_register_map[r]
    BY DEF SegOperand
  <2> QED  BY <2>1 DEF segment_register_map
<1>3. ASSUME NEW a PROVE PlaceOf(DirectOperand(a)) = InMemory({}, a)
  <2>1. DirectOperand(a).type = "TYPE_DIRECT_ADDRESS" /\ DirectOperand(a).direct_address = a
    BY DEF DirectOperand
  <2> QED  BY <2>1
<1>4. ASSUME NEW rm \in 0..7, NEW a
      PROVE  PlaceOf(EffectiveOperand(rm, a)) = InMemory(BaseOf[rm + 1], a)
  <2>1. /\ EffectiveOperand(rm, a).type = "TYPE_EFFECTIVE_ADDRESS"
        /\ EffectiveOperand(rm, a).effective_reg1 = mod_effective_address_map[rm][1]
        /\ EffectiveOperand(rm, a).effective_reg2 = mod_effective_address_map[rm][2]
        /\ EffectiveOperand(rm, a).effective_displacement = a
    BY DEF EffectiveOperand
  <2>2. {mod_effective_address_map[rm][1], mod_effective_address_map[rm][2]} \ {"MAX_REG"}
           = BaseOf[rm + 1]
    BY DEF mod_effective_address_map, BaseOf
  <2> QED  BY <2>1, <2>2
<1>5. ASSUME NEW r PROVE PlaceOf(NamedRegister(r)) = InRegister(r)
  <2>1. NamedRegister(r).type = "TYPE_REGISTER" /\ NamedRegister(r).register = r
    BY DEF NamedRegister
  <2> QED  BY <2>1
<1>6. PlaceOf(DataOperand) = Immediate
  <2>1. DataOperand.type = "TYPE_DATA"  BY DEF DataOperand
  <2> QED  BY <2>1
<1> QED  BY <1>1, <1>2, <1>3, <1>4, <1>5, <1>6

\* The types of the decoded operands.
LEMMA TypesOfOperands ==
    /\ \A r, w : RegOperand(r, w).type = "TYPE_REGISTER"
    /\ \A r : SegOperand(r).type = "TYPE_SEGMENT_REGISTER"
    /\ \A a : DirectOperand(a).type = "TYPE_DIRECT_ADDRESS"
    /\ \A rm, a : EffectiveOperand(rm, a).type = "TYPE_EFFECTIVE_ADDRESS"
    /\ \A r : NamedRegister(r).type = "TYPE_REGISTER"
    /\ DataOperand.type = "TYPE_DATA"
BY DEF NoOperand, RegOperand, SegOperand, DirectOperand, EffectiveOperand, NamedRegister,
       DataOperand

\* The operand of the R/M field, and the displacement that belongs to it.
Displacement(f, b) ==
    IF DisplacementBytes(f) = 0 THEN 0 ELSE extract_displacement(b, 2, f.mod = 2)
RMOperand(f, b) ==
    IF is_register_mode(f) THEN RegOperand(f.rm, f.w)
    ELSE EffectiveOperand(f.rm, Displacement(f, b))

\* The R/M field names the place of the encoding, unless it is a direct address.
LEMMA RMOperandPlace ==
    ASSUME NEW b \in [Window -> Byte], NEW f, f.mod = Mod(b), f.rm = RM(b),
           f.w \in 0..1, Wide(b) <=> f.w = 1, ~IsDirect(b)
    PROVE  PlaceOf(RMOperand(f, b)) = RMPlace(b)
<1>1. Mod(b) \in 0..3 /\ RM(b) \in 0..7  BY RegisterByteFields
<1>3. CASE Mod(b) = 3
  <2>1. PlaceOf(RegOperand(f.rm, f.w)) = InRegister(NameOf(RM(b), f.w = 1))
    BY <1>1, PlacesOfOperands
  <2>2. NameOf(RM(b), f.w = 1) = NameOf(RM(b), Wide(b))  BY DEF NameOf
  <2> QED  BY <1>3, <2>1, <2>2 DEF RMOperand, is_register_mode, RMPlace
<1>4. CASE Mod(b) # 3
  <2>1. PlaceOf(RMOperand(f, b)) = InMemory(BaseOf[RM(b) + 1], Displacement(f, b))
    BY <1>1, <1>4, PlacesOfOperands DEF RMOperand, is_register_mode
  <2>2. CASE Mod(b) = 0
    BY <2>1, <2>2 DEF Displacement, DisplacementBytes, is_direct_access, IsDirect, RMPlace
  <2>3. CASE Mod(b) = 1
    <3>1. Displacement(f, b) = SignExtend(b[2])
      BY <2>3 DEF Displacement, DisplacementBytes, is_direct_access, extract_displacement
    <3>2. SignExtend(b[2]) = (IF b[2] < 128 THEN 0 ELSE 65280) + b[2]
      <4>1. b[2] \in Byte  BY DEF Window
      <4>2. b[2] \in Int  BY <4>1, ByteBounds
      <4> QED  BY <4>2 DEF SignExtend
    <3> QED  BY <2>1, <2>3, <3>1, <3>2 DEF RMPlace, IsDirect
  <2>4. CASE Mod(b) = 2
    <3>1. Displacement(f, b) = 256 * b[3] + b[2]
      BY <2>4 DEF Displacement, DisplacementBytes, is_direct_access, extract_displacement,
                  Word16
    <3> QED  BY <2>1, <2>4, <3>1 DEF RMPlace, IsDirect
  <2> QED  BY <1>1, <1>4, <2>2, <2>3, <2>4
<1> QED  BY <1>3, <1>4

-----------------------------------------------------------------------------
(* The stages of parse_instruction.                                        *)

\* A sound decoding of the bytes: no sanity check fails, and length, operands and
\* immediate are those of the encoding.
Faithful(i, b) ==
    /\ i.sane /\ Printable(i)
    /\ i.inst_num_bytes = RefLength(b)
    /\ \/ StoresToDirectAddress(b) \/ b[0] \in Short
       \/ <<PlaceOf(i.dst), PlaceOf(i.src)>> = RefOperands(b)
    /\ ImmediateBytes(b) > 0 => i.src_data = RefImmediate(b)

\* After the opcode and the register byte there are no operands yet.
LEMMA OpcodeBytesAre ==
    ASSUME NEW cmd, Sound(cmd), NEW b \in [Window -> Byte]
    PROVE  LET i == OpcodeBytes(cmd, b)
           IN  /\ i \in Within(1, 2) /\ i \in Instruction
               /\ i.inst_num_bytes = IF "op_has_register_byte" \in cmd.has THEN 2 ELSE 1
               /\ i.sane /\ ~i.inst_is_short_w_data
<1>1. /\ OpcodeBytes(cmd, b).inst_num_bytes
            = IF "op_has_register_byte" \in cmd.has THEN 2 ELSE 1
      /\ OpcodeBytes(cmd, b).sane /\ ~OpcodeBytes(cmd, b).inst_is_short_w_data
  BY DEF OpcodeBytes, reset_instruction
<1> QED  BY <1>1, OpcodeBytesType DEF Within, ProperInstruction

\* The length of a displacement or an address.
LEMMA DisplacementIsAddressBytes ==
    ASSUME NEW b, NEW f, f.mod = Mod(b), f.rm = RM(b), b[0] \in HasRegisterByte
    PROVE  /\ DisplacementBytes(f) = AddressBytes(b) /\ AddressBytes(b) \in 0..2
           /\ is_direct_access(f) <=> IsDirect(b)
BY DEF DisplacementBytes, AddressBytes, is_direct_access, IsDirect

\* A row between register and memory: the direction flag orders the operands, but for a
\* direct address.
LEMMA RegMemOperands ==
    ASSUME NEW cmd, cmd.has = RegMem, NEW b, NEW f, NEW i \in Instruction,
           i.inst_num_bytes = 2
    PROVE  LET o == Operands(cmd, f, b, i)
               reg == RegOperand(f.reg, f.w)
           IN  /\ o.inst_num_bytes = 2 + DisplacementBytes(f)
               /\ o.sane /\ o.inst_is_short_w_data = i.inst_is_short_w_data
               /\ o.dst = IF is_direct_access(f) \/ f.d = 1 THEN reg ELSE RMOperand(f, b)
               /\ o.src = IF is_direct_access(f) THEN DirectOperand(Word16(b[2], b[3]))
                          ELSE IF f.d = 1 THEN RMOperand(f, b) ELSE reg
<1> DEFINE m == ModOperands(cmd, f, b, i)
           reg == RegOperand(f.reg, f.w)
           after == [i EXCEPT !.inst_num_bytes = @ + DisplacementBytes(f)]
<1>1. Operands(cmd, f, b, i) = [m EXCEPT !.sane = TRUE]
  BY DEF Operands, RegMem
<1>2. /\ after.inst_num_bytes = 2 + DisplacementBytes(f)
      /\ after.inst_is_short_w_data = i.inst_is_short_w_data
      /\ DOMAIN after = DOMAIN i
  BY DEF Instruction
<1>3. m = IF is_direct_access(f) THEN DirectAccess(cmd, f, b, after)
          ELSE RegisterOrMemory(cmd, f, RMOperand(f, b), after)
  BY DEF ModOperands, RMOperand, Displacement
<1> HIDE DEF after, m
<1>4. DirectAccess(cmd, f, b, after)
        = [after EXCEPT !.src = DirectOperand(Word16(b[2], b[3])), !.dst = reg]
  BY DEF DirectAccess, RegMem, extract_direct_address
<1>5. RegisterOrMemory(cmd, f, RMOperand(f, b), after)
        = IF f.d = 1 THEN [after EXCEPT !.dst = reg, !.src = RMOperand(f, b)]
          ELSE [after EXCEPT !.dst = RMOperand(f, b), !.src = reg]
  BY DEF RegisterOrMemory, RegMem
<1> HIDE DEF reg
<1>6. {"dst", "src", "sane", "inst_num_bytes", "inst_is_short_w_data"} \subseteq DOMAIN after
  BY <1>2 DEF Instruction
<1> QED  BY <1>1, <1>2, <1>3, <1>4, <1>5, <1>6 DEF reg

\* A row without immediate, accumulator or offset leaves the operands as they are.
LEMMA NothingMore ==
    ASSUME NEW cmd, NEW f, NEW b, NEW i,
           {"op_has_hardcoded_dst", "op_has_hardcoded_src"} \cap cmd.has = {}
    PROVE  /\ Hardcoded(cmd, f, b, i) = i
           /\ "op_has_data_bytes" \notin cmd.has => DataBytes(cmd, f, b, i) = i
           /\ "is_short_instruction" \notin cmd.has => ShortData(cmd, b, i) = i
BY DEF Hardcoded, DataBytes, ShortData

\* The moves and the arithmetic between register and memory.
LEMMA RegMemFaithful ==
    ASSUME NEW cmd, Sound(cmd), cmd.has = RegMem, cmd.w_flag_shift = 0,
           cmd.reg_field_shift = 3, NEW b \in [Window -> Byte], b[0] \in RegMemClass
    PROVE  Faithful(parse_instruction(cmd, b), b)
<1> DEFINE f == Fields(cmd, b)
           i == OpcodeBytes(cmd, b)
           o == Operands(cmd, f, b, i)
           reg == RegOperand(f.reg, f.w)
<1>1. /\ i \in Instruction /\ i.inst_num_bytes = 2 /\ ~i.inst_is_short_w_data
  BY OpcodeBytesAre DEF RegMem
<1>2. parse_instruction(cmd, b) = o
  <2> HIDE DEF o
  <2>1. Hardcoded(cmd, f, b, o) = o /\ DataBytes(cmd, f, b, o) = o /\ ShortData(cmd, b, o) = o
    BY NothingMore DEF RegMem
  <2> QED  BY <2>1 DEF parse_instruction, o
<1>3. b[0] \in Byte /\ b[1] \in Byte  BY DEF Window
<1>4. /\ f.mod = Mod(b) /\ f.rm = RM(b) /\ f.reg = Reg(b)
      /\ f.w = b[0] % 2 /\ f.d = (b[0] \div 2) % 2
  BY <1>3, FieldValues, RegisterByteFields DEF Fields, RegMem
<1>5. f.w \in 0..1 /\ f.d \in 0..1 /\ f.reg \in 0..7  BY FieldsType DEF FieldsOf
<1> HIDE DEF f, i
<1>6. /\ o.inst_num_bytes = 2 + DisplacementBytes(f)
      /\ o.sane /\ ~o.inst_is_short_w_data
      /\ o.dst = IF is_direct_access(f) \/ f.d = 1 THEN reg ELSE RMOperand(f, b)
      /\ o.src = IF is_direct_access(f) THEN DirectOperand(Word16(b[2], b[3]))
                 ELSE IF f.d = 1 THEN RMOperand(f, b) ELSE reg
  BY <1>1, RegMemOperands
<1> HIDE DEF o
<1>7. b[0] \in HasRegisterByte /\ b[0] \notin SegmentMove \cup ImmediateToRegMem
      /\ b[0] \notin ImmediateToRegister \cup ImmediateToAccumulator
      /\ b[0] \notin AccumulatorMemory \cup Short
  BY <1>3 DEF HasRegisterByte, RegMemClass, SegmentMove, ImmediateToRegMem,
         ImmediateToRegister, ImmediateToAccumulator, AccumulatorMemory, Short, Byte
<1>8. /\ ImmediateBytes(b) = 0 /\ RefLength(b) = 2 + AddressBytes(b)
      /\ Wide(b) <=> f.w = 1
  BY <1>4, <1>7 DEF ImmediateBytes, RefLength, Wide, ImmediateToRegMem, AddressBytes
<1>9. /\ DisplacementBytes(f) = AddressBytes(b) /\ AddressBytes(b) \in 0..2
      /\ is_direct_access(f) <=> IsDirect(b)
  BY <1>4, <1>7, DisplacementIsAddressBytes
<1>10. PlaceOf(reg) = RegPlace(b)
  BY <1>4, <1>5, <1>8, PlacesOfOperands DEF RegPlace, NameOf
<1>11. ~IsDirect(b) => PlaceOf(RMOperand(f, b)) = RMPlace(b)
  BY <1>4, <1>5, <1>8, RMOperandPlace
<1>12. IsDirect(b) => PlaceOf(DirectOperand(Word16(b[2], b[3]))) = RMPlace(b)
  BY PlacesOfOperands DEF RMPlace, IsDirect, Word16
<1>13. RefOperands(b) = IF f.d = 1 THEN <<RegPlace(b), RMPlace(b)>>
                        ELSE <<RMPlace(b), RegPlace(b)>>
  <2>1. b[0] \notin {160, 161, 162, 163, 142, 140}
    BY <1>7 DEF AccumulatorMemory, SegmentMove
  <2> QED  BY <1>4, <1>7, <2>1 DEF RefOperands
<1>14. StoresToDirectAddress(b) \/ <<PlaceOf(o.dst), PlaceOf(o.src)>> = RefOperands(b)
  <2>1. IsDirect(b) /\ f.d # 1 => StoresToDirectAddress(b)
    BY <1>4, <1>5 DEF StoresToDirectAddress
  <2> QED  BY <1>6, <1>9, <1>10, <1>11, <1>12, <1>13, <2>1
<1>15. Printable(o)
  <2>1. \A x \in {reg, RMOperand(f, b), DirectOperand(Word16(b[2], b[3]))} :
          x.type \notin {"TYPE_DATA", "MAX_TYPE"}
    BY TypesOfOperands DEF RMOperand
  <2>2. {o.dst, o.src} \subseteq {reg, RMOperand(f, b), DirectOperand(Word16(b[2], b[3]))}
    BY <1>6
  <2> HIDE DEF reg
  <2> QED  BY <2>1, <2>2 DEF Printable, IsDestination
<1> QED  BY <1>2, <1>6, <1>8, <1>9, <1>14, <1>15 DEF Faithful

\* The immediate is read where the encoding has it, with its width and its extension.
LEMMA ImmediateAppended ==
    ASSUME NEW cmd, NEW f, NEW b, NEW i \in Instruction,
           {"op_has_data_bytes", "byte1_has_w_flag"} \subseteq cmd.has,
           "is_short_instruction" \notin cmd.has,
           i.sane, ~i.inst_is_short_w_data, IsDestination(i.dst), i.src = DataOperand,
           ImmediateBytes(b) \in {1, 2}, RefLength(b) = i.inst_num_bytes + ImmediateBytes(b),
           DataIs8bit(cmd, f) <=> ImmediateBytes(b) = 1,
           ImmediateBytes(b) = 1 => (DataIsSigned(cmd, f) <=> b[0] # 128)
    PROVE  LET o == ShortData(cmd, b, DataBytes(cmd, f, b, i))
           IN  /\ o.sane /\ Printable(o) /\ o.inst_num_bytes = RefLength(b)
               /\ o.dst = i.dst /\ o.src = i.src /\ o.src_data = RefImmediate(b)
<1> DEFINE at == i.inst_num_bytes
           data == extract_data(b, at, DataIs8bit(cmd, f), DataIsSigned(cmd, f))
           n == IF DataIs8bit(cmd, f) THEN 1 ELSE 2
           decorators == DataDecorators(cmd, f, i.dst)
           sane == i.sane /\ "byte1_has_w_flag" \in cmd.has
                     /\ (ChecksDestination(cmd, f) => IsDestination(i.dst))
           o == [i EXCEPT !.src_data = data, !.inst_num_bytes = at + n,
                          !.decorators = decorators, !.sane = sane]
<1>1. ShortData(cmd, b, DataBytes(cmd, f, b, i)) = o
  <2>1. DataBytes(cmd, f, b, i) = o  BY DEF DataBytes
  <2> HIDE DEF o
  <2> QED  BY <2>1 DEF ShortData
<1>2. n = ImmediateBytes(b) /\ sane  OBVIOUS
<1>3. at \in Nat /\ RefLength(b) - ImmediateBytes(b) = at  BY DEF Instruction
<1>4. data = RefImmediate(b)
  <2>1. CASE ImmediateBytes(b) = 2
    BY <1>3, <2>1 DEF extract_data, RefImmediate, Word16
  <2>2. CASE ImmediateBytes(b) = 1
    <3>1. data = IF b[0] # 128 THEN SignExtend(b[at]) ELSE b[at]
      BY <2>2 DEF extract_data
    <3> QED  BY <1>3, <2>2, <3>1 DEF RefImmediate, SignExtend
  <2> QED  BY <2>1, <2>2
<1> HIDE DEF at, data, n, sane, decorators
<1>5. /\ o.src_data = data /\ o.inst_num_bytes = at + n /\ o.sane = sane
      /\ o.dst = i.dst /\ o.src = i.src
  BY DEF Instruction
<1>6. Printable(o)
  BY <1>5, TypesOfOperands DEF Printable, IsDestination
<1> HIDE DEF o
<1> QED  BY <1>1, <1>2, <1>4, <1>5, <1>6 DEF at

\* A row between an immediate and register or memory.
LEMMA ImmediateOperands ==
    ASSUME NEW cmd, NEW b, NEW f, NEW i \in Instruction, i.inst_num_bytes = 2,
           {"byte2_has_mod_field", "byte2_has_rm_field", "op_has_data_bytes"} \subseteq cmd.has,
           {"byte2_has_sr_field", "byte1_has_d_flag", "byte1_has_reg_field",
            "byte2_has_reg_field"} \cap cmd.has = {}
    PROVE  LET o == Operands(cmd, f, b, i)
           IN  /\ o.inst_num_bytes = 2 + DisplacementBytes(f)
               /\ o.sane /\ o.inst_is_short_w_data = i.inst_is_short_w_data
               /\ o.dst = IF is_direct_access(f) THEN DirectOperand(Word16(b[2], b[3]))
                          ELSE RMOperand(f, b)
               /\ o.src = DataOperand
<1> DEFINE m == ModOperands(cmd, f, b, i)
           after == [i EXCEPT !.inst_num_bytes = @ + DisplacementBytes(f)]
           address == DirectOperand(Word16(b[2], b[3]))
<1>1. Operands(cmd, f, b, i) = [m EXCEPT !.sane = TRUE]  BY DEF Operands
<1>2. /\ after.inst_num_bytes = 2 + DisplacementBytes(f)
      /\ after.inst_is_short_w_data = i.inst_is_short_w_data
      /\ DOMAIN after = DOMAIN i
  BY DEF Instruction
<1>3. m = IF is_direct_access(f) THEN DirectAccess(cmd, f, b, after)
          ELSE RegisterOrMemory(cmd, f, RMOperand(f, b), after)
  BY DEF ModOperands, RMOperand, Displacement
<1> HIDE DEF after, m
<1>4. DirectAccess(cmd, f, b, after) = [after EXCEPT !.dst = address, !.src = DataOperand]
  BY DEF DirectAccess, extract_direct_address
<1>5. RegisterOrMemory(cmd, f, RMOperand(f, b), after)
        = [after EXCEPT !.dst = RMOperand(f, b), !.src = DataOperand]
  BY DEF RegisterOrMemory
<1> HIDE DEF address
<1>6. {"dst", "src", "sane", "inst_num_bytes", "inst_is_short_w_data"} \subseteq DOMAIN after
  BY <1>2 DEF Instruction
<1> QED  BY <1>1, <1>2, <1>3, <1>4, <1>5, <1>6 DEF address

\* The moves and the arithmetic of an immediate with register or memory: the byte of an
\* operation without sign flag (mov) is extended, that of the unsigned byte operation of
\* the arithmetic group is not.
LEMMA ImmediateFaithful ==
    ASSUME NEW cmd \in {mov2_op, multi1_op}, Sound(cmd), NEW b \in [Window -> Byte],
           cmd = mov2_op => b[0] \in 198..199, cmd = multi1_op => b[0] \in 128..131
    PROVE  Faithful(parse_instruction(cmd, b), b)
<1> DEFINE f == Fields(cmd, b)
           i == OpcodeBytes(cmd, b)
           o == Operands(cmd, f, b, i)
           p == parse_instruction(cmd, b)
<1>1. /\ {"op_has_register_byte", "byte2_has_mod_field", "byte2_has_rm_field",
          "op_has_data_bytes", "byte1_has_w_flag"} \subseteq cmd.has
      /\ {"byte2_has_sr_field", "byte1_has_d_flag", "byte1_has_reg_field",
          "byte2_has_reg_field", "op_has_hardcoded_dst", "op_has_hardcoded_src",
          "is_short_instruction"} \cap cmd.has = {}
      /\ "byte1_has_s_flag" \in cmd.has <=> cmd = multi1_op
      /\ cmd.w_flag_shift = 0
  BY DEF mov2_op, multi1_op, Row
<1>2. /\ b[0] \in Byte /\ b[1] \in Byte
      /\ cmd = mov2_op \/ cmd = multi1_op
      /\ b[0] \in {128, 129, 130, 131, 198, 199}
      /\ cmd = multi1_op <=> b[0] \in 128..131
  BY DEF Window
<1>3. /\ f.mod = Mod(b) /\ f.rm = RM(b) /\ f.w = b[0] % 2
      /\ cmd = multi1_op => f.s = (b[0] \div 2) % 2
  BY <1>1, <1>2, FieldValues, RegisterByteFields DEF Fields
<1>4. f \in FieldsOf /\ f.w \in 0..1  BY FieldsType DEF FieldsOf
<1>5. i \in Within(1, 2) /\ i \in Instruction /\ i.inst_num_bytes = 2 /\ ~i.inst_is_short_w_data
  BY <1>1, OpcodeBytesAre
<1>6. p = ShortData(cmd, b, DataBytes(cmd, f, b, o))
  <2> HIDE DEF o
  <2>1. Hardcoded(cmd, f, b, o) = o  BY <1>1, NothingMore
  <2> QED  BY <2>1 DEF parse_instruction, o
<1> HIDE DEF f, i, p
<1>7. o \in Instruction  BY <1>4, <1>5, OperandsType DEF Within, ProperInstruction
<1>8. /\ o.inst_num_bytes = 2 + DisplacementBytes(f)
      /\ o.sane /\ ~o.inst_is_short_w_data
      /\ o.dst = IF is_direct_access(f) THEN DirectOperand(Word16(b[2], b[3]))
                 ELSE RMOperand(f, b)
      /\ o.src = DataOperand
  BY <1>1, <1>5, ImmediateOperands
<1> HIDE DEF o
<1>9. /\ b[0] \in HasRegisterByte /\ b[0] \in ImmediateToRegMem
      /\ b[0] \notin RegMemClass \cup SegmentMove \cup AccumulatorMemory
      /\ b[0] \notin ImmediateToRegister \cup ImmediateToAccumulator \cup Short
  BY <1>2 DEF HasRegisterByte, RegMemClass, SegmentMove, ImmediateToRegMem,
         ImmediateToRegister, ImmediateToAccumulator, AccumulatorMemory, Short
<1>10. Wide(b) <=> f.w = 1  BY <1>3, <1>9 DEF Wide
<1>11. /\ ImmediateBytes(b) \in {1, 2}
       /\ ImmediateBytes(b) = 1 <=> b[0] \notin {129, 199}
  BY <1>2, <1>9 DEF ImmediateBytes, Wide
<1>12. RefLength(b) = 2 + AddressBytes(b) + ImmediateBytes(b)
  BY <1>9, <1>11 DEF RefLength, AddressBytes
<1>13. /\ DisplacementBytes(f) = AddressBytes(b) /\ AddressBytes(b) \in 0..2
       /\ is_direct_access(f) <=> IsDirect(b)
  BY <1>3, <1>9, DisplacementIsAddressBytes
<1>14. DataIs8bit(cmd, f) <=> ImmediateBytes(b) = 1
  BY <1>1, <1>2, <1>3, <1>11 DEF DataIs8bit
<1>15. ImmediateBytes(b) = 1 => (DataIsSigned(cmd, f) <=> b[0] # 128)
  BY <1>1, <1>2, <1>3, <1>11 DEF DataIsSigned
<1>16. IsDestination(o.dst)
  BY <1>8, TypesOfOperands DEF IsDestination, RMOperand
<1>17. /\ p.sane /\ Printable(p) /\ p.inst_num_bytes = RefLength(b)
       /\ p.dst = o.dst /\ p.src = o.src /\ p.src_data = RefImmediate(b)
  <2>1. RefLength(b) = o.inst_num_bytes + ImmediateBytes(b)  BY <1>8, <1>12, <1>13
  <2> QED  BY <1>1, <1>6, <1>7, <1>8, <1>11, <1>14, <1>15, <1>16, <2>1, ImmediateAppended
<1>18. PlaceOf(p.dst) = RMPlace(b)
  <2>1. CASE IsDirect(b)
    BY <1>8, <1>13, <1>17, <2>1, PlacesOfOperands DEF RMPlace, IsDirect, Word16
  <2>2. CASE ~IsDirect(b)
    BY <1>3, <1>4, <1>8, <1>10, <1>13, <1>17, <2>2, RMOperandPlace
  <2> QED  BY <2>1, <2>2
<1>19. RefOperands(b) = <<RMPlace(b), Immediate>>
  BY <1>9 DEF RefOperands
<1>20. PlaceOf(p.src) = Immediate  BY <1>8, <1>17, PlacesOfOperands
<1> QED  BY <1>17, <1>18, <1>19, <1>20 DEF Faithful, p

\* The moves of an immediate to a register, whose row has the register and the width in
\* its opcode.
LEMMA ToRegisterFaithful ==
    ASSUME NEW b \in [Window -> Byte], b[0] \in 176..191
    PROVE  Faithful(parse_instruction(mov3_op, b), b)
<1> DEFINE cmd == mov3_op
           f == Fields(cmd, b)
           i == OpcodeBytes(cmd, b)
           o == Operands(cmd, f, b, i)
           p == parse_instruction(cmd, b)
<1>1. /\ cmd.has = {"op_has_data_bytes", "byte1_has_w_flag", "byte1_has_reg_field"}
      /\ cmd.w_flag_shift = 3 /\ cmd.reg_field_shift = 0
  BY DEF mov3_op, Row
<1>2. Sound(cmd)  BY RowsAreSound DEF op_cmds
<1> HIDE DEF cmd
<1>3. b[0] \in Byte  BY DEF Window
<1>4. f.w = (b[0] \div 8) % 2 /\ f.reg = b[0] % 8
  BY <1>1, <1>3, FieldValues DEF Fields
<1>5. f \in FieldsOf /\ f.w \in 0..1 /\ f.reg \in 0..7  BY <1>2, FieldsType DEF FieldsOf
<1>6. i \in Within(1, 2) /\ i \in Instruction /\ i.inst_num_bytes = 1 /\ i.sane
      /\ ~i.inst_is_short_w_data
  BY <1>1, <1>2, OpcodeBytesAre
<1>7. p = ShortData(cmd, b, DataBytes(cmd, f, b, o))
  <2> HIDE DEF o
  <2>1. Hardcoded(cmd, f, b, o) = o  BY <1>1, NothingMore
  <2> QED  BY <2>1 DEF parse_instruction, o
<1> HIDE DEF f, i, p
<1>8. o = [i EXCEPT !.dst = RegOperand(f.reg, f.w), !.src = DataOperand]
  BY <1>1 DEF Operands
<1>9. o \in Instruction
  BY <1>2, <1>5, <1>6, OperandsType DEF Within, ProperInstruction
<1>10. /\ o.inst_num_bytes = 1 /\ o.sane /\ ~o.inst_is_short_w_data
       /\ o.dst = RegOperand(f.reg, f.w) /\ o.src = DataOperand
  BY <1>6, <1>8 DEF Instruction
<1> HIDE DEF o
<1>11. b[0] \in Int /\ 176 <= b[0] /\ b[0] <= 191  OBVIOUS
<1>12. /\ b[0] \in ImmediateToRegister /\ b[0] \notin HasRegisterByte
       /\ b[0] \notin RegMemClass \cup SegmentMove \cup AccumulatorMemory
       /\ b[0] \notin ImmediateToRegMem \cup ImmediateToAccumulator \cup Short
  BY <1>11 DEF HasRegisterByte, RegMemClass, SegmentMove, ImmediateToRegMem,
         ImmediateToRegister, ImmediateToAccumulator, AccumulatorMemory, Short
<1>13. Wide(b) <=> f.w = 1  BY <1>4, <1>11, <1>12 DEF Wide
<1>14. ImmediateBytes(b) = IF f.w = 1 THEN 2 ELSE 1
  BY <1>11, <1>12, <1>13 DEF ImmediateBytes
<1>15. RefLength(b) = 1 + ImmediateBytes(b)
  <2>1. AddressBytes(b) = 0  BY <1>12 DEF AddressBytes
  <2>2. b[0] \notin HasRegisterByte /\ b[0] \notin AccumulatorMemory  BY <1>12
  <2>3. ImmediateBytes(b) \in {1, 2}  BY <1>14
  <2> QED  BY <2>1, <2>2, <2>3 DEF RefLength
<1>16. /\ DataIs8bit(cmd, f) <=> ImmediateBytes(b) = 1
       /\ ImmediateBytes(b) = 1 => (DataIsSigned(cmd, f) <=> b[0] # 128)
  BY <1>1, <1>5, <1>11, <1>14 DEF DataIs8bit, DataIsSigned
<1>17. IsDestination(o.dst)  BY <1>10, TypesOfOperands DEF IsDestination
<1>18. /\ p.sane /\ Printable(p) /\ p.inst_num_bytes = RefLength(b)
       /\ p.dst = o.dst /\ p.src = o.src /\ p.src_data = RefImmediate(b)
  <2>1. ImmediateBytes(b) \in {1, 2}  BY <1>14
  <2> QED  BY <1>1, <1>7, <1>9, <1>10, <1>15, <1>16, <1>17, <2>1, ImmediateAppended
<1>19. RefOperands(b) = <<InRegister(NameOf(b[0] % 8, Wide(b))), Immediate>>
  BY <1>12 DEF RefOperands
<1>20. PlaceOf(p.dst) = InRegister(NameOf(b[0] % 8, Wide(b)))
  BY <1>4, <1>5, <1>10, <1>13, <1>18, PlacesOfOperands DEF NameOf
<1>21. PlaceOf(p.src) = Immediate  BY <1>10, <1>18, PlacesOfOperands
<1> QED  BY <1>18, <1>19, <1>20, <1>21 DEF Faithful, p, cmd

\* The width of the accumulator.
LEMMA AccumulatorName ==
    \A w \in 0..1 : NameOf(0, w = 1) = IF w = 0 THEN "REG_AL" ELSE "REG_AX"
BY DEF NameOf, WordRegister, ByteRegister

\* The arithmetic of an immediate with the accumulator.
LEMMA ToAccumulatorFaithful ==
    ASSUME NEW cmd, Sound(cmd), cmd.has = Accumulator, cmd.w_flag_shift = 0,
           NEW b \in [Window -> Byte], b[0] \in ImmediateToAccumulator
    PROVE  Faithful(parse_instruction(cmd, b), b)
<1> DEFINE f == Fields(cmd, b)
           i == OpcodeBytes(cmd, b)
           o == Hardcoded(cmd, f, b, i)
           p == parse_instruction(cmd, b)
           accumulator == NamedRegister(IF f.w = 0 THEN "REG_AL" ELSE "REG_AX")
<1>1. cmd.has = {"op_has_data_bytes", "byte1_has_w_flag", "op_has_hardcoded_dst"}
  BY DEF Accumulator
<1>2. b[0] \in Byte /\ b[0] \in {4, 5, 44, 45, 60, 61}  BY DEF Window, ImmediateToAccumulator
<1>3. f.w = b[0] % 2  BY <1>1, <1>2, FieldValues DEF Fields
<1>4. f \in FieldsOf /\ f.w \in 0..1  BY FieldsType DEF FieldsOf
<1>5. i \in Within(1, 2) /\ i \in Instruction /\ i.inst_num_bytes = 1 /\ i.sane
      /\ ~i.inst_is_short_w_data
  BY <1>1, OpcodeBytesAre
<1>6. Operands(cmd, f, b, i) = i  BY <1>1 DEF Operands
<1>7. p = ShortData(cmd, b, DataBytes(cmd, f, b, o))  BY <1>6 DEF parse_instruction
<1> HIDE DEF f, i, p
<1>8. i \in Within(1, 4)  BY <1>5 DEF Within
<1>9. o \in Instruction
  BY <1>1, <1>4, <1>5, <1>8, HardcodedType DEF Within, ProperInstruction
<1>10. o = [[i EXCEPT !.inst_num_bytes = @] EXCEPT !.dst = accumulator, !.src = DataOperand]
  BY <1>1 DEF Hardcoded
<1> HIDE DEF accumulator
<1>11. /\ o.inst_num_bytes = 1 /\ o.sane /\ ~o.inst_is_short_w_data
       /\ o.dst = accumulator /\ o.src = DataOperand
  BY <1>5, <1>10 DEF Instruction
<1> HIDE DEF o
<1>12. /\ b[0] \notin HasRegisterByte /\ b[0] \notin ImmediateToRegister
       /\ b[0] \notin RegMemClass \cup SegmentMove \cup AccumulatorMemory
       /\ b[0] \notin ImmediateToRegMem \cup Short
  BY <1>2 DEF HasRegisterByte, RegMemClass, SegmentMove, ImmediateToRegMem,
         ImmediateToRegister, ImmediateToAccumulator, AccumulatorMemory, Short
<1>13. Wide(b) <=> f.w = 1  BY <1>3, <1>12 DEF Wide
<1>14. ImmediateBytes(b) = IF f.w = 1 THEN 2 ELSE 1
  BY <1>2, <1>12, <1>13 DEF ImmediateBytes
<1>15. RefLength(b) = 1 + ImmediateBytes(b)
  <2>1. AddressBytes(b) = 0  BY <1>12 DEF AddressBytes
  <2>2. b[0] \notin HasRegisterByte /\ b[0] \notin AccumulatorMemory  BY <1>12
  <2>3. ImmediateBytes(b) \in {1, 2}  BY <1>14
  <2> QED  BY <2>1, <2>2, <2>3 DEF RefLength
<1>16. /\ DataIs8bit(cmd, f) <=> ImmediateBytes(b) = 1
       /\ ImmediateBytes(b) = 1 => (DataIsSigned(cmd, f) <=> b[0] # 128)
  BY <1>1, <1>2, <1>4, <1>14 DEF DataIs8bit, DataIsSigned
<1>17. IsDestination(o.dst)  BY <1>11, TypesOfOperands DEF IsDestination, accumulator
<1>18. /\ p.sane /\ Printable(p) /\ p.inst_num_bytes = RefLength(b)
       /\ p.dst = o.dst /\ p.src = o.src /\ p.src_data = RefImmediate(b)
  <2>1. ImmediateBytes(b) \in {1, 2}  BY <1>14
  <2> QED  BY <1>1, <1>7, <1>9, <1>11, <1>15, <1>16, <1>17, <2>1, ImmediateAppended
<1>19. RefOperands(b) = <<AccumulatorPlace(b), Immediate>>
  BY <1>2, <1>12 DEF RefOperands
<1>20. PlaceOf(p.dst) = AccumulatorPlace(b)
  BY <1>4, <1>11, <1>13, <1>18, PlacesOfOperands, AccumulatorName
     DEF AccumulatorPlace, accumulator, NameOf
<1>21. PlaceOf(p.src) = Immediate  BY <1>11, <1>18, PlacesOfOperands
<1> QED  BY <1>18, <1>19, <1>20, <1>21 DEF Faithful, p

\* A row between a segment register and register or memory.
LEMMA SegmentOperands ==
    ASSUME NEW cmd, NEW b, NEW f, NEW i \in Instruction, i.inst_num_bytes = 2,
           {"byte2_has_mod_field", "byte2_has_rm_field", "byte2_has_sr_field"} \subseteq cmd.has,
           "op_has_data_bytes" \notin cmd.has
    PROVE  LET o == Operands(cmd, f, b, i)
               seg == SegOperand(f.sr)
               target == is_direct_access(f) \/ "sr_is_target" \in cmd.has
           IN  /\ o.inst_num_bytes = 2 + DisplacementBytes(f)
               /\ o.sane /\ o.inst_is_short_w_data = i.inst_is_short_w_data
               /\ o.dst = IF target THEN seg ELSE RMOperand(f, b)
               /\ o.src = IF is_direct_access(f) THEN DirectOperand(Word16(b[2], b[3]))
                          ELSE IF target THEN RMOperand(f, b) ELSE seg
<1> DEFINE m == ModOperands(cmd, f, b, i)
           seg == SegOperand(f.sr)
           after == [i EXCEPT !.inst_num_bytes = @ + DisplacementBytes(f)]
<1>1. Operands(cmd, f, b, i) = [m EXCEPT !.sane = TRUE]  BY DEF Operands
<1>2. /\ after.inst_num_bytes = 2 + DisplacementBytes(f)
      /\ after.inst_is_short_w_data = i.inst_is_short_w_data
      /\ DOMAIN after = DOMAIN i
  BY DEF Instruction
<1>3. m = IF is_direct_access(f) THEN DirectAccess(cmd, f, b, after)
          ELSE RegisterOrMemory(cmd, f, RMOperand(f, b), after)
  BY DEF ModOperands, RMOperand, Displacement
<1> HIDE DEF after, m
<1>4. DirectAccess(cmd, f, b, after)
        = [after EXCEPT !.src = DirectOperand(Word16(b[2], b[3])), !.dst = seg]
  <2>1. "byte2_has_sr_field" \in cmd.has  OBVIOUS
  <2> QED  BY <2>1 DEF DirectAccess, extract_direct_address
<1>5. RegisterOrMemory(cmd, f, RMOperand(f, b), after)
        = IF "sr_is_target" \in cmd.has
          THEN [after EXCEPT !.dst = seg, !.src = RMOperand(f, b)]
          ELSE [after EXCEPT !.dst = RMOperand(f, b), !.src = seg]
  BY DEF RegisterOrMemory
<1> HIDE DEF seg
<1>6. {"dst", "src", "sane", "inst_num_bytes", "inst_is_short_w_data"} \subseteq DOMAIN after
  BY <1>2 DEF Instruction
<1> QED  BY <1>1, <1>2, <1>3, <1>4, <1>5, <1>6 DEF seg

\* The moves of a segment register.
LEMMA SegmentFaithful ==
    ASSUME NEW cmd \in {mov6_op, mov7_op}, Sound(cmd), NEW b \in [Window -> Byte],
           cmd = mov6_op => b[0] = 142, cmd = mov7_op => b[0] = 140
    PROVE  Faithful(parse_instruction(cmd, b), b)
<1> DEFINE f == Fields(cmd, b)
           i == OpcodeBytes(cmd, b)
           o == Operands(cmd, f, b, i)
           seg == SegOperand(f.sr)
<1>1. /\ {"op_has_register_byte", "byte2_has_mod_field", "byte2_has_rm_field",
          "byte2_has_sr_field"} \subseteq cmd.has
      /\ {"op_has_data_bytes", "op_has_hardcoded_dst", "op_has_hardcoded_src",
          "is_short_instruction"} \cap cmd.has = {}
      /\ "sr_is_target" \in cmd.has <=> cmd = mov6_op
  BY DEF mov6_op, mov7_op, Row
<1>2. cmd = mov6_op \/ cmd = mov7_op  OBVIOUS
<1>3. b[0] \in {140, 142} /\ (cmd = mov6_op <=> b[0] = 142)  BY <1>2
<1>4. f.mod = Mod(b) /\ f.rm = RM(b) /\ f.sr = Reg(b) % 4 /\ f.w = 1
  BY <1>1, RegisterByteFields DEF Fields
<1>5. i \in Instruction /\ i.inst_num_bytes = 2 /\ ~i.inst_is_short_w_data
  BY <1>1, OpcodeBytesAre
<1>6. parse_instruction(cmd, b) = o
  <2> HIDE DEF o
  <2>1. Hardcoded(cmd, f, b, o) = o /\ DataBytes(cmd, f, b, o) = o /\ ShortData(cmd, b, o) = o
    BY <1>1, NothingMore
  <2> QED  BY <2>1 DEF parse_instruction, o
<1> HIDE DEF f, i
<1>7. /\ o.inst_num_bytes = 2 + DisplacementBytes(f)
      /\ o.sane /\ ~o.inst_is_short_w_data
      /\ o.dst = IF is_direct_access(f) \/ cmd = mov6_op THEN seg ELSE RMOperand(f, b)
      /\ o.src = IF is_direct_access(f) THEN DirectOperand(Word16(b[2], b[3]))
                 ELSE IF cmd = mov6_op THEN RMOperand(f, b) ELSE seg
  BY <1>1, <1>5, SegmentOperands
<1> HIDE DEF o
<1>8. b[0] \in HasRegisterByte /\ b[0] \in SegmentMove
      /\ b[0] \notin RegMemClass \cup ImmediateToRegMem \cup ImmediateToRegister
      /\ b[0] \notin ImmediateToAccumulator \cup AccumulatorMemory \cup Short
  BY <1>3 DEF HasRegisterByte, RegMemClass, SegmentMove, ImmediateToRegMem,
         ImmediateToRegister, ImmediateToAccumulator, AccumulatorMemory, Short
<1>9. /\ DisplacementBytes(f) = AddressBytes(b) /\ AddressBytes(b) \in 0..2
      /\ is_direct_access(f) <=> IsDirect(b)
  BY <1>4, <1>8, DisplacementIsAddressBytes
<1>10. /\ ImmediateBytes(b) = 0 /\ RefLength(b) = 2 + AddressBytes(b)
       /\ Wide(b) <=> f.w = 1
  BY <1>3, <1>4, <1>8, <1>9 DEF ImmediateBytes, RefLength, Wide
<1>11. PlaceOf(seg) = SegPlace(b)
  <2>1. Reg(b) \in Int  BY RegisterByteFields
  <2>2. f.sr \in 0..3  BY <1>4, <2>1
  <2> QED  BY <1>4, <2>2, PlacesOfOperands DEF SegPlace
<1>12. ~IsDirect(b) => PlaceOf(RMOperand(f, b)) = RMPlace(b)
  BY <1>4, <1>10, RMOperandPlace
<1>13. IsDirect(b) => PlaceOf(DirectOperand(Word16(b[2], b[3]))) = RMPlace(b)
  BY PlacesOfOperands DEF RMPlace, IsDirect, Word16
<1>14. RefOperands(b) = IF b[0] = 142 THEN <<SegPlace(b), RMPlace(b)>>
                        ELSE <<RMPlace(b), SegPlace(b)>>
  BY <1>3, <1>8 DEF RefOperands
<1>15. StoresToDirectAddress(b) \/ <<PlaceOf(o.dst), PlaceOf(o.src)>> = RefOperands(b)
  <2>1. IsDirect(b) /\ b[0] = 140 => StoresToDirectAddress(b)  BY DEF StoresToDirectAddress
  <2> HIDE DEF seg
  <2> QED  BY <1>3, <1>7, <1>9, <1>11, <1>12, <1>13, <1>14, <2>1
<1>16. Printable(o)
  <2>1. \A x \in {seg, RMOperand(f, b), DirectOperand(Word16(b[2], b[3]))} :
          x.type \notin {"TYPE_DATA", "MAX_TYPE"}
    BY TypesOfOperands DEF RMOperand
  <2>2. {o.dst, o.src} \subseteq {seg, RMOperand(f, b), DirectOperand(Word16(b[2], b[3]))}
    BY <1>7
  <2> HIDE DEF seg
  <2> QED  BY <2>1, <2>2 DEF Printable, IsDestination
<1> QED  BY <1>6, <1>7, <1>9, <1>10, <1>15, <1>16 DEF Faithful

\* The moves between the accumulator and a direct address.  The source of a store is
\* named ax whatever its width.
LEMMA AddressFaithful ==
    ASSUME NEW cmd \in {mov4_op, mov5_op}, Sound(cmd), NEW b \in [Window -> Byte],
           cmd = mov4_op => b[0] \in 160..161, cmd = mov5_op => b[0] \in 162..163
    PROVE  Faithful(parse_instruction(cmd, b), b)
<1> DEFINE f == Fields(cmd, b)
           i == OpcodeBytes(cmd, b)
           o == Hardcoded(cmd, f, b, i)
           accumulator == NamedRegister(IF f.w = 0 THEN "REG_AL" ELSE "REG_AX")
           address == DirectOperand(Word16(b[1], b[2]))
           load == cmd = mov4_op
<1>1. /\ {"op_has_address_bytes", "byte1_has_w_flag"} \subseteq cmd.has
      /\ {"op_has_register_byte", "op_has_data_bytes", "byte1_has_reg_field",
          "byte2_has_reg_field", "byte2_has_mod_field", "byte2_has_sr_field",
          "is_short_instruction"} \cap cmd.has = {}
      /\ "op_has_hardcoded_dst" \in cmd.has <=> load
      /\ "op_has_hardcoded_src" \in cmd.has <=> ~load
      /\ cmd.w_flag_shift = 0
  BY DEF mov4_op, mov5_op, Row
<1>2. cmd = mov4_op \/ cmd = mov5_op  OBVIOUS
<1>3. b[0] \in Byte /\ b[0] \in {160, 161, 162, 163} /\ (load <=> b[0] \in {160, 161})
  <2>1. \A n \in 160..161 : n = 160 \/ n = 161  OBVIOUS
  <2>2. \A n \in 162..163 : n = 162 \/ n = 163  OBVIOUS
  <2> HIDE DEF load
  <2>3. CASE load
    BY <2>1, <2>3 DEF Window, load
  <2>4. CASE ~load
    BY <1>2, <2>2, <2>4 DEF Window, load
  <2> QED  BY <2>3, <2>4
<1>4. f.w = b[0] % 2  BY <1>1, <1>3, FieldValues DEF Fields
<1>5. f.w \in 0..1  BY FieldsType DEF FieldsOf
<1>6. i \in Instruction /\ i.inst_num_bytes = 1 /\ i.sane /\ ~i.inst_is_short_w_data
  BY <1>1, OpcodeBytesAre
<1>7. parse_instruction(cmd, b) = o
  <2>1. Operands(cmd, f, b, i) = i  BY <1>1 DEF Operands
  <2>2. DataBytes(cmd, f, b, o) = o /\ ShortData(cmd, b, o) = o
    BY <1>1 DEF DataBytes, ShortData
  <2> HIDE DEF o
  <2> QED  BY <2>1, <2>2 DEF parse_instruction, o
<1> HIDE DEF f, i, load
<1>8. o = IF load
          THEN [[i EXCEPT !.inst_num_bytes = @ + 2] EXCEPT !.dst = accumulator, !.src = address]
          ELSE [[i EXCEPT !.inst_num_bytes = @ + 2]
                   EXCEPT !.src = NamedRegister("REG_AX"), !.dst = address]
  <2>1. /\ "op_has_address_bytes" \in cmd.has /\ "byte1_has_w_flag" \in cmd.has
        /\ "op_has_data_bytes" \notin cmd.has
    BY <1>1
  <2>2. extract_direct_address(b, i.inst_num_bytes) = Word16(b[1], b[2])
    BY <1>6 DEF extract_direct_address
  <2>3. CASE load
    BY <1>1, <2>1, <2>2, <2>3 DEF Hardcoded
  <2>4. CASE ~load
    BY <1>1, <2>1, <2>2, <2>4 DEF Hardcoded
  <2> QED  BY <2>3, <2>4
<1> HIDE DEF accumulator, address
<1>9. /\ o.inst_num_bytes = 3 /\ o.sane /\ ~o.inst_is_short_w_data
      /\ o.dst = IF load THEN accumulator ELSE address
      /\ o.src = IF load THEN address ELSE NamedRegister("REG_AX")
  BY <1>6, <1>8 DEF Instruction
<1> HIDE DEF o
<1>10. /\ b[0] \in AccumulatorMemory
       /\ b[0] \notin HasRegisterByte \cup ImmediateToRegister \cup RegMemClass
       /\ b[0] \notin SegmentMove \cup ImmediateToRegMem \cup ImmediateToAccumulator \cup Short
  BY <1>3 DEF HasRegisterByte, RegMemClass, SegmentMove, ImmediateToRegMem,
         ImmediateToRegister, ImmediateToAccumulator, AccumulatorMemory, Short
<1>11. ImmediateBytes(b) = 0 /\ AddressBytes(b) = 0 /\ RefLength(b) = 3
  BY <1>3, <1>10 DEF ImmediateBytes, AddressBytes, RefLength
<1>12. Wide(b) <=> f.w = 1  BY <1>4, <1>10 DEF Wide
<1>13. PlaceOf(address) = AddressPlace(b)
  BY PlacesOfOperands DEF address, AddressPlace, Word16
<1>14. PlaceOf(accumulator) = AccumulatorPlace(b)
  BY <1>5, <1>12, PlacesOfOperands, AccumulatorName DEF AccumulatorPlace, accumulator, NameOf
<1>15. b[0] = 163 => PlaceOf(NamedRegister("REG_AX")) = AccumulatorPlace(b)
  BY <1>4, <1>12, PlacesOfOperands, AccumulatorName DEF AccumulatorPlace, NameOf
<1>16. RefOperands(b) = IF load THEN <<AccumulatorPlace(b), AddressPlace(b)>>
                        ELSE <<AddressPlace(b), AccumulatorPlace(b)>>
  BY <1>3, <1>10 DEF RefOperands
<1>17. StoresToDirectAddress(b) \/ <<PlaceOf(o.dst), PlaceOf(o.src)>> = RefOperands(b)
  BY <1>3, <1>9, <1>13, <1>14, <1>15, <1>16 DEF StoresToDirectAddress
<1>18. Printable(o)
  BY <1>9, TypesOfOperands DEF Printable, IsDestination, accumulator, address
<1> QED  BY <1>7, <1>9, <1>11, <1>17, <1>18 DEF Faithful

\* The jumps and the loops.
LEMMA ShortFaithful ==
    ASSUME NEW cmd \in {jump_op, loop_op}, Sound(cmd), NEW b \in [Window -> Byte],
           b[0] \in Short
    PROVE  Faithful(parse_instruction(cmd, b), b)
<1> DEFINE f == Fields(cmd, b)
           i == OpcodeBytes(cmd, b)
           op == CASE Field(b[0], 4, 16) = 7 -> jmp_inst_map[Field(b[0], 0, 16)]
                   [] b[0] \in 224..227 -> loop_inst_map[Field(b[0], 0, 4)]
                   [] OTHER -> i.op
           o == ShortData(cmd, b, i)
<1>1. cmd.has = {"is_short_instruction"}  BY DEF jump_op, loop_op, Row
<1>2. i \in Instruction /\ i.inst_num_bytes = 1 /\ i.sane
  BY <1>1, OpcodeBytesAre
<1>3. parse_instruction(cmd, b) = o
  <2>1. Operands(cmd, f, b, i) = i  BY <1>1 DEF Operands
  <2>2. Hardcoded(cmd, f, b, i) = i /\ DataBytes(cmd, f, b, i) = i
    BY <1>1, NothingMore
  <2> HIDE DEF o
  <2> QED  BY <2>1, <2>2 DEF parse_instruction, o
<1> HIDE DEF f, i
<1>4. o = [i EXCEPT !.inst_is_short_w_data = TRUE, !.src_data = SignExtend(b[1]),
                    !.inst_num_bytes = @ + 1, !.op = op]
  BY <1>1, <1>2 DEF ShortData, extract_data
<1> HIDE DEF op
<1>5. /\ o.inst_num_bytes = 2 /\ o.sane /\ o.inst_is_short_w_data
      /\ o.src_data = SignExtend(b[1])
  BY <1>2, <1>4 DEF Instruction
<1> HIDE DEF o
<1>6. b[0] \in Byte /\ b[1] \in Byte  BY DEF Window
<1>7. b[0] \notin HasRegisterByte \cup AccumulatorMemory \cup ImmediateToRegister
      /\ b[0] \notin ImmediateToAccumulator \cup {128, 129, 130, 131, 198, 199}
  BY <1>6 DEF HasRegisterByte, RegMemClass, SegmentMove, ImmediateToRegMem,
         ImmediateToRegister, ImmediateToAccumulator, AccumulatorMemory, Short
<1>8. ImmediateBytes(b) = 1 /\ AddressBytes(b) = 0 /\ RefLength(b) = 2
  BY <1>7 DEF ImmediateBytes, AddressBytes, RefLength
<1>9. RefImmediate(b) = SignExtend(b[1])
  BY <1>7, <1>8 DEF RefImmediate, SignExtend
<1> QED  BY <1>3, <1>5, <1>8, <1>9 DEF Faithful, Printable

\* The decoding of the bytes at the pointer is the instruction they encode, whatever the
\* bytes: the row whose opcode matches is the one of the instruction's class.
THEOREM DecodedInstructionIsEncoded ==
    \A b \in [Window -> Byte] :
        /\ Decodable(b) <=> b[0] \in Opcodes
        /\ Decodable(b) => Faithful(decode_bitstream(b), b)
<1> SUFFICES ASSUME NEW b \in [Window -> Byte], Decodable(b)
             PROVE  Faithful(decode_bitstream(b), b)
  BY FirstMatchIsRow
<1> PICK n \in 1..16 : n = FirstMatch(b[0])  BY FirstMatchIsRow
<1>1. b[0] \in RowOpcodes[n] /\ decode_bitstream(b) = parse_instruction(op_cmds[n], b)
  BY FirstMatchIsRow DEF decode_bitstream
<1>2. Sound(op_cmds[n])
  <2>1. Len(op_cmds) = 16  BY DEF op_cmds
  <2> QED  BY <2>1, RowsAreSound
<1>3. CASE n \in {1, 8, 11, 13}
  <2>1. op_cmds[n].has = RegMem /\ op_cmds[n].w_flag_shift = 0 /\ op_cmds[n].reg_field_shift = 3
    BY <1>3 DEF op_cmds, mov1_op, add1_op, sub1_op, cmp1_op, Row
  <2>2. b[0] \in RegMemClass  BY <1>1, <1>3 DEF RowOpcodes, RegMemClass
  <2> QED  BY <1>1, <1>2, <2>1, <2>2, RegMemFaithful
<1>4. CASE n \in {2, 9}
  <2>1. /\ n = 2 => op_cmds[n] = mov2_op /\ b[0] \in 198..199
        /\ n = 9 => op_cmds[n] = multi1_op /\ b[0] \in 128..131
    BY <1>1 DEF op_cmds, RowOpcodes
  <2>2. mov2_op # multi1_op
    <3>1. mov2_op.opcode = 198 /\ multi1_op.opcode = 128  BY DEF mov2_op, multi1_op, Row
    <3> QED  BY <3>1
  <2> QED  BY <1>1, <1>2, <1>4, <2>1, <2>2, ImmediateFaithful
<1>5. CASE n = 3
  BY <1>1, <1>5, ToRegisterFaithful DEF op_cmds, RowOpcodes
<1>6. CASE n \in {4, 5}
  <2>1. /\ n = 4 => op_cmds[n] = mov4_op /\ b[0] \in 160..161
        /\ n = 5 => op_cmds[n] = mov5_op /\ b[0] \in 162..163
    BY <1>1 DEF op_cmds, RowOpcodes
  <2>2. mov4_op # mov5_op
    <3>1. mov4_op.opcode = 160 /\ mov5_op.opcode = 162  BY DEF mov4_op, mov5_op, Row
    <3> QED  BY <3>1
  <2> QED  BY <1>1, <1>2, <1>6, <2>1, <2>2, AddressFaithful
<1>7. CASE n \in {6, 7}
  <2>1. /\ n = 6 => op_cmds[n] = mov6_op /\ b[0] = 142
        /\ n = 7 => op_cmds[n] = mov7_op /\ b[0] = 140
    BY <1>1 DEF op_cmds, RowOpcodes
  <2>2. mov6_op # mov7_op
    <3>1. mov6_op.opcode = 142 /\ mov7_op.opcode = 140  BY DEF mov6_op, mov7_op, Row
    <3> QED  BY <3>1
  <2> QED  BY <1>1, <1>2, <1>7, <2>1, <2>2, SegmentFaithful
<1>8. CASE n \in {10, 12, 14}
  <2>1. op_cmds[n].has = Accumulator /\ op_cmds[n].w_flag_shift = 0
    BY <1>8 DEF op_cmds, add2_op, sub2_op, cmp2_op, Row
  <2>2. b[0] \in ImmediateToAccumulator  BY <1>1, <1>8 DEF RowOpcodes, ImmediateToAccumulator
  <2> QED  BY <1>1, <1>2, <2>1, <2>2, ToAccumulatorFaithful
<1>9. CASE n \in {15, 16}
  <2>1. op_cmds[n] \in {jump_op, loop_op} /\ b[0] \in Short
    BY <1>1, <1>9 DEF op_cmds, RowOpcodes, Short
  <2> QED  BY <1>1, <1>2, <2>1, ShortFaithful
<1> QED  BY <1>3, <1>4, <1>5, <1>6, <1>7, <1>8, <1>9

-----------------------------------------------------------------------------
(* The listing is the one the encoding gives.                              *)

LinesAreEncoded ==
    \A line \in Lines : Decodable(BytesOf(line)) /\ Faithful(line.inst, BytesOf(line))

LEMMA DecodedLinesAreEncoded ==
    ASSUME TypeOK, LinesAreDecoded
    PROVE  LinesAreEncoded
<1> SUFFICES ASSUME NEW k \in DOMAIN listing
             PROVE  LET b == BytesAt(listing[k].at, residue)
                    IN  Decodable(b) /\ Faithful(listing[k].inst, b)
  BY DEF LinesAreEncoded, Lines, BytesOf
<1> DEFINE b == BytesAt(listing[k].at, residue)
<1>1. listing \in Seq([at : Nat, inst : Instruction])  BY DEF TypeOK
<1>2. k \in 1..Len(listing)  BY <1>1
<1>3. listing[k].at \in Nat
  <2>1. listing[k] \in [at : Nat, inst : Instruction]  BY <1>1, <1>2, ElementOfSeq
  <2> QED  BY <2>1
<1>4. b \in [Window -> Byte]  BY <1>3, BytesAtType DEF TypeOK
<1>5. Decodable(b) /\ listing[k].inst = decode_bitstream(b)  BY DEF LinesAreDecoded
<1>6. Faithful(decode_bitstream(b), b)  BY <1>4, <1>5, DecodedInstructionIsEncoded
<1> QED  BY <1>5, <1>6

\* The process fails for an instruction that the table lacks or the input cuts off.
ErrorIsOfTheInput ==
    status = "error" => ptr > BytesRead \/ ~Decodable(BytesAt(ptr, residue))

LEMMA ErrorInit == Init => ErrorIsOfTheInput
BY DEF Init, ErrorIsOfTheInput

LEMMA ErrorNext == DriverInv /\ ErrorIsOfTheInput /\ [Next]_vars => ErrorIsOfTheInput'
<1> SUFFICES ASSUME DriverInv, ErrorIsOfTheInput, [Next]_vars PROVE ErrorIsOfTheInput'
  OBVIOUS
<1>1. ASSUME UNCHANGED <<file, residue, ptr>>,
             \/ status' # "error"
             \/ status' = status
             \/ ~Decodable(BytesAt(ptr, residue))
      PROVE  ErrorIsOfTheInput'
  <2>1. BytesRead' = BytesRead /\ BytesAt(ptr, residue)' = BytesAt(ptr, residue)
    BY <1>1 DEF BytesAt, BytesRead
  <2> QED  BY <1>1, <2>1 DEF ErrorIsOfTheInput
<1>2. CASE DecodeOne
  <2>1. PICK i \in Decoded :
          IF i.sane
          THEN \/ Decode(i, i.inst_num_bytes,
                         IF bytes_available < i.inst_num_bytes \/ ~Printable(i)
                         THEN "error" ELSE "running")
               \/ i.op = "MAX_INST" /\ Decode(i, i.inst_num_bytes, "crashed")
          ELSE status' = "error"
               /\ UNCHANGED <<file, residue, bytes_available, ptr, listing>>
    BY <1>2 DEF DecodeOne
  <2>2. i.sane /\ Printable(i)
    <3>1. BytesAt(ptr, residue) \in [Window -> Byte]
      BY BytesAtType DEF DriverInv, TypeOK
    <3>2. i = decode_bitstream(BytesAt(ptr, residue)) /\ Decodable(BytesAt(ptr, residue))
      BY <1>2 DEF DecodeOne, CanDecode, Decoded
    <3> QED  BY <3>1, <3>2, DecodedInstructionIsEncoded DEF Faithful
  <2>3. CASE Decode(i, i.inst_num_bytes, "crashed")
    BY <2>3 DEF Decode, ErrorIsOfTheInput
  <2>4. CASE bytes_available >= i.inst_num_bytes /\ Decode(i, i.inst_num_bytes, "running")
    BY <2>4 DEF Decode, ErrorIsOfTheInput
  <2>5. CASE bytes_available < i.inst_num_bytes /\ Decode(i, i.inst_num_bytes, "error")
    <3>1. i.inst_num_bytes \in 1..6 /\ file \in Files /\ bytes_available \in Int /\ ptr \in Nat
      BY <1>2, DecodedType DEF DriverInv, TypeOK, DecodeOne
    <3>2. ptr + bytes_available = BytesRead /\ BytesRead \in Nat
      BY <3>1, BytesReadType DEF DriverInv, ListingTilesInput
    <3>3. ptr' = ptr + i.inst_num_bytes /\ BytesRead' = BytesRead
      BY <2>5 DEF Decode, BytesRead
    <3>4. ptr' > BytesRead'  BY <2>5, <3>1, <3>2, <3>3
    <3> QED  BY <3>4 DEF ErrorIsOfTheInput
  <2>6. \/ bytes_available < i.inst_num_bytes \/ bytes_available >= i.inst_num_bytes
    BY <1>2, DecodedType DEF DriverInv, TypeOK, DecodeOne
  <2>7. bytes_available >= i.inst_num_bytes => ~(bytes_available < i.inst_num_bytes)
    BY <1>2, DecodedType DEF DriverInv, TypeOK, DecodeOne
  <2> QED  BY <2>1, <2>2, <2>3, <2>4, <2>5, <2>6, <2>7
<1>3. CASE DecodeFailed  BY <1>1, <1>3 DEF DecodeFailed
<1>4. CASE Exit  BY <1>1, <1>4 DEF Exit
<1>5. CASE Terminated \/ UNCHANGED vars  BY <1>1, <1>5 DEF Terminated, vars
<1> QED  BY <1>2, <1>3, <1>4, <1>5 DEF Next

LEMMA ListingIsEncoded == Spec => [](TypeOK /\ LinesAreEncoded /\ ErrorIsOfTheInput)
<1>1. Spec => []DriverInv  BY InitInv, NextInv, PTL DEF Spec
<1>2. DriverInv => TypeOK  BY DEF DriverInv
<1>3. Spec => []LinesAreDecoded
  BY <1>1, <1>2, DecodedInit, DecodedNext, PTL DEF Spec
<1>4. Spec => []ErrorIsOfTheInput  BY <1>1, ErrorInit, ErrorNext, PTL DEF Spec
<1>5. TypeOK /\ LinesAreDecoded => LinesAreEncoded  BY DecodedLinesAreEncoded
<1> QED  BY <1>1, <1>2, <1>3, <1>4, <1>5, PTL

\* No row of the table leads to a decoding that a sanity check of the decoder or of the
\* printing would reject: an error is always about the input.
THEOREM DriverSanityChecksUnreachable == Spec => []SanityChecksUnreachable
<1>1. LinesAreEncoded /\ ErrorIsOfTheInput => SanityChecksUnreachable
  BY DEF LinesAreEncoded, ErrorIsOfTheInput, SanityChecksUnreachable, Faithful
<1> QED  BY <1>1, ListingIsEncoded, PTL

\* Every printed instruction takes the bytes the encoding gives it, and the table knows
\* the opcodes of the encoding, no more and no fewer.
THEOREM DriverLengthMatchesReference == Spec => []LengthMatchesReference
<1>1. TypeOK /\ LinesAreEncoded => LengthMatchesReference
  <2> SUFFICES ASSUME TypeOK, LinesAreEncoded PROVE LengthMatchesReference  OBVIOUS
  <2>1. \A line \in Lines : line.inst.inst_num_bytes = RefLength(BytesOf(line))
    BY DEF LinesAreEncoded, Faithful
  <2>2. BytesAt(ptr, residue) \in [Window -> Byte]  BY BytesAtType DEF TypeOK
  <2> QED  BY <2>1, <2>2, DecodedInstructionIsEncoded DEF LengthMatchesReference
<1> QED  BY <1>1, ListingIsEncoded, PTL

\* Every printed operand is the place the encoding names and every immediate has its
\* value, for every instruction but the stores to a direct address.
THEOREM DriverOperandsMatchReference == Spec => []OperandsMatchReference
<1>1. LinesAreEncoded => OperandsMatchReference
  BY DEF LinesAreEncoded, OperandsMatchReference, SameOperands, Faithful
<1> QED  BY <1>1, ListingIsEncoded, PTL
=============================================================================
