---------------------------- MODULE DecoderDriver ----------------------------
(***************************************************************************)
(* The decoder program (libdecoder_8086/decoder.c): it reads a file into a *)
(* buffer once, then decodes and prints instructions until the bytes are   *)
(* used up.  The decode pointer may run past the bytes that were read; what*)
(* it finds there (residue) is whatever the allocation holds.              *)
(***************************************************************************)
EXTENDS Libdecoder

CONSTANTS Files,        \* the inputs: sequences of bytes
          Residues,     \* the six bytes that may follow the last byte read
          BUFFER_SIZE   \* the capacity of the buffer (1 MB in the code)

ASSUME DriverAssumption ==
    /\ Files \subseteq Seq(Byte)
    /\ Residues \subseteq [Window -> Byte]
    /\ BUFFER_SIZE \in Nat

VARIABLES
    file,               \* the input file
    residue,            \* the bytes after the last one read
    bytes_available,    \* ssize_t: bytes not consumed yet
    ptr,                \* offset of the decode pointer in the buffer
    listing,            \* what was printed: [at, inst] records
    status              \* "running", or how the process ended

vars == <<file, residue, bytes_available, ptr, listing, status>>

\* fread reads at most BUFFER_SIZE bytes.
BytesRead == IF Len(file) <= BUFFER_SIZE THEN Len(file) ELSE BUFFER_SIZE

\* The six bytes at offset at, of the file or of what follows it.
BytesAt(at, after) ==
    [k \in Window |-> IF at + k < BytesRead THEN file[at + k + 1]
                      ELSE after[at + k - (IF at < BytesRead THEN BytesRead ELSE at)]]

Init ==
    /\ file \in Files
    /\ residue \in Residues
    /\ bytes_available = BytesRead
    /\ ptr = 0
    /\ listing = <<>>
    /\ status = "running"

\* Mutant: the loop goes on to try the same byte again.
DecodeFailed_Retries ==
    /\ status = "running" /\ bytes_available > 0
    /\ ~Decodable(BytesAt(ptr, residue))
    /\ UNCHANGED vars

\* decode_bitstream returns 0: the process ends with ERROR.
DecodeFailed ==
    /\ status = "running" /\ bytes_available > 0
    /\ ~Decodable(BytesAt(ptr, residue))
    /\ status' = "error"
    /\ UNCHANGED <<file, residue, bytes_available, ptr, listing>>

\* An instruction is decoded and printed; consumed bytes are taken off the count.
Decode(i, consumed, next_status) ==
    /\ bytes_available' = bytes_available - consumed
    /\ ptr' = ptr + i.inst_num_bytes
    /\ listing' = Append(listing, [at |-> ptr, inst |-> i])
    /\ status' = next_status
    /\ UNCHANGED <<file, residue>>
CanDecode ==
    /\ status = "running" /\ bytes_available > 0
    /\ Decodable(BytesAt(ptr, residue))
Decoded == {decode_bitstream(BytesAt(ptr, residue))}

\* Mutants: one byte is counted for each instruction; no check for an overrun.
DecodeOne_CountsOne == CanDecode /\ \E i \in Decoded : Decode(i, 1, "running")
DecodeOne_Unchecked ==
    CanDecode /\ \E i \in Decoded : Decode(i, i.inst_num_bytes, "running")

\* An instruction is printed before the overrun check.  The name of MAX_INST is
\* read from beyond instruction_name[]: the process may print anything or crash.
DecodeOne ==
    /\ CanDecode
    /\ \E i \in Decoded :
        IF i.sane
        THEN \/ Decode(i, i.inst_num_bytes,
                       IF bytes_available < i.inst_num_bytes \/ ~Printable(i)
                       THEN "error" ELSE "running")
             \/ i.op = "MAX_INST" /\ Decode(i, i.inst_num_bytes, "crashed")
        ELSE status' = "error"
             /\ UNCHANGED <<file, residue, bytes_available, ptr, listing>>

\* The while loop ends; exit code 0.
Exit ==
    /\ status = "running" /\ bytes_available <= 0
    /\ status' = "done"
    /\ UNCHANGED <<file, residue, bytes_available, ptr, listing>>

Terminated == status # "running" /\ UNCHANGED vars

Next == DecodeFailed \/ DecodeOne \/ Exit \/ Terminated

Spec == Init /\ [][Next]_vars

\* A process that is scheduled at all takes its next step.
FairSpec == Spec /\ WF_vars(DecodeFailed \/ DecodeOne \/ Exit)

-----------------------------------------------------------------------------
\* Every variable has its type; bytes_available is signed.
TypeOK ==
    /\ file \in Files /\ residue \in Residues
    /\ bytes_available \in Int /\ ptr \in Nat
    /\ listing \in Seq([at : Nat, inst : Instruction])
    /\ status \in {"running", "error", "crashed", "done"}

\* The end of the i-th printed instruction.
EndOf(i) == listing[i].at + listing[i].inst.inst_num_bytes

\* The printed instructions tile the input from its first byte: each starts where
\* the one before it ended, the decode pointer stands at the end of the last one,
\* and pointer and count of remaining bytes always add up to the bytes read.
ListingTilesInput ==
    /\ ptr + bytes_available = BytesRead
    /\ \A i \in DOMAIN listing :
          listing[i].at = IF i = 1 THEN 0 ELSE EndOf(i - 1)
    /\ ptr = IF listing = <<>> THEN 0 ELSE EndOf(Len(listing))

\* An instruction that runs past the end of the input is never followed by
\* another one, nor by a normal exit: the decoder reports the overrun.
OverrunIsReported ==
    \A i \in DOMAIN listing :
        EndOf(i) > BytesRead => i = Len(listing) /\ status \in {"error", "crashed"}

\* When the decoder exits normally the listing is a function of the input: every
\* line would be the same whatever followed the input in the buffer, although
\* decode_bitstream is never told where the input ends.
ListingDependsOnInputOnly ==
    status = "done" =>
        \A i \in DOMAIN listing : \A after \in Residues :
            decode_bitstream(BytesAt(listing[i].at, after)) = listing[i].inst

\* Every instruction consumes at least one byte, or the loop ends with an error:
\* the program terminates on every input.
Terminates == <>(status # "running")
=============================================================================
