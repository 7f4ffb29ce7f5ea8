----------------------------- MODULE BinaryReader -----------------------------
(***************************************************************************)
(* The reader of the generator's binary file (data_gen/bindata_reader.c):  *)
(* it reads five doubles after the other, recomputes the distance and adds *)
(* it up.  The end of the file and a read that fails look alike.           *)
(***************************************************************************)
EXTENDS Integers, Sequences

CONSTANT Haversine(_, _, _, _)

VARIABLES
    binary,             \* the file, a sequence of doubles
    binary_pos,         \* how many of them were read
    fields,             \* those of the row at hand: X0, Y0, X1, Y1, H_DIST
    rows_read,          \* history: the rows that were added to the sum
    calc_sum,
    reader_status       \* "start", "reading", or how the process ended

reader_vars == <<binary, binary_pos, fields, rows_read, calc_sum, reader_status>>

ReaderInit ==
    /\ binary = <<>> /\ binary_pos = 0 /\ fields = <<>> /\ rows_read = <<>>
    /\ calc_sum = 0 /\ reader_status = "start"

\* Of the file that is there when the reader starts.
OpenBinary(the_file) ==
    /\ reader_status = "start"
    /\ binary' = the_file
    /\ reader_status' \in {"reading", "error"}
    /\ UNCHANGED <<binary_pos, fields, rows_read, calc_sum>>

ReadDouble ==
    /\ reader_status = "reading" /\ Len(fields) < 5 /\ binary_pos < Len(binary)
    /\ fields' = Append(fields, binary[binary_pos + 1])
    /\ binary_pos' = binary_pos + 1
    /\ UNCHANGED <<binary, rows_read, calc_sum, reader_status>>

\* delta is the difference to the distance in the file.
CheckRow ==
    /\ reader_status = "reading" /\ Len(fields) = 5
    /\ LET H_DIST_CALC == Haversine(fields[1], fields[2], fields[3], fields[4])
       IN  IF fields[5] - H_DIST_CALC # 0
           THEN reader_status' = "error" /\ UNCHANGED <<rows_read, calc_sum>>
           ELSE /\ rows_read' = Append(rows_read, fields)
                /\ calc_sum' = calc_sum + H_DIST_CALC
                /\ UNCHANGED reader_status
    /\ fields' = <<>>
    /\ UNCHANGED <<binary, binary_pos>>

\* Mutant: the row at hand is added as well.
EndOfFile_AddsTheRow ==
    /\ reader_status = "reading" /\ Len(fields) < 5
    /\ rows_read' = Append(rows_read, fields)
    /\ reader_status' = "done"
    /\ UNCHANGED <<binary, binary_pos, fields, calc_sum>>
\* fread returns no double, at the end of the file or for an error.
EndOfFile ==
    /\ reader_status = "reading" /\ Len(fields) < 5
    /\ reader_status' = "done"
    /\ UNCHANGED <<binary, binary_pos, fields, rows_read, calc_sum>>

ReadBinary == ReadDouble \/ CheckRow \/ EndOfFile
=============================================================================
