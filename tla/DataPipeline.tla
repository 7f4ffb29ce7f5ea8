----------------------------- MODULE DataPipeline -----------------------------
(***************************************************************************)
(* The programs of data_gen after one another: the generator writes its two*)
(* files, the binary reader checks the one and the JSON parser averages the*)
(* other.  Each finds what the one before it left in the file.             *)
(***************************************************************************)
EXTENDS DataGenerator

CONSTANTS Values, Garbage       \* of the parser

VARIABLES
    binary, binary_pos, fields, rows_read, calc_sum, reader_status,
    document, preallocate, item_estimate, pos, matched, row, found, found_item,
    item_count, heap, list_head, list_tail, data_array, data_item_count, item,
    summed, phase,
    stage               \* the program that runs, or "end"

Reader == INSTANCE BinaryReader
NoDocument == [text |-> <<>>, size |-> 0, points |-> <<>>, cut |-> TRUE]
Parser == INSTANCE JsonParser WITH Documents <- {NoDocument}

reader_vars == <<binary, binary_pos, fields, rows_read, calc_sum, reader_status>>
parser_input == <<document, item_estimate>>
parser_rest == <<preallocate, pos, matched, row, found, found_item, item_count, heap, list_head,
                 list_tail, data_array, data_item_count, item, summed, phase>>
vars == <<gen_vars, reader_vars, parser_input, parser_rest, stage>>

\* The rows whose last number is in the JSON file.
RowWidths(n) == Len(Opening) + Len(Rows([k \in 1..n |-> JsonRow(points[k])])) - 1
WholeRows == {n \in DOMAIN points : RowWidths(n) <= Len(JsonFile)}
TheDocument ==
    [text |-> JsonFile, size |-> Width(JsonFile),
     points |-> SubSeq(points, 1, Cardinality(WholeRows)),
     cut |-> gen_status # "done" \/ lost[1] > 0]

Init == GenInit /\ Reader!ReaderInit /\ Parser!Init /\ stage = "generator"

GeneratorStep ==
    /\ stage = "generator"
    /\ Generate
    /\ UNCHANGED <<reader_vars, parser_input, parser_rest, stage>>

StartReader ==
    /\ stage = "generator" /\ gen_status \in {"done", "stopped"}
    /\ Reader!OpenBinary(BinaryFile)
    /\ stage' = "reader"
    /\ UNCHANGED <<gen_vars, parser_input, parser_rest>>

ReaderStep ==
    /\ stage = "reader"
    /\ Reader!ReadBinary
    /\ UNCHANGED <<gen_vars, parser_input, parser_rest, stage>>

StartParser ==
    /\ stage = "reader" /\ reader_status \in {"done", "error"}
    /\ document' = TheDocument
    /\ item_estimate' = Parser!estimate_total_entries(document'.size)
    /\ stage' = "parser"
    /\ UNCHANGED <<gen_vars, reader_vars, parser_rest>>

ParserStep ==
    /\ stage = "parser"
    /\ Parser!Run
    /\ UNCHANGED <<gen_vars, reader_vars, stage>>

End ==
    /\ \/ stage = "generator" /\ gen_status = "error"
       \/ stage = "parser" /\ Parser!Ended
    /\ UNCHANGED vars

Next == GeneratorStep \/ StartReader \/ ReaderStep \/ StartParser \/ ParserStep \/ End
Spec == Init /\ [][Next]_vars

-----------------------------------------------------------------------------
\* The distances of some points, added up in their order.
Total(ps) ==
    LET total[k \in 0..Len(ps)] == IF k = 0 THEN 0 ELSE total[k - 1] + Distance(ps[k])
    IN  total[Len(ps)]

\* Every variable of the generator and of the reader has its type.
TypeOK ==
    /\ GenTypeOK
    /\ binary \in Seq(Int) /\ binary_pos \in 0..Len(binary)
    /\ fields \in Seq(Int) /\ Len(fields) <= 5
    /\ rows_read \in Seq(Seq(Int)) /\ calc_sum \in Int
    /\ reader_status \in {"start", "reading", "done", "error"}
    /\ stage \in {"generator", "reader", "parser"}

\* A preallocated array has room for every point of a file that the generator
\* wrote, whatever it drew, and a file that lacks its end is one item short at most.
GeneratedFilesFit ==
    stage = "parser" /\ preallocate =>
        data_item_count <= item_estimate + (IF document.cut THEN 1 ELSE 0)

\* The reader never rejects a row of the generator, and what the reader and the parser
\* add up are the generator's points in their order, as far as the files have them: the
\* three programs report the average of the same points when no output was lost.
PointsSurvive ==
    /\ reader_status = "error" => binary_pos = 0
    /\ Len(rows_read) <= Len(points)
    /\ \A k \in DOMAIN rows_read : rows_read[k] = BinaryRow(points[k])
    /\ \A k \in DOMAIN summed :
          k <= Len(document.points) => \A n \in Parser!Names : summed[k][n] = points[k][n]
    /\ phase = "done" => Len(summed) >= Len(document.points)
    /\ phase = "done" /\ ~document.cut => Total(summed) = sum
    /\ reader_status = "done" /\ binary_pos = 5 * Len(points) => calc_sum = sum
=============================================================================
