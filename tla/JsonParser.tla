----------------------------- MODULE JsonParser -----------------------------
(***************************************************************************)
(* The JSON data parser (data_gen/json_data_parser.c): a scan of the file  *)
(* in memory for one character after the other, the points it finds put in *)
(* a linked list or an array of estimated size, and their average.         *)
(* A file is a sequence of tokens: characters, names and numbers.          *)
(***************************************************************************)
EXTENDS JsonText

CONSTANTS Documents,    \* the files: [text, size, points, cut]
          Values,       \* what a number of a file reads as
          Garbage       \* what an uninitialized double holds

MAX_ITEM_NAME_LEN == 8
MAX_VALUE_LEN == 64
JSON_OVERHEAD_SIZE == 14
JSON_MIN_ROW_SIZE == 101
JSON_MAX_ROW_SIZE == 111

Names == {"x0", "y0", "x1", "y1"}
Doubles == Values \cup {Garbage, 0}
data_item_s == [Names -> Doubles]
Token == [text : STRING, width : Nat, value : Values \cup {0}]
Null == 0

ASSUME JsonAssumption ==
    /\ Values \subseteq Int /\ Values # {} /\ Garbage \in Int \ Values
    /\ \A d \in Documents :
        /\ d.text \in Seq(Token) /\ d.size \in Nat /\ d.points \in Seq([Names -> Values])
        /\ d.cut \in BOOLEAN

VARIABLES
    document,           \* the input file
    preallocate,        \* option -p
    item_estimate,
    pos,                \* file_data_ptr: the next token; file_data_remaining follows
    matched,            \* the characters of Header that were found
    row,                \* X0, Y0, X1, Y1
    found,              \* the names whose found_ flag is set
    found_item,         \* the name of the item whose value comes next
    item_count,
    heap,               \* the allocated list items: [data_item, next_item]
    list_head, list_tail,
    data_array,
    data_item_count,
    item,               \* the next list item to sum
    summed,             \* history: the points added to sum, count_values of them
    phase

scanner == <<pos, matched, row, found, found_item, item_count>>
store == <<heap, list_head, list_tail, data_array, data_item_count>>
average == <<item, summed>>
input == <<document, preallocate, item_estimate>>
vars == <<input, scanner, store, average, phase>>

-----------------------------------------------------------------------------
(* The scanner.                                                            *)

text == document.text
End == Len(text) + 1

\* advance_until: where the next c is, or None; behind it, or at the end of the file.
None == 0
advance_until(p, c) ==
    IF \A q \in p..Len(text) : text[q].text # c THEN None
    ELSE CHOOSE q \in p..Len(text) :
            text[q].text = c /\ \A r \in p..q - 1 : text[r].text # c
Behind(at) == IF at = None THEN End ELSE at + 1

\* extract_until: what is skipped from p to there.
extract_until(p, at) == SubSeq(text, p, IF at = None THEN Len(text) ELSE at - 1)

\* sscanf of %lf: white space, then a number.  A text as long as the buffer is not
\* terminated and may be continued by what follows the buffer.
Scanned(s) ==
    LET Read == {k \in DOMAIN s : s[k].text = "number" /\ \A j \in 1..k - 1 : s[j].text = " "}
    IN  IF Read # {} /\ Width(s) = MAX_VALUE_LEN /\ Last(s).text = "number" THEN Values
        ELSE {s[k].value : k \in Read}

-----------------------------------------------------------------------------
(* main: the estimate, the array and the file.                             *)

\* size_t wraps below the overhead: the estimate is then beyond what malloc gives.
Unbounded == -1
\* Mutant: rounded down, and by the size of the longest row.
estimate_total_entries_Low(size) ==
    IF size < JSON_OVERHEAD_SIZE THEN Unbounded
    ELSE (size - JSON_OVERHEAD_SIZE) \div JSON_MAX_ROW_SIZE
estimate_total_entries(size) ==
    IF size < JSON_OVERHEAD_SIZE THEN Unbounded
    ELSE (size - JSON_OVERHEAD_SIZE + JSON_MIN_ROW_SIZE - 1) \div JSON_MIN_ROW_SIZE

Init ==
    /\ document \in Documents /\ preallocate \in BOOLEAN
    /\ item_estimate = estimate_total_entries(document.size)
    /\ pos = 1 /\ matched = 0 /\ item_count = 0 /\ found = {} /\ found_item = "none"
    /\ row = [n \in Names |-> IF n = "y1" THEN 0 ELSE Garbage]
    /\ heap = <<>> /\ list_head = Null /\ list_tail = Null
    /\ data_array = <<>> /\ data_item_count = 0
    /\ item = Null /\ summed = <<>>
    /\ phase = "start"

\* fread of no bytes reads no item, which is an error.
ReadFile ==
    /\ phase = "start"
    /\ document.size > 0 /\ (preallocate => item_estimate # Unbounded)
    /\ phase' = "header"
    /\ UNCHANGED <<input, scanner, store, average>>

\* stat, open, read or malloc fails.
ReadFails ==
    /\ phase = "start"
    /\ phase' = "error"
    /\ UNCHANGED <<input, scanner, store, average>>

-----------------------------------------------------------------------------
(* parse_file.                                                             *)

\* find_string and the characters before and behind "pairs", one after the other.
Header == <<"{", "\"", "p", "a", "i", "r", "s", "\"", ":", "[">>

FindHeader ==
    /\ phase = "header"
    /\ LET at == advance_until(pos, Header[matched + 1])
       IN  /\ pos' = Behind(at)
           /\ matched' = IF at = None THEN matched ELSE matched + 1
           /\ phase' = IF at = None THEN "error"
                       ELSE IF matched + 1 = Len(Header) THEN "rows" ELSE "header"
    /\ UNCHANGED <<input, row, found, found_item, item_count, store, average>>

\* The found_ flags are not initialized: each may have any value.
StartRow ==
    /\ phase = "rows" /\ advance_until(pos, "{") # None
    /\ pos' = advance_until(pos, "{") + 1
    /\ item_count' = 0
    /\ found' \in SUBSET Names
    /\ phase' = "items"
    /\ UNCHANGED <<input, matched, row, found_item, store, average>>

EndRows ==
    /\ phase = "rows" /\ advance_until(pos, "{") = None
    /\ pos' = End
    /\ phase' = "parsed"
    /\ UNCHANGED <<input, matched, row, found, found_item, item_count, store, average>>

\* The name of an item, in quotes.
\* Mutant: the loop runs once too often.
InRow_Five == phase = "items" /\ item_count < 5
InRow == phase = "items" /\ item_count < 4

NameStart == advance_until(pos, "\"")
NameEnd == advance_until(NameStart + 1, "\"")
ItemName == extract_until(NameStart + 1, NameEnd)
Identified ==
    /\ Width(ItemName) <= MAX_ITEM_NAME_LEN
    /\ Len(ItemName) = 1 /\ ItemName[1].text \in Names

ParseName ==
    /\ InRow /\ NameStart # None /\ Identified
    /\ pos' = Behind(NameEnd)
    /\ found_item' = ItemName[1].text
    /\ phase' = "value"
    /\ UNCHANGED <<input, matched, row, found, item_count, store, average>>

RejectName ==
    /\ InRow /\ NameStart # None /\ ~Identified
    /\ phase' = "error"
    /\ UNCHANGED <<input, scanner, store, average>>

\* Its value: behind a colon, up to a comma or, for the fourth, a brace.
Colon == advance_until(pos, ":")
ValueEnd == advance_until(Colon + 1, IF item_count < 3 THEN "," ELSE "}")
ItemValue == extract_until(Colon + 1, ValueEnd)

ParseValue ==
    /\ phase = "value" /\ Colon # None
    /\ Width(ItemValue) <= MAX_VALUE_LEN
    /\ \E value \in Scanned(ItemValue) : row' = [row EXCEPT ![found_item] = value]
    /\ found' = found \cup {found_item}
    /\ item_count' = item_count + 1
    /\ pos' = Behind(ValueEnd)
    /\ phase' = "items"
    /\ UNCHANGED <<input, matched, found_item, store, average>>

RejectValue ==
    /\ phase = "value" /\ Colon # None
    /\ Width(ItemValue) > MAX_VALUE_LEN \/ Scanned(ItemValue) = {}
    /\ phase' = "error"
    /\ UNCHANGED <<input, scanner, store, average>>

\* The file ends before the next item does: the row ends there.
RunsOut == (InRow /\ NameStart = None) \/ (phase = "value" /\ Colon = None)
\* Mutant: the item is tried again.
BreakRow_Retries ==
    /\ RunsOut
    /\ pos' = End
    /\ UNCHANGED <<input, matched, row, found, found_item, item_count, store, average, phase>>
BreakRow ==
    /\ RunsOut
    /\ pos' = End
    /\ phase' = "row_end"
    /\ UNCHANGED <<input, matched, row, found, found_item, item_count, store, average>>

CompleteRow ==
    /\ phase = "items" /\ item_count = 4
    /\ phase' = "row_end"
    /\ UNCHANGED <<input, scanner, store, average>>

RejectRow ==
    /\ phase = "row_end" /\ found # Names
    /\ phase' = "error"
    /\ UNCHANGED <<input, scanner, store, average>>

\* Beyond the estimate the store goes beyond the array: the process crashes, or goes on.
Complete == phase = "row_end" /\ found = Names
StoreInArray ==
    /\ Complete /\ preallocate
    /\ data_array' = Append(data_array, row)
    /\ data_item_count' = data_item_count + 1
    /\ phase' = "rows"
    /\ UNCHANGED <<input, scanner, heap, list_head, list_tail, average>>

CrashInArray ==
    /\ Complete /\ preallocate /\ data_item_count >= item_estimate
    /\ phase' = "crashed"
    /\ UNCHANGED <<input, scanner, store, average>>

\* List items are named in the order malloc returns them.
NewItem == Len(heap) + 1
\* Mutant: the new item is put before the list.
AppendItem_AtHead ==
    /\ heap' = Append(heap, [data_item |-> row, next_item |-> list_head])
    /\ list_head' = NewItem
    /\ list_tail' = IF list_head = Null THEN NewItem ELSE list_tail
AppendItem ==
    /\ heap' = Append(IF list_head = Null THEN heap
                      ELSE [heap EXCEPT ![list_tail].next_item = NewItem],
                      [data_item |-> row, next_item |-> Null])
    /\ list_head' = IF list_head = Null THEN NewItem ELSE list_head
    /\ list_tail' = NewItem

StoreInList ==
    /\ Complete /\ ~preallocate
    /\ AppendItem
    /\ data_item_count' = data_item_count + 1
    /\ phase' = "rows"
    /\ UNCHANGED <<input, scanner, data_array, average>>

OutOfMemory ==
    /\ Complete /\ ~preallocate
    /\ phase' = "error"
    /\ UNCHANGED <<input, scanner, store, average>>

-----------------------------------------------------------------------------
(* calculate_haversine_average.                                            *)

count_values == Len(summed)

\* The sanity check of the list; an empty array is averaged, to a NaN.
\* Mutant: the sum starts with the last item.
StartAverage_AtTail ==
    /\ phase = "parsed"
    /\ phase' = IF ~preallocate /\ Null \in {list_head, list_tail} THEN "error" ELSE "sum"
    /\ item' = list_tail
    /\ UNCHANGED <<input, scanner, store, summed>>
StartAverage ==
    /\ phase = "parsed"
    /\ phase' = IF ~preallocate /\ Null \in {list_head, list_tail} THEN "error" ELSE "sum"
    /\ item' = list_head
    /\ UNCHANGED <<input, scanner, store, summed>>

SumArray ==
    /\ phase = "sum" /\ preallocate /\ count_values < data_item_count
    /\ summed' = Append(summed, data_array[count_values + 1])
    /\ UNCHANGED <<input, scanner, store, item, phase>>

SumList ==
    /\ phase = "sum" /\ ~preallocate /\ item # Null
    /\ summed' = Append(summed, heap[item].data_item)
    /\ item' = heap[item].next_item
    /\ UNCHANGED <<input, scanner, store, phase>>

Finish ==
    /\ phase = "sum"
    /\ IF preallocate THEN count_values = data_item_count ELSE item = Null
    /\ phase' = "done"
    /\ UNCHANGED <<input, scanner, store, average>>

Ended == phase \in {"done", "error", "crashed"}
Terminated == Ended /\ UNCHANGED vars

Run == \/ ReadFile \/ ReadFails \/ FindHeader
       \/ StartRow \/ EndRows \/ ParseName \/ RejectName \/ ParseValue \/ RejectValue
       \/ BreakRow \/ CompleteRow \/ RejectRow
       \/ StoreInArray \/ CrashInArray \/ StoreInList \/ OutOfMemory
       \/ StartAverage \/ SumArray \/ SumList \/ Finish
Next == Run \/ Terminated

Spec == Init /\ [][Next]_vars

\* A process that is scheduled at all takes its next step.
FairSpec == Spec /\ WF_vars(Run)

-----------------------------------------------------------------------------
ListItem == [data_item : data_item_s, next_item : Nat]

\* Every variable has its type: X0 to Y1 hold doubles, pointers are Null or allocated
\* list items, and the scan position is in the file or at its end.
TypeOK ==
    /\ document \in Documents /\ preallocate \in BOOLEAN
    /\ item_estimate \in Nat \cup {Unbounded}
    /\ pos \in 1..End /\ matched \in 0..Len(Header)
    /\ row \in data_item_s /\ found \subseteq Names /\ item_count \in 0..4
    /\ found_item \in Names \cup {"none"} /\ (phase = "value" => found_item \in Names)
    /\ heap \in Seq(ListItem)
    /\ {list_head, list_tail, item} \subseteq 0..Len(heap)
    /\ data_array \in Seq(data_item_s) /\ data_item_count \in Nat
    /\ summed \in Seq(data_item_s)
    /\ phase \in {"start", "header", "rows", "items", "value", "row_end", "parsed", "sum",
                  "done", "error", "crashed"}

\* The list holds every item once, in the order of the rows, from head to tail, and the
\* last one ends it: what parse_file links is what the average will walk.
ListIsComplete ==
    ~preallocate =>
        /\ Len(heap) = data_item_count
        /\ list_head = (IF data_item_count = 0 THEN Null ELSE 1)
        /\ list_tail = data_item_count
        /\ \A n \in 1..data_item_count :
              heap[n].next_item = (IF n = data_item_count THEN Null ELSE n + 1)

\* The parser always comes to an end, on a file that is cut anywhere too.
Terminates == <>Ended

-----------------------------------------------------------------------------
(* The points kept, as a reader of the program sees them.                  *)

\* The items of the list by walking it, at most as many as were appended.
Walked ==
    LET At[n \in 0..data_item_count] ==
            IF n = 0 THEN 0 ELSE IF n = 1 THEN list_head ELSE heap[At[n - 1]].next_item
    IN  [n \in 1..data_item_count |-> heap[At[n]].data_item]
Stored == IF preallocate THEN data_array ELSE Walked

Reader == INSTANCE PointReader WITH
    Point <- data_item_s,
    points <- document.points, cut <- document.cut,
    kept <- Stored, summed <- summed,
    mode <- CASE phase = "sum" -> "summing"
              [] phase = "done" -> "done"
              [] phase \in {"error", "crashed"} -> "fault"
              [] OTHER -> "reading"

\* The parser keeps the points of a document in their order, whatever white space and
\* order of items a row has, sums exactly those, and a file cut inside a row adds at
\* most one point of its own (parse_file, calculate_haversine_average).
KeepsThePoints == Reader!Spec

-----------------------------------------------------------------------------
(* What the comments and messages of the repository say.                   *)

\* "Invalid row format, failed to find all items": a row that lacks an item is rejected.
OnlyCompleteRowsAreKept == data_item_count <= Len(document.points)
=============================================================================
