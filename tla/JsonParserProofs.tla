--------------------------- MODULE JsonParserProofs ---------------------------
(***************************************************************************)
(* The points the parser keeps and the average it takes of them, for files *)
(* of any length and any text.                                             *)
(***************************************************************************)
EXTENDS JsonParser, SequenceTheorems, NaturalsInduction, WellFoundedInduction, TLAPS

\* The k-th point stored.
StoredPoint(k) == IF preallocate THEN data_array[k] ELSE heap[k].data_item

\* The average is taken of every stored point, once and in order, although the list is
\* only walked by its links.
AverageIsOfTheStored ==
    phase = "done" =>
        /\ Len(summed) = data_item_count
        /\ \A k \in 1..data_item_count : summed[k] = StoredPoint(k)

-----------------------------------------------------------------------------
(* The invariant.  A stored point is whatever the row holds.               *)

ItemsOf(D) == [data_item : D, next_item : Nat]
StoreInv ==
    /\ \E D : heap \in Seq(ItemsOf(D))
    /\ \E D : data_array \in Seq(D)
    /\ data_item_count \in Nat
    /\ preallocate => Len(data_array) = data_item_count
    /\ ListIsComplete
\* summed is the stored points up to the one that item, or the count, says comes next.
SumInv ==
    /\ \E D : summed \in Seq(D)
    /\ phase \notin {"sum", "done", "error", "crashed"} => summed = <<>>
    /\ phase \in {"sum", "done"} =>
          /\ Len(summed) <= data_item_count
          /\ ~preallocate => item = IF Len(summed) = data_item_count THEN Null
                                    ELSE Len(summed) + 1
          /\ \A k \in 1..Len(summed) : summed[k] = StoredPoint(k)
    /\ phase = "done" => Len(summed) = data_item_count
ParserInv == StoreInv /\ SumInv

LEMMA AppendAny ==
    ASSUME NEW D, NEW s \in Seq(D), NEW x
    PROVE  /\ Append(s, x) \in Seq(D \cup {x}) /\ Len(s) \in Nat
           /\ Len(Append(s, x)) = Len(s) + 1
           /\ \A k \in 1..Len(s) : Append(s, x)[k] = s[k]
           /\ Append(s, x)[Len(s) + 1] = x
<1>1. s \in Seq(D \cup {x})  BY SeqMonotonic
<1>2. x \in D \cup {x}  OBVIOUS
<1> QED  BY <1>1, <1>2

LEMMA ParserInit == Init => ParserInv
<1> SUFFICES ASSUME Init PROVE ParserInv  OBVIOUS
<1>1. <<>> \in Seq(ItemsOf({})) /\ <<>> \in Seq({}) /\ Len(<<>>) = 0  BY EmptySeq
<1>2. heap = <<>> /\ data_array = <<>> /\ summed = <<>> /\ data_item_count = 0
      /\ list_head = Null /\ list_tail = Null /\ phase = "start"
  BY DEF Init
<1> QED  BY <1>1, <1>2 DEF ParserInv, StoreInv, SumInv, ListIsComplete, Null

\* The scanner and the error paths change nothing of what is stored.
LEMMA ScanStep ==
    ASSUME ParserInv, UNCHANGED <<preallocate, store, average>>,
           phase \notin {"sum", "done", "error", "crashed"}, phase' \notin {"sum", "done"}
    PROVE  ParserInv'
  BY DEF ParserInv, StoreInv, SumInv, ListIsComplete, StoredPoint, store, average

LEMMA StoreInArrayStep ==
    ASSUME ParserInv, StoreInArray
    PROVE  ParserInv'
<1>1. /\ preallocate /\ preallocate' = preallocate
      /\ data_array' = Append(data_array, row) /\ data_item_count' = data_item_count + 1
      /\ heap' = heap /\ summed' = summed /\ phase = "row_end" /\ phase' = "rows"
  BY DEF StoreInArray, Complete, input, average
<1>2. PICK D : data_array \in Seq(D)  BY DEF ParserInv, StoreInv
<1>3. /\ data_array' \in Seq(D \cup {row})
      /\ Len(data_array') = Len(data_array) + 1
  BY <1>1, <1>2, AppendAny
<1> QED  BY <1>1, <1>3 DEF ParserInv, StoreInv, SumInv, ListIsComplete

\* The tail of the list is linked to the new item, which becomes the tail.
LEMMA StoreInListStep ==
    ASSUME ParserInv, StoreInList
    PROVE  ParserInv'
<1> DEFINE n == data_item_count
           new == [data_item |-> row, next_item |-> Null]
<1>1. /\ ~preallocate /\ preallocate' = preallocate
      /\ data_item_count' = n + 1 /\ data_array' = data_array
      /\ summed' = summed /\ phase = "row_end" /\ phase' = "rows"
  BY DEF StoreInList, Complete, input, average
<1>2. /\ n \in Nat /\ Len(heap) = n /\ list_tail = n
      /\ list_head = IF n = 0 THEN Null ELSE 1
      /\ \A k \in 1..n : heap[k].next_item = IF k = n THEN Null ELSE k + 1
  BY <1>1 DEF ParserInv, StoreInv, ListIsComplete
<1>3. PICK D : heap \in Seq(ItemsOf(D))  BY DEF ParserInv, StoreInv
<1> DEFINE E == D \cup {row}
<1>4. heap \in Seq(ItemsOf(E)) /\ new \in ItemsOf(E)
  <2>1. ItemsOf(D) \subseteq ItemsOf(E)  BY DEF ItemsOf
  <2>2. heap \in Seq(ItemsOf(E))  BY <1>3, <2>1, SeqMonotonic
  <2> QED  BY <2>2 DEF ItemsOf, Null
<1>5. NewItem = n + 1  BY <1>2 DEF NewItem
<1> HIDE DEF n, new, E
<1>6. PICK linked \in Seq(ItemsOf(E)) :
        /\ Len(linked) = n
        /\ \A k \in 1..n : linked[k].next_item = k + 1
        /\ heap' = Append(linked, new)
  <2>1. CASE n = 0
    <3>1. list_head = Null  BY <1>2, <2>1
    <3>2. heap' = Append(heap, new)
      BY <3>1 DEF StoreInList, AppendItem, new
    <3>3. Len(heap) = n /\ 1..n = {}  BY <1>2, <2>1
    <3>4. \A k \in 1..n : heap[k].next_item = k + 1  BY <3>3
    <3> QED  BY <1>4, <3>2, <3>3, <3>4, Zenon
  <2>2. CASE n # 0
    <3> DEFINE last == [heap[n] EXCEPT !.next_item = n + 1]
               linked == [heap EXCEPT ![n] = last]
    <3>1. n \in 1..Len(heap) /\ list_head # Null  BY <1>2, <2>2 DEF Null
    <3>2. heap[n] \in ItemsOf(E)  BY <1>4, <3>1
    <3>3. last \in ItemsOf(E) /\ last.next_item = n + 1
      BY <1>2, <3>2 DEF ItemsOf
    <3>4. heap' = Append(linked, new)
      BY <1>2, <1>5, <3>1 DEF StoreInList, AppendItem, new
    <3> HIDE DEF last
    <3>5. /\ linked \in Seq(ItemsOf(E)) /\ Len(linked) = n
          /\ \A k \in 1..n : linked[k] = IF k = n THEN last ELSE heap[k]
      BY <1>2, <1>4, <3>1, <3>3, ExceptSeq
    <3> HIDE DEF linked
    <3>6. \A k \in 1..n : linked[k].next_item = k + 1
      BY <1>2, <3>3, <3>5
    <3> QED  BY <3>4, <3>5, <3>6
  <2> QED  BY <2>1, <2>2
<1>7. /\ heap' \in Seq(ItemsOf(E)) /\ Len(heap') = n + 1
      /\ \A k \in 1..n : heap'[k] = linked[k]
      /\ heap'[n + 1].next_item = Null
  BY <1>2, <1>4, <1>6 DEF new
<1>8. /\ list_tail' = n + 1 /\ list_head' = 1
  BY <1>2, <1>5 DEF StoreInList, AppendItem, Null
<1>9. ListIsComplete'
  <2>1. ASSUME NEW k \in 1..n + 1
        PROVE  heap'[k].next_item = IF k = n + 1 THEN Null ELSE k + 1
    <3>1. k \in 1..n \/ k = n + 1  BY <1>2
    <3> QED  BY <1>2, <1>6, <1>7, <3>1
  <2> QED  BY <1>1, <1>2, <1>7, <1>8, <2>1 DEF ListIsComplete
<1>10. StoreInv'
  BY <1>1, <1>2, <1>7, <1>9 DEF ParserInv, StoreInv
<1> QED  BY <1>1, <1>10 DEF ParserInv, SumInv

LEMMA StartAverageStep ==
    ASSUME ParserInv, StartAverage
    PROVE  ParserInv'
<1>1. /\ UNCHANGED <<preallocate, store, summed>>
      /\ summed = <<>> /\ item' = list_head /\ phase' \in {"sum", "error"}
      /\ ~preallocate /\ phase' = "sum" => list_head # Null
  BY DEF StartAverage, ParserInv, SumInv, input
<1>2. StoreInv'  BY <1>1 DEF ParserInv, StoreInv, ListIsComplete, store
<1>3. SumInv'
  <2>1. Len(summed) = 0 /\ data_item_count \in Nat
        /\ (~preallocate => list_head = IF data_item_count = 0 THEN Null ELSE 1)
    BY <1>1, EmptySeq DEF ParserInv, StoreInv, ListIsComplete
  <2> QED  BY <1>1, <2>1 DEF ParserInv, SumInv, store, StoredPoint
<1> QED  BY <1>2, <1>3 DEF ParserInv

\* One more point is added up, in the array or by the link to it.
LEMMA SumStep ==
    ASSUME ParserInv, SumArray \/ SumList
    PROVE  ParserInv'
<1> DEFINE t == Len(summed)
<1>1. PICK D : summed \in Seq(D)  BY DEF ParserInv, SumInv
<1>2. /\ phase = "sum" /\ phase' = "sum" /\ UNCHANGED <<preallocate, store>>
      /\ data_item_count \in Nat /\ t \in Nat /\ t <= data_item_count
      /\ ~preallocate => item = IF t = data_item_count THEN Null ELSE t + 1
      /\ \A k \in 1..t : summed[k] = StoredPoint(k)
  BY <1>1, LenProperties DEF SumArray, SumList, ParserInv, StoreInv, SumInv, input
<1>3. /\ t < data_item_count /\ summed' = Append(summed, StoredPoint(t + 1))
      /\ ~preallocate => item' = heap[t + 1].next_item
  BY <1>2 DEF SumArray, SumList, StoredPoint, count_values
<1>4. /\ summed' \in Seq(D \cup {StoredPoint(t + 1)}) /\ Len(summed') = t + 1
      /\ \A k \in 1..t : summed'[k] = summed[k]
      /\ summed'[t + 1] = StoredPoint(t + 1)
  BY <1>1, <1>3, AppendAny
<1> HIDE DEF t
<1>5. \A k : StoredPoint(k)' = StoredPoint(k)  BY <1>2 DEF StoredPoint, store
<1>6. \A k \in 1..t + 1 : summed'[k] = StoredPoint(k)
  <2>1. \A k \in 1..t + 1 : k \in 1..t \/ k = t + 1  BY <1>2
  <2> QED  BY <1>2, <1>4, <2>1
<1>7. ~preallocate => item' = IF t + 1 = data_item_count THEN Null ELSE t + 2
  BY <1>2, <1>3 DEF ParserInv, StoreInv, ListIsComplete
<1>8. StoreInv'  BY <1>2 DEF ParserInv, StoreInv, ListIsComplete, store
<1>9. SumInv'
  <2>1. /\ data_item_count' = data_item_count /\ t + 1 <= data_item_count
        /\ (t + 1) + 1 = t + 2
    BY <1>2, <1>3 DEF store
  <2> QED  BY <1>2, <1>4, <1>5, <1>6, <1>7, <2>1 DEF SumInv
<1> QED  BY <1>8, <1>9 DEF ParserInv

LEMMA FinishStep ==
    ASSUME ParserInv, Finish
    PROVE  ParserInv'
<1>1. /\ phase = "sum" /\ phase' = "done" /\ UNCHANGED <<preallocate, store, average>>
      /\ IF preallocate THEN Len(summed) = data_item_count ELSE item = Null
  BY DEF Finish, count_values, input
<1>2. Len(summed) = data_item_count
  <2>1. Len(summed) \in Nat  BY LenProperties DEF ParserInv, SumInv
  <2> QED  BY <1>1, <2>1 DEF ParserInv, SumInv, Null
<1> QED  BY <1>1, <1>2
         DEF ParserInv, StoreInv, SumInv, ListIsComplete, StoredPoint, store, average

LEMMA ParserNext == ParserInv /\ [Next]_vars => ParserInv'
<1> SUFFICES ASSUME ParserInv, [Next]_vars PROVE ParserInv'  OBVIOUS
<1>1. CASE ReadFile \/ ReadFails
  BY <1>1, ScanStep DEF ReadFile, ReadFails, input
<1>2. CASE FindHeader
  <2>1. phase = "header" /\ phase' \in {"error", "rows", "header"}
        /\ UNCHANGED <<preallocate, store, average>>
    BY <1>2 DEF FindHeader, input
  <2> QED  BY <2>1, ScanStep
<1>3. CASE StartRow \/ EndRows
  BY <1>3, ScanStep DEF StartRow, EndRows, input
<1>4. CASE ParseName \/ RejectName
  BY <1>4, ScanStep DEF ParseName, RejectName, InRow, input
<1>5. CASE ParseValue \/ RejectValue
  BY <1>5, ScanStep DEF ParseValue, RejectValue, input
<1>6. CASE BreakRow \/ CompleteRow \/ RejectRow
  BY <1>6, ScanStep DEF BreakRow, RunsOut, InRow, CompleteRow, RejectRow, input
<1>7. CASE CrashInArray \/ OutOfMemory
  BY <1>7, ScanStep DEF CrashInArray, OutOfMemory, Complete, input
<1>8. CASE StoreInArray  BY <1>8, StoreInArrayStep
<1>9. CASE StoreInList  BY <1>9, StoreInListStep
<1>10. CASE StartAverage  BY <1>10, StartAverageStep
<1>11. CASE SumArray \/ SumList  BY <1>11, SumStep
<1>12. CASE Finish  BY <1>12, FinishStep
<1>13. CASE UNCHANGED vars
  BY <1>13 DEF vars, input, store, average, ParserInv, StoreInv, SumInv, ListIsComplete,
               StoredPoint
<1> QED  BY <1>1, <1>2, <1>3, <1>4, <1>5, <1>6, <1>7, <1>8, <1>9, <1>10, <1>11, <1>12, <1>13
         DEF Next, Run, Terminated

LEMMA SpecInv == Spec => []ParserInv
  BY ParserInit, ParserNext, PTL DEF Spec

-----------------------------------------------------------------------------
\* What parse_file links is a list of all the items, from head to tail.
THEOREM ParserListIsComplete == Spec => []ListIsComplete
<1>1. ParserInv => ListIsComplete  BY DEF ParserInv, StoreInv
<1> QED  BY <1>1, SpecInv, PTL

\* A program that ends normally has added up every stored point once.
THEOREM ParserAverageIsOfTheStored == Spec => []AverageIsOfTheStored
<1>1. ParserInv => AverageIsOfTheStored  BY DEF ParserInv, SumInv, AverageIsOfTheStored
<1> QED  BY <1>1, SpecInv, PTL

-----------------------------------------------------------------------------
(* The scanner.                                                            *)

LEMMA Least ==
    ASSUME NEW S, S \subseteq Nat, S # {}
    PROVE  \E m \in S : \A n \in S : m <= n
<1> DEFINE R == OpToRel(<, Nat)
<1>1. IsWellFoundedOn(R, Nat)  BY NatLessThanWellFounded
<1>2. \A a, b \in Nat : <<a, b>> \in R <=> a < b  BY DEF OpToRel
<1> HIDE DEF R
<1>3. PICK m \in S : \A n \in S : ~(<<n, m>> \in R)  BY <1>1, WFMin
<1>4. ASSUME NEW n \in S PROVE m <= n
  <2>1. <<n, m>> \notin R  BY <1>3
  <2>2. n \in Nat /\ m \in Nat  OBVIOUS
  <2>3. ~(n < m)  BY <1>2, <2>1, <2>2
  <2> QED  BY <2>2, <2>3
<1> QED  BY <1>4

\* Where the scan for a character stops, if it does not run out.
LEMMA AdvanceUntil ==
    ASSUME text \in Seq(Token), NEW p \in Nat \ {0}, NEW c
    PROVE  LET at == advance_until(p, c)
           IN  \/ at = None
               \/ at \in p..Len(text) /\ text[at].text = c
                  /\ \A r \in p..at - 1 : text[r].text # c
<1> DEFINE S == {q \in p..Len(text) : text[q].text = c}
<1>1. Len(text) \in Nat  OBVIOUS
<1>2. CASE S = {}  BY <1>2 DEF advance_until
<1>3. CASE S # {}
  <2>1. S \subseteq Nat  BY <1>1
  <2>2. PICK m \in S : \A n \in S : m <= n  BY <1>3, <2>1, Least
  <2>3. \A r \in p..m - 1 : text[r].text # c  BY <1>1, <2>1, <2>2
  <2>4. \E q \in p..Len(text) : text[q].text = c /\ \A r \in p..q - 1 : text[r].text # c
    BY <2>2, <2>3
  <2>5. ~(\A q \in p..Len(text) : text[q].text # c)  BY <2>2
  <2> QED  BY <2>4, <2>5, Zenon DEF advance_until
<1> QED  BY <1>2, <1>3

LEMMA ScanTypes ==
    ASSUME text \in Seq(Token), NEW p \in 1..End, NEW c
    PROVE  LET at == advance_until(p, c)
           IN  /\ at = None \/ at \in p..Len(text)
               /\ Behind(at) \in p..End
               /\ extract_until(p, at) \in Seq(Token)
<1> DEFINE at == advance_until(p, c)
<1>1. Len(text) \in Nat /\ p \in Nat \ {0} /\ p <= Len(text) + 1  BY DEF End
<1>2. at = None \/ at \in p..Len(text)  BY <1>1, AdvanceUntil
<1> HIDE DEF at
<1>3. Behind(at) \in p..End  BY <1>1, <1>2 DEF Behind, End, None
<1>4. extract_until(p, at) \in Seq(Token)
  <2> DEFINE last == IF at = None THEN Len(text) ELSE at - 1
  <2>1. last \in Int /\ last <= Len(text)  BY <1>1, <1>2 DEF None
  <2> HIDE DEF last
  <2>2. \A k \in p..last : k \in 1..Len(text)  BY <1>1, <2>1
  <2>3. SubSeq(text, p, last) \in Seq(Token)  BY <1>1, <2>1, <2>2, SubSeqProperties
  <2> QED  BY <2>3 DEF extract_until, last
<1> QED  BY <1>2, <1>3, <1>4 DEF at

\* A value is that of a token, or any when the text may be continued.
LEMMA ScannedType ==
    ASSUME NEW s \in Seq(Token)
    PROVE  Scanned(s) \subseteq Values \cup {0}
<1>1. ASSUME NEW k \in DOMAIN s PROVE s[k].value \in Values \cup {0}
  <2>1. k \in 1..Len(s)  BY <1>1, LenProperties
  <2>2. s[k] \in Token  BY <2>1, ElementOfSeq
  <2> QED  BY <2>2 DEF Token
<1> QED  BY <1>1 DEF Scanned

-----------------------------------------------------------------------------
(* The types.                                                              *)

\* What the counters of a scan are while it goes on.
ScanInv ==
    /\ phase \in {"start", "header"} => matched < Len(Header)
    /\ phase = "value" => item_count < 4
TypeInv == TypeOK /\ ScanInv

LEMMA DocumentType ==
    ASSUME document \in Documents
    PROVE  text \in Seq(Token) /\ Len(text) \in Nat /\ document.size \in Nat
<1>1. text \in Seq(Token) /\ document.size \in Nat  BY JsonAssumption DEF text
<1> QED  BY <1>1

LEMMA EstimateType == \A size \in Nat : estimate_total_entries(size) \in Nat \cup {Unbounded}
<1> SUFFICES ASSUME NEW size \in Nat, ~(size < JSON_OVERHEAD_SIZE)
             PROVE  estimate_total_entries(size) \in Nat
  BY DEF estimate_total_entries
<1>1. size - JSON_OVERHEAD_SIZE + JSON_MIN_ROW_SIZE - 1 \in Nat
  BY DEF JSON_OVERHEAD_SIZE, JSON_MIN_ROW_SIZE
<1>2. \A n \in Nat : n \div 101 \in Nat  OBVIOUS
<1> QED  BY <1>1, <1>2 DEF estimate_total_entries, JSON_MIN_ROW_SIZE

LEMMA TypeInit == Init => TypeInv
<1> SUFFICES ASSUME Init PROVE TypeInv  OBVIOUS
<1> USE DEF Init
<1>1. /\ document \in Documents /\ document.size \in Nat /\ Len(text) \in Nat
      /\ Garbage \in Int /\ Values \subseteq Int
  BY DocumentType, JsonAssumption
<1>2. item_estimate \in Nat \cup {Unbounded}  BY <1>1, EstimateType
<1>3. pos \in 1..End  BY <1>1 DEF End
<1>4. row \in data_item_s  BY DEF data_item_s, Doubles
<1>5. heap \in Seq(ListItem) /\ data_array \in Seq(data_item_s) /\ summed \in Seq(data_item_s)
      /\ Len(heap) = 0
  BY EmptySeq
<1>6. matched \in 0..Len(Header) /\ matched < Len(Header)  BY DEF Header
<1> QED  BY <1>1, <1>2, <1>3, <1>4, <1>5, <1>6 DEF TypeInv, TypeOK, ScanInv, Null

LEMMA TypeNext == ParserInv /\ TypeInv /\ [Next]_vars => TypeInv'
<1> SUFFICES ASSUME ParserInv, TypeInv, [Next]_vars PROVE TypeInv'  OBVIOUS
<1>0. /\ text \in Seq(Token) /\ Len(text) \in Nat /\ Len(Header) = 10
      /\ document \in Documents
  BY DocumentType DEF TypeInv, TypeOK, Header
\* A step that only goes on to the next stage, or ends the process.
<1>1. ASSUME UNCHANGED <<input, scanner, store, average>>,
             phase' \in {"header", "row_end", "done", "error", "crashed"},
             phase' = "header" => phase = "start"
      PROVE  TypeInv'
  BY <1>1 DEF TypeInv, TypeOK, ScanInv, input, scanner, store, average, End, text
\* A step of the scanner.
<1>2. ASSUME UNCHANGED <<input, store, average>>,
             pos' \in 1..End, matched' \in 0..Len(Header), row' \in data_item_s,
             found' \subseteq Names, item_count' \in 0..4, found_item' \in Names \cup {"none"},
             phase' \in {"header", "rows", "items", "value", "row_end", "parsed", "error"},
             phase' = "header" => matched' < Len(Header),
             phase' = "value" => item_count' < 4 /\ found_item' \in Names
      PROVE  TypeInv'
  BY <1>2 DEF TypeInv, TypeOK, ScanInv, input, store, average, End, text
\* A step of the stores or of the average.
<1>3. ASSUME UNCHANGED <<input, scanner>>,
             heap' \in Seq(ListItem), {list_head', list_tail', item'} \subseteq 0..Len(heap'),
             data_array' \in Seq(data_item_s), data_item_count' \in Nat,
             summed' \in Seq(data_item_s), phase' \in {"rows", "sum", "error"}
      PROVE  TypeInv'
  BY <1>3 DEF TypeInv, TypeOK, ScanInv, input, scanner, End, text
<1>4. /\ pos \in 1..End /\ row \in data_item_s /\ found \subseteq Names /\ item_count \in 0..4
      /\ matched \in 0..Len(Header) /\ found_item \in Names \cup {"none"}
      /\ phase = "value" => item_count < 4 /\ found_item \in Names
      /\ phase = "header" => matched < Len(Header)
      /\ heap \in Seq(ListItem) /\ {list_head, list_tail, item} \subseteq 0..Len(heap)
      /\ data_array \in Seq(data_item_s) /\ data_item_count \in Nat
      /\ summed \in Seq(data_item_s) /\ Len(heap) \in Nat
  BY DEF TypeInv, TypeOK, ScanInv
<1>5. CASE ReadFile \/ ReadFails  BY <1>1, <1>5 DEF ReadFile, ReadFails
<1>6. CASE RejectName \/ RejectValue \/ RejectRow \/ OutOfMemory
  BY <1>1, <1>6 DEF RejectName, RejectValue, RejectRow, OutOfMemory
<1>7. CASE CompleteRow \/ CrashInArray \/ Finish
  BY <1>1, <1>7 DEF CompleteRow, CrashInArray, Finish
<1>8. CASE FindHeader
  <2> DEFINE at == advance_until(pos, Header[matched + 1])
  <2>1. Behind(at) \in pos..End  BY <1>0, <1>4, ScanTypes
  <2> HIDE DEF at
  <2>2. /\ phase = "header" /\ pos' = Behind(at)
        /\ matched' = IF at = None THEN matched ELSE matched + 1
        /\ phase' = IF at = None THEN "error"
                    ELSE IF matched + 1 = Len(Header) THEN "rows" ELSE "header"
        /\ UNCHANGED <<input, row, found, found_item, item_count, store, average>>
    BY <1>8 DEF FindHeader, at
  <2>3. pos' \in 1..End /\ End \in Int  BY <1>0, <1>4, <2>1, <2>2 DEF End
  <2>4. matched' \in 0..Len(Header) /\ (phase' = "header" => matched' < Len(Header))
        /\ phase' \in {"header", "rows", "error"}
    BY <1>0, <1>4, <2>2
  <2> QED  BY <1>2, <1>4, <2>2, <2>3, <2>4
<1>9. CASE StartRow
  <2>1. /\ advance_until(pos, "{") # None /\ pos' = advance_until(pos, "{") + 1
        /\ phase' = "items" /\ item_count' = 0 /\ found' \subseteq Names
        /\ UNCHANGED <<input, matched, row, found_item, store, average>>
    BY <1>9 DEF StartRow
  <2> DEFINE at == advance_until(pos, "{")
  <2>2. at \in pos..Len(text)  BY <1>0, <1>4, <2>1, ScanTypes
  <2> HIDE DEF at
  <2>3. pos' = at + 1  BY <2>1 DEF at
  <2>4. End = Len(text) + 1  BY DEF End
  <2>5. pos' \in 1..End  BY <1>0, <1>4, <2>2, <2>3, <2>4
  <2>6. item_count' = 0  BY <1>9 DEF StartRow
  <2>7. item_count' \in 0..4  BY <2>6
  <2> QED  BY <1>2, <1>4, <2>1, <2>5, <2>7
<1>10. CASE EndRows
  <2>1. pos' \in 1..End
    <3>1. pos' = Len(text) + 1  BY <1>10 DEF EndRows, End
    <3> QED  BY <1>0, <3>1 DEF End
  <2> QED  BY <1>2, <1>4, <1>10, <2>1 DEF EndRows
<1>11. CASE ParseName
  <2>1. NameStart \in pos..Len(text)
    BY <1>0, <1>4, <1>11, ScanTypes DEF ParseName, NameStart
  <2>2. NameStart + 1 \in 1..End  BY <1>0, <1>4, <2>1 DEF End
  <2>3. Behind(NameEnd) \in 1..End
    <3>1. Behind(NameEnd) \in NameStart + 1..End
      BY <1>0, <2>2, ScanTypes DEF NameEnd
    <3> QED  BY <1>0, <2>2, <3>1 DEF End
  <2>4. phase' = "value" /\ item_count' = item_count /\ item_count < 4
        /\ found_item' \in Names /\ pos' = Behind(NameEnd)
        /\ UNCHANGED <<input, matched, row, found, item_count, store, average>>
    BY <1>11 DEF ParseName, InRow, Identified
  <2> QED  BY <1>2, <1>4, <2>3, <2>4
<1>12. CASE ParseValue
  <2>1. Colon \in pos..Len(text)
    BY <1>0, <1>4, <1>12, ScanTypes DEF ParseValue, Colon
  <2>2. Colon + 1 \in 1..End  BY <1>0, <1>4, <2>1 DEF End
  <2>3. Behind(ValueEnd) \in 1..End /\ ItemValue \in Seq(Token)
    <3>1. Behind(ValueEnd) \in Colon + 1..End /\ ItemValue \in Seq(Token)
      BY <1>0, <2>2, ScanTypes DEF ValueEnd, ItemValue
    <3> QED  BY <1>0, <2>2, <3>1 DEF End
  <2>4. PICK value \in Scanned(ItemValue) : row' = [row EXCEPT ![found_item] = value]
    BY <1>12 DEF ParseValue
  <2>5. row' \in data_item_s
    <3>1. value \in Doubles  BY <2>3, <2>4, ScannedType DEF Doubles
    <3> QED  BY <1>4, <2>4, <3>1 DEF data_item_s
  <2>6. /\ phase = "value" /\ phase' = "items" /\ item_count' = item_count + 1
        /\ found' = found \cup {found_item} /\ pos' = Behind(ValueEnd)
        /\ UNCHANGED <<input, matched, found_item, store, average>>
    BY <1>12 DEF ParseValue
  <2>7. item_count' \in 0..4 /\ found' \subseteq Names  BY <1>4, <2>6
  <2> QED  BY <1>2, <1>4, <2>3, <2>5, <2>6, <2>7
<1>13. CASE BreakRow
  <2>1. pos' \in 1..End  BY <1>0, <1>13 DEF BreakRow, End
  <2> QED  BY <1>2, <1>4, <1>13, <2>1 DEF BreakRow
<1>14. CASE StoreInArray
  <2>1. data_array' \in Seq(data_item_s) /\ data_item_count' \in Nat
    BY <1>4, <1>14 DEF StoreInArray
  <2> QED  BY <1>3, <1>4, <1>14, <2>1 DEF StoreInArray, average
<1>15. CASE StoreInList
  <2> DEFINE new == [data_item |-> row, next_item |-> Null]
             n == Len(heap)
  <2>1. /\ ~preallocate /\ phase' = "rows" /\ data_item_count' = data_item_count + 1
        /\ UNCHANGED <<input, scanner, data_array, average>>
    BY <1>15 DEF StoreInList
  <2>2. list_head # Null => list_tail \in 1..n
    BY <1>4, <2>1 DEF ParserInv, StoreInv, ListIsComplete, Null
  <2>3. new \in ListItem /\ NewItem = n + 1  BY <1>4 DEF ListItem, Null, NewItem
  <2> HIDE DEF new
  <2>4. PICK linked \in Seq(ListItem) : Len(linked) = n /\ heap' = Append(linked, new)
    <3>1. CASE list_head = Null
      <4>1. heap' = Append(heap, new)
        BY <1>15, <3>1 DEF StoreInList, AppendItem, new
      <4> QED  BY <1>4, <4>1
    <3>2. CASE list_head # Null
      <4> DEFINE last == [heap[list_tail] EXCEPT !.next_item = n + 1]
                 linked == [heap EXCEPT ![list_tail] = last]
      <4>1. heap[list_tail] \in ListItem  BY <1>4, <2>2, <3>2
      <4>2. last \in ListItem
        <5>1. n + 1 \in Nat  BY <1>4
        <5> QED  BY <4>1, <5>1 DEF ListItem
      <4>3. heap' = Append(linked, new)
        BY <1>15, <2>3, <3>2 DEF StoreInList, AppendItem, new
      <4> HIDE DEF last
      <4>4. linked \in Seq(ListItem) /\ Len(linked) = n
        BY <1>4, <2>2, <3>2, <4>2, ExceptSeq
      <4> QED  BY <4>3, <4>4
    <3> QED  BY <3>1, <3>2
  <2>5. heap' \in Seq(ListItem) /\ Len(heap') = n + 1  BY <2>3, <2>4
  <2>6. {list_head', list_tail', item'} \subseteq 0..Len(heap')
    <3>1. list_head' \in {NewItem, list_head} /\ list_tail' = NewItem /\ item' = item
      BY <1>15 DEF StoreInList, AppendItem, average
    <3> QED  BY <1>4, <2>3, <2>5, <3>1
  <2> QED  BY <1>3, <1>4, <2>1, <2>5, <2>6 DEF average
<1>16. CASE StartAverage
  BY <1>3, <1>4, <1>16 DEF StartAverage, store
<1>17. CASE SumArray
  <2>1. count_values + 1 \in 1..Len(data_array)
    BY <1>4, <1>17 DEF SumArray, count_values, ParserInv, StoreInv
  <2>2. data_array[count_values + 1] \in data_item_s  BY <1>4, <2>1
  <2>3. summed' \in Seq(data_item_s)  BY <1>4, <1>17, <2>2 DEF SumArray
  <2> QED  BY <1>3, <1>4, <1>17, <2>3 DEF SumArray, store
<1>18. CASE SumList
  <2>1. ~preallocate /\ item \in 1..Len(heap) /\ item' = heap[item].next_item
        /\ summed' = Append(summed, heap[item].data_item)
    BY <1>4, <1>18 DEF SumList, Null
  <2>2. heap[item] \in ListItem  BY <1>4, <2>1
  <2>3. summed' \in Seq(data_item_s)  BY <1>4, <2>1, <2>2 DEF ListItem
  <2>4. item' \in 0..Len(heap)
    <3>1. /\ Len(heap) = data_item_count
          /\ heap[item].next_item = IF item = data_item_count THEN Null ELSE item + 1
      BY <2>1 DEF ParserInv, StoreInv, ListIsComplete
    <3> QED  BY <1>4, <2>1, <3>1 DEF Null
  <2> QED  BY <1>3, <1>4, <1>18, <2>3, <2>4 DEF SumList, store
<1>19. CASE UNCHANGED vars
  BY <1>19 DEF vars, TypeInv, TypeOK, ScanInv, input, scanner, store, average, End, text
<1> QED  BY <1>5, <1>6, <1>7, <1>8, <1>9, <1>10, <1>11, <1>12, <1>13, <1>14, <1>15, <1>16,
            <1>17, <1>18, <1>19 DEF Next, Run, Terminated

\* The state keeps its types whatever the document is: the scan never leaves the file and
\* a link never leads to an item that was not allocated.
THEOREM ParserTypeCorrect == Spec => []TypeOK
<1>1. TypeInv => TypeOK  BY DEF TypeInv
<1> QED  BY <1>1, SpecInv, TypeInit, TypeNext, PTL DEF Spec
===============================================================================
