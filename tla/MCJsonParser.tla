---------------------------- MODULE MCJsonParser ----------------------------
(***************************************************************************)
(* Files for the JSON data parser: what the data generator writes, rows in *)
(* another order and with white space, files cut at any place, and files   *)
(* with one fault.                                                         *)
(***************************************************************************)
EXTENDS JsonParser

SomeValues == 1..26
UninitializedValue == -1

Space == Char(" ")

\* The data generator: a row of four numbers of 16 decimals, 18 to 21 characters.
GeneratedOrder == <<"x0", "y0", "x1", "y1">>
ValueOf(k, n) == 2 * k + (IF n \in {"x0", "x1"} THEN 0 ELSE 1)
Point(k) == [n \in Names |-> ValueOf(k, n)]
PointRow(k, order, width, separator) ==
    Row([j \in 1..4 |-> Item(order[j], Number(ValueOf(k, order[j]), width))], separator)

File(s, points, cut) == [text |-> s, size |-> Width(s), points |-> points, cut |-> cut]
Generated(n, width) ==
    File(Opening \o Rows([k \in 1..n |-> PointRow(k, GeneratedOrder, width, Comma)]) \o Closing,
         [k \in 1..n |-> Point(k)], FALSE)
GeneratedFiles == {Generated(n, w) : n \in 1..3, w \in 18..21}

\* Rows by hand: the items in any order, with other white space.
Orders == {o \in [1..4 -> Names] : \A a, b \in 1..4 : o[a] = o[b] => a = b}
Separators == {Chars(<<",">>), Chars(<<" ", ",", " ", " ">>)}
ByHand(order, separator) ==
    File(Opening \o Rows(<<PointRow(1, order, 30, separator),
                           PointRow(2, GeneratedOrder, 30, separator)>>) \o Closing,
         <<Point(1), Point(2)>>, FALSE)
ByHandFiles == {ByHand(o, sep) : o \in Orders, sep \in Separators}

\* A generated file of two rows that ends after k tokens.  A row is complete with the
\* last character of its last number.
TwoRows == Generated(2, 20).text
RowEnds == {Len(Opening) + Len(PointRow(1, GeneratedOrder, 20, Comma)) - 1,
            Len(TwoRows) - Len(Closing) - 1}
Cut(k) == File(SubSeq(TwoRows, 1, k),
               [r \in 1..Cardinality({e \in RowEnds : e <= k}) |-> Point(r)], TRUE)
CutFiles == {Cut(k) : k \in 0..Len(TwoRows)}
\* The same, ending inside a number.
CutNumber(k) == File(SubSeq(TwoRows, 1, k - 1) \o <<Number(26, 4)>>, Cut(k - 1).points,
                     TRUE)
CutNumberFiles ==
    {CutNumber(k) : k \in {n \in 1..Len(TwoRows) : TwoRows[n].text = "number"}}

\* One fault each: no header, another name, a name or a value that is too long, a value
\* that fills the buffer, a value that is missing, an empty list.
Faulty(s) == File(s, <<>>, TRUE)
OneItem(name, value) == Opening \o Chars(<<"{", "\"">>) \o name \o Chars(<<"\"", ":">>) \o value
FaultyFiles == {Faulty(s) : s \in {
    Closing, Chars(<<"{", "\"", "p", "a", "i", "r", "s", "[">>), Opening \o Closing,
    OneItem(<<Name("id")>>, <<Number(1, 9)>>),
    OneItem(<<Name("x0"), Space>>, <<Number(1, 9)>>),
    OneItem([k \in 1..9 |-> Space], <<Number(1, 9)>>),
    OneItem(<<Name("x0")>>, <<Number(1, 65), Char(",")>>),
    OneItem(<<Name("x0")>>, <<Number(1, 64), Char(",")>>),
    OneItem(<<Name("x0")>>, <<Space, Char(",")>>),
    OneItem(<<Name("x0")>>, <<Char("\""), Number(1, 9), Char("\""), Char(",")>>)}}

\* Three rows of numbers with few digits, written by hand.
ShortRows == {File(Opening \o Rows([k \in 1..3 |-> PointRow(k, GeneratedOrder, 3, Comma)])
                    \o Closing, [k \in 1..3 |-> Point(k)], FALSE)}
\* A file that ends behind the first name of its second row.
CutRow == {Cut(Len(Opening) + 34)}

SomeFiles == GeneratedFiles \cup ByHandFiles \cup CutFiles \cup CutNumberFiles
             \cup FaultyFiles \cup ShortRows
=============================================================================
