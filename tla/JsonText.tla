------------------------------ MODULE JsonText ------------------------------
(***************************************************************************)
(* The text of a JSON file of points as the data generator prints it       *)
(* (data_gen/data_gen.c): a sequence of tokens, each a character, a name or*)
(* a number, with the characters it takes.  Blanks and newlines are " ".   *)
(***************************************************************************)
EXTENDS Integers, Sequences, SequencesExt

Char(c) == [text |-> c, width |-> 1, value |-> 0]
Chars(s) == [k \in DOMAIN s |-> Char(s[k])]
Name(n) == [text |-> n, width |-> 2, value |-> 0]
Number(v, width) == [text |-> "number", width |-> width, value |-> v]

\* How many characters a text takes.
Width(s) ==
    LET width[k \in 0..Len(s)] == IF k = 0 THEN 0 ELSE width[k - 1] + s[k].width
    IN  width[Len(s)]

Opening == Chars(<<"{", "\"", "p", "a", "i", "r", "s", "\"", ":", "[", " ">>)
Closing == Chars(<<" ", "]", "}", " ">>)
Comma == Chars(<<",", " ">>)

\* The texts one after the other, separated.
Joined(texts, separator) ==
    LET joined[k \in 0..Len(texts)] ==
            IF k = 0 THEN <<>>
            ELSE IF k = 1 THEN texts[1] ELSE joined[k - 1] \o separator \o texts[k]
    IN  joined[Len(texts)]

\* "x0":10.5
Item(name, number) == Chars(<<"\"">>) \o <<Name(name)>> \o Chars(<<"\"", ":">>) \o <<number>>
Row(items, separator) == Chars(<<"{">>) \o Joined(items, separator) \o Chars(<<"}">>)
Rows(rows) == Joined(rows, Comma)
=============================================================================
