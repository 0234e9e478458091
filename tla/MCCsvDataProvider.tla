-------------------------- MODULE MCCsvDataProvider --------------------------
(***************************************************************************)
(* Files and tables to check CsvDataProvider on.  A field is a number,     *)
(* one of two names or empty; "x" stands where a number is expected.       *)
(***************************************************************************)
EXTENDS CsvDataProvider_inv

MCFields == {"", "a", "b", "7", "8", "x"}

MCStoull == [f \in {"7", "8"} |-> IF f = "7" THEN 7 ELSE 8]

Blank == <<>>

Names == [i \in 1..2 |-> IF i = 1 THEN "a" ELSE "b"]

File(lines, newline) == [lines |-> lines, newline |-> newline]

\* Rows of two, three and, in the middle, fewer fields than the first; a row
\* whose payload is no number; blank lines at the end, and between two rows; empty
\* fields on the first line, which are not counted, and below it.
ReadableFiles ==
    {File(lines, newline) :
        lines \in {<<<<"a", "7">>, <<"b", "8">>, <<"a", "8">>>>,
                   <<<<"a", "b", "7">>, <<"b", "8">>, <<"a", "a", "8">>>>,
                   <<<<"7", "8">>, <<"8", "7">>>>,
                   <<<<"a", "7">>, <<"b", "x">>, <<"a", "8">>>>,
                   <<<<"a", "b", "7">>, <<"a", "b", "8">>, <<"b", "b", "x">>>>},
        newline \in BOOLEAN}
    \cup {File(<<<<"a", "7">>, <<"b", "8">>, Blank, Blank>>, TRUE),
          File(<<<<"a", "7">>, Blank, <<"b", "8">>>>, TRUE),
          File(<<<<"a", "7">>, <<"b", "8">>, Blank, <<"a", "8">>, Blank, <<"b", "7">>>>, FALSE),
          File(<<<<"a", "7">>>>, FALSE),
          File(<<<<"a", "7">>, <<"", "8">>, <<"b", "">>>>, TRUE),
          File(<<<<"a", "", "7">>, <<"b", "a", "8">>>>, TRUE)}

Table(columns, numbers, names) ==
    [items |-> columns, payloads |-> numbers, header |-> names]

MCTables ==
    {Table(<<Names>>, <<<<7, 8>>>>, <<>>),
     Table(<<Names>>, <<>>, <<"x">>),
     Table(<<Names, <<"b", "b">>>>, <<<<8, 7>>>>, <<"a", "b", "x">>),
     Table(<<Names, <<"x", "a">>>>, <<<<7, 7>>, <<8, 7>>>>, <<>>),
     Table(<<<<>>>>, <<<<>>>>, <<"a", "x">>),
     Table(<<<<"", "b">>>>, <<<<7, 8>>>>, <<"a", "x">>),
     Table(<<<<"a", "">>, <<"", "b">>>>, <<<<7, 8>>>>, <<"a", "b", "x">>),
     Table(<<<<"a", "">>>>, <<<<7, 8>>>>, <<>>),
     Table(<<<<"a", "b">>, <<"", "b">>>>, <<<<7, 8>>>>, <<>>),
     Table(<<Names>>, <<<<7, 8>>>>, <<"a", "">>),
     Table(<<<<"a", "", "b">>>>, <<>>, <<"x">>)}
=============================================================================
