------------------------- MODULE CsvDataProvider_inv -------------------------
(***************************************************************************)
(* The inductive invariant of CsvDataProvider.  The provider has counted   *)
(* the rows of the file it reads; unless a batch of the scan has thrown,   *)
(* its index is as far from the first row as the stream; and what the      *)
(* caller holds are the rows in between.  No scan comes to the end of the  *)
(* stream before its index has come to the number of rows.                 *)
(***************************************************************************)
EXTENDS CsvDataProvider

FirstRow == IF has_header THEN 2 ELSE 1

\* The file is the one write_data_to_file has written.
WrittenFile ==
    written # None =>
        /\ written \in Tables /\ written.items # <<>>
        /\ file = [lines |-> WriteDataToFile(written), newline |-> TRUE]

\* What the constructor has counted.
Counted ==
    /\ rows_num = RowsNum(file.lines, has_header)
    /\ columns_num = ColumnsNum(file.lines)
    /\ items_columns_num \in 1..columns_num
    /\ written # None => /\ has_header <=> written.header # <<>>
                         /\ items_columns_num = Len(written.items)

\* The caller's vectors have the columns of the method.
Shaped ==
    /\ DOMAIN items = 1..Columns(method).items
    /\ DOMAIN payloads = 1..Columns(method).payloads

InStep ==
    /\ ~threw => stream.next = FirstRow + cur_line_idx
    /\ stream.eof => stream.next > Len(file.lines)

CsvInv ==
    /\ TypeOK /\ WrittenFile
    /\ method = "closed" => items = <<>> /\ payloads = <<>>
    /\ method # "closed" => Counted /\ Shaped /\ InStep
    /\ RowsInOrder
=============================================================================
