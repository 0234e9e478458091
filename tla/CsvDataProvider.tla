--------------------------- MODULE CsvDataProvider ---------------------------
(***************************************************************************)
(* data/csv_data_provider.cpp: a table read from a file in batches, and    *)
(* written to one.                                                         *)
(*                                                                         *)
(* A file is a sequence of lines, a line a sequence of fields; the blank   *)
(* line is <<>>.  The provider counts the rows of the file once and then   *)
(* keeps an index of its own beside the position of the stream.  A caller  *)
(* scans the table: it gets batches, by one of the four methods, appended  *)
(* to the same vectors, until it seeks the beginning again.                *)
(***************************************************************************)
EXTENDS Integers, Sequences, FiniteSets, Selection

CONSTANTS
    Fields,     \* texts without a comma or a newline
    Empty,      \* the empty one
    Stoull,     \* the number each text that denotes one denotes
    Files,      \* contents of the file before the program starts
    Tables,     \* what write_data_to_file may be called with
    ItemColumns,    \* values of items_columns_num
    BatchSizes      \* values of batch_size; 0 changes nothing

\* One empty field is no field: its line is the blank one.
Line == Seq(Fields) \ {<<Empty>>}

ASSUME StoullAssumption ==
    /\ DOMAIN Stoull \subseteq Fields
    /\ \A f \in DOMAIN Stoull : Stoull[f] \in Nat
ASSUME EmptyAssumption == Empty \in Fields \ DOMAIN Stoull
ASSUME FilesAssumption ==
    Files \subseteq [lines : Seq(Line), newline : BOOLEAN]
\* Columns of one length, the numbers among those a text denotes; a header names
\* every column.
ASSUME TablesAssumption ==
    \A table \in Tables :
        /\ table.items \in Seq(Seq(Fields))
        /\ table.payloads \in Seq(Seq({Stoull[f] : f \in DOMAIN Stoull}))
        /\ \A column \in DOMAIN table.items :
              Len(table.items[column]) = Len(table.items[1])
        /\ \A column \in DOMAIN table.payloads :
              Len(table.payloads[column]) = Len(table.items[1])
        /\ table.header \in Seq(Fields)
        /\ table.header # <<>> =>
              Len(table.header) = Len(table.items) + Len(table.payloads)
ASSUME ColumnsAssumption ==
    /\ ItemColumns \subseteq Nat \ {0}
    /\ BatchSizes \subseteq Nat \ {0}

VARIABLES
    file,           \* its lines, and whether the last one ends in a newline
    written,        \* the table the file was written from, or None
    has_header,
    items_columns_num,
    rows_num,
    columns_num,
    stream,         \* the line the stream is at, and its eof bit
    cur_line_idx,   \* the rows read, by the provider's account
    method,         \* the method of this scan, "closed" before the constructor
    items,          \* the caller's vectors, column by column
    payloads,
    threw           \* whether a call of this scan ended in an exception

provider == <<file, written, has_header, items_columns_num, rows_num, columns_num>>
vars == <<provider, stream, cur_line_idx, method, items, payloads, threw>>

None == <<>>

Methods == {"items", "items_2d", "payloads", "payloads_2d"}

-----------------------------------------------------------------------------
(* The file.                                                               *)

Numeral(n) == CHOOSE f \in DOMAIN Stoull : Stoull[f] = n

\* The line a row of fields is written as.
LineOf(fields) == IF fields = <<Empty>> THEN <<>> ELSE fields

\* Mutant of WriteDataToFile: the last row is not written.
WriteAllButLastRow(table) ==
    (IF table.header # <<>> THEN <<LineOf(table.header)>> ELSE <<>>)
      \o [j \in 1..(Len(table.items[1]) - 1) |->
            LineOf([i \in DOMAIN table.items |-> table.items[i][j]]
              \o [i \in DOMAIN table.payloads |-> Numeral(table.payloads[i][j])])]

\* The lines of a table: the header if there is one, then row by row the items
\* and the payloads.
WriteDataToFile(table) ==
    (IF table.header # <<>> THEN <<LineOf(table.header)>> ELSE <<>>)
      \o [j \in 1..Len(table.items[1]) |->
            LineOf([i \in DOMAIN table.items |-> table.items[i][j]]
              \o [i \in DOMAIN table.payloads |-> Numeral(table.payloads[i][j])])]

\* Where the stream is after `count` calls of std::getline, and the line each
\* leaves in its argument, which is empty at first.  At the end of the file the
\* argument is cleared once, and left as it was from then on; right after a
\* last line without a newline it is left as it was.
Advanced(count) ==
    LET last == stream.next + count - 1
        length == Len(file.lines)
    IN
    IF count = 0 THEN stream
    ELSE [next |-> last + 1,
          eof |-> \/ stream.eof \/ last > length
                  \/ last = length /\ ~file.newline]

Seen(count) ==
    [i \in 1..count |->
        LET n == stream.next + i - 1 IN
        IF stream.eof THEN <<>>
        ELSE IF n <= Len(file.lines) THEN file.lines[n]
        ELSE IF file.newline \/ stream.next > Len(file.lines) THEN <<>>
        ELSE file.lines[Len(file.lines)]]

\* count_rows_and_coulmns: the first line counts unless it is the header, the
\* others unless they are blank.
RowsNum(lines, header) ==
    (IF header THEN 0 ELSE 1)
      + Cardinality({i \in 2..Len(lines) : lines[i] # <<>>})

\* The fields of the first line that are not empty.
ColumnsNum(lines) ==
    IF lines = <<>> THEN 0
    ELSE Cardinality({i \in DOMAIN lines[1] : lines[1][i] # Empty})

\* The stream with the header line, if any, behind it.
AtBegin(lines, newline, header) ==
    [next |-> IF header THEN 2 ELSE 1,
     eof |-> header /\ (Len(lines) = 0 \/ (Len(lines) = 1 /\ ~newline))]

\* What std::getline(ss, column_str, ',') leaves in column_str the j-th time:
\* past the last field, what was there before.
Field(line, j) == line[IF j <= Len(line) THEN j ELSE Len(line)]

-----------------------------------------------------------------------------
Columns(m) ==
    CASE m = "items" -> [items |-> 1, payloads |-> 0]
      [] m = "items_2d" -> [items |-> items_columns_num, payloads |-> 0]
      [] m = "payloads" -> [items |-> 1, payloads |-> 1]
      [] m = "payloads_2d" -> [items |-> items_columns_num,
                               payloads |-> columns_num - items_columns_num]

Begin(m, columns) ==
    /\ method' = m
    /\ items' = [i \in 1..columns.items |-> <<>>]
    /\ payloads' = [i \in 1..columns.payloads |-> <<>>]
    /\ cur_line_idx' = 0
    /\ threw' = FALSE

Init ==
    /\ file \in Files
    /\ written = None
    /\ has_header = FALSE
    /\ items_columns_num = 1
    /\ rows_num = 0
    /\ columns_num = 0
    /\ stream = [next |-> 1, eof |-> FALSE]
    /\ method = "closed"
    /\ items = <<>>
    /\ payloads = <<>>
    /\ cur_line_idx = 0
    /\ threw = FALSE

\* write_data_to_file
Write(table) ==
    /\ method = "closed" /\ written = None
    /\ table.items # <<>>
    /\ file' = [lines |-> WriteDataToFile(table), newline |-> TRUE]
    /\ written' = table
    /\ UNCHANGED <<has_header, items_columns_num, rows_num, columns_num,
                   stream, cur_line_idx, method, items, payloads, threw>>

\* The constructor, and the method of the first scan.  A caller that asks for
\* more columns of items than are counted, is not modelled.
Construct(header, item_columns) ==
    /\ method = "closed"
    /\ item_columns <= ColumnsNum(file.lines)
    /\ written # None => /\ header = (written.header # <<>>)
                         /\ item_columns = Len(written.items)
    /\ has_header' = header
    /\ items_columns_num' = item_columns
    /\ rows_num' = RowsNum(file.lines, header)
    /\ columns_num' = ColumnsNum(file.lines)
    /\ stream' = AtBegin(file.lines, file.newline, header)
    /\ \E m \in Methods : Begin(m, Columns(m)')
    /\ UNCHANGED <<file, written>>

\* Mutant of SeekBegin: the index is not reset.
SeekBeginKeepIndex ==
    /\ method # "closed"
    /\ stream' = AtBegin(file.lines, file.newline, has_header)
    /\ \E m \in Methods :
          /\ method' = m
          /\ items' = [i \in 1..Columns(m).items |-> <<>>]
          /\ payloads' = [i \in 1..Columns(m).payloads |-> <<>>]
    /\ threw' = FALSE
    /\ UNCHANGED <<provider, cur_line_idx>>

\* Mutant of SeekBegin: the header line is not skipped again.
SeekBeginAtHeader ==
    /\ method # "closed"
    /\ stream' = [next |-> 1, eof |-> FALSE]
    /\ \E m \in Methods : Begin(m, Columns(m))
    /\ UNCHANGED provider

\* seek_begin, and the method of the next scan.
SeekBegin ==
    /\ method # "closed"
    /\ stream' = AtBegin(file.lines, file.newline, has_header)
    /\ \E m \in Methods : Begin(m, Columns(m))
    /\ UNCHANGED provider

\* Mutant of ReadLinesCount: the rows behind are not subtracted.
ReadLinesCountOfAll(batch_size) ==
    IF batch_size <= rows_num THEN batch_size ELSE rows_num

\* How many lines a batch reads.
ReadLinesCount(batch_size) ==
    IF batch_size <= rows_num - cur_line_idx THEN batch_size
    ELSE rows_num - cur_line_idx

\* The columns of `rows` from field `first` on, added to those there are.
Extend(columns, rows, first) ==
    [c \in DOMAIN columns |->
        columns[c] \o [i \in DOMAIN rows |-> Field(rows[i], first + c - 1)]]

\* Lines that are not blank.
Rows(lines) == Pick(lines, {i \in DOMAIN lines : lines[i] # <<>>})

\* get_next_batch: the item is the whole line.
GetNextBatch(batch_size) ==
    LET count == ReadLinesCount(batch_size) IN
    /\ method = "items"
    /\ items' = <<items[1] \o Rows(Seen(count))>>
    /\ stream' = Advanced(count)
    /\ cur_line_idx' = cur_line_idx + count
    /\ UNCHANGED <<provider, method, payloads, threw>>

GetNextBatch2d(batch_size) ==
    LET count == ReadLinesCount(batch_size) IN
    /\ method = "items_2d"
    /\ items' = Extend(items, Rows(Seen(count)), 1)
    /\ stream' = Advanced(count)
    /\ cur_line_idx' = cur_line_idx + count
    /\ UNCHANGED <<provider, method, payloads, threw>>

\* Whether std::stoull throws on a payload of the line.
Bad(line, first) ==
    line # <<>> /\ \E c \in DOMAIN payloads :
                      Field(line, first + c - 1) \notin DOMAIN Stoull

Numbers(texts) == [i \in DOMAIN texts |-> Stoull[texts[i]]]

\* A batch with payloads, from the field `first` on.  If a payload is no number
\* the batch stops there: the items of that row are stored and the payloads
\* before it, the stream has moved and the index has not.
BatchWithPayloads(batch_size, first) ==
    LET count == ReadLinesCount(batch_size)
        seen == Seen(count)
        bad == {i \in 1..count : Bad(seen[i], first)}
        stop == CHOOSE i \in bad : \A j \in bad : i <= j
        good == Rows(IF bad = {} THEN seen ELSE SubSeq(seen, 1, stop - 1))
        column(c) == Numbers([i \in DOMAIN good |-> Field(good[i], first + c - 1)])
        before(c) == \A d \in 1..c : Field(seen[stop], first + d - 1) \in DOMAIN Stoull
    IN
    /\ IF bad = {}
       THEN /\ items' = Extend(items, good, 1)
            /\ payloads' = [c \in DOMAIN payloads |-> payloads[c] \o column(c)]
            /\ stream' = Advanced(count)
            /\ cur_line_idx' = cur_line_idx + count
            /\ UNCHANGED threw
       ELSE /\ items' = Extend(items, Append(good, seen[stop]), 1)
            /\ payloads' = [c \in DOMAIN payloads |->
                  payloads[c] \o column(c)
                    \o IF before(c) THEN <<Stoull[Field(seen[stop], first + c - 1)]>>
                       ELSE <<>>]
            /\ stream' = Advanced(stop)
            /\ threw' = TRUE
            /\ UNCHANGED cur_line_idx
    /\ UNCHANGED <<provider, method>>

GetNextBatchWithPayloads(batch_size) ==
    method = "payloads" /\ BatchWithPayloads(batch_size, 2)

\* Mutant of GetNextBatchWithPayloads2d: the payloads start one field early.
GetNextBatchWithPayloads2dEarly(batch_size) ==
    method = "payloads_2d" /\ BatchWithPayloads(batch_size, items_columns_num)

GetNextBatchWithPayloads2d(batch_size) ==
    method = "payloads_2d" /\ BatchWithPayloads(batch_size, items_columns_num + 1)

Next ==
    \/ \E table \in Tables : Write(table)
    \/ \E header \in BOOLEAN, n \in ItemColumns : Construct(header, n)
    \/ SeekBegin
    \/ \E n \in BatchSizes :
          \/ GetNextBatch(n) \/ GetNextBatch2d(n)
          \/ GetNextBatchWithPayloads(n) \/ GetNextBatchWithPayloads2d(n)

Spec == Init /\ [][Next]_vars

-----------------------------------------------------------------------------
(* Properties.                                                             *)

\* The index never passes the number of rows: their difference, which every
\* batch takes, is unsigned.
TypeOK ==
    /\ file \in [lines : Seq(Line), newline : BOOLEAN]
    /\ has_header \in BOOLEAN
    /\ items_columns_num \in Nat /\ rows_num \in Nat /\ columns_num \in Nat
    /\ stream \in [next : Nat \ {0}, eof : BOOLEAN]
    /\ cur_line_idx \in 0..rows_num
    /\ method \in Methods \cup {"closed"}
    /\ \A c \in DOMAIN items :
          items[c] \in IF method = "items" THEN Seq(Line) ELSE Seq(Fields)
    /\ \A c \in DOMAIN payloads : payloads[c] \in Seq(Nat)
    /\ threw \in BOOLEAN

\* The rows below the header.
DataRows ==
    Rows(SubSeq(file.lines, IF has_header THEN 2 ELSE 1, Len(file.lines)))

\* What the caller's vectors hold once `rows` have been read.
ItemsOf(rows) ==
    IF method = "items" THEN <<rows>>
    ELSE [c \in DOMAIN items |-> [i \in DOMAIN rows |-> Field(rows[i], c)]]

PayloadsOf(rows) ==
    [c \in DOMAIN payloads |->
        Numbers([i \in DOMAIN rows |-> Field(rows[i], Len(items) + c)])]

\* The rows the stream has gone past.
PassedRows ==
    Rows(SubSeq(file.lines, IF has_header THEN 2 ELSE 1,
                IF stream.next > Len(file.lines) THEN Len(file.lines)
                ELSE stream.next - 1))

\* However a scan is cut into batches, the caller's columns hold the rows the
\* stream has gone past, all of them, in order, none twice, an item beside its
\* own payloads.
RowsInOrder ==
    method # "closed" /\ ~threw =>
        /\ items = ItemsOf(PassedRows)
        /\ payloads = PayloadsOf(PassedRows)

\* Blank lines with a row behind them.
BlanksBetween ==
    {i \in DOMAIN file.lines :
        file.lines[i] = <<>> /\ \E j \in DOMAIN file.lines : j > i /\ file.lines[j] # <<>>}

\* A scan that has come to the end, where a caller stops, has delivered every
\* row; only a blank line between rows, which takes up a place in a batch and is
\* not counted as a row, costs the last row.
ReadsAll ==
    method # "closed" /\ ~threw /\ cur_line_idx = rows_num =>
        \E n \in 0..Len(DataRows) :
            /\ n + Cardinality(BlanksBetween) >= Len(DataRows)
            /\ items = ItemsOf(SubSeq(DataRows, 1, n))

\* The columns are counted on the first line, where an empty name or item is not
\* counted, and a row of one empty item is a blank line, which is no row.
ReadsBack(table) ==
    /\ \A i \in DOMAIN table.header : table.header[i] # Empty
    /\ table.header = <<>> =>
          \A c \in DOMAIN table.items :
             table.items[c] # <<>> => table.items[c][1] # Empty
    /\ Len(table.items) + Len(table.payloads) = 1 =>
          \A j \in DOMAIN table.items[1] : table.items[1][j] # Empty

\* A table written to a file and read to the end with its payloads is the table
\* that was written, if no text of the first line is empty and, where there is
\* one column, no item: other items may be empty.
RoundTrip ==
    (/\ written # None /\ ReadsBack(written)
     /\ method = "payloads_2d" /\ ~threw /\ cur_line_idx = rows_num)
    => items = written.items /\ payloads = written.payloads
=============================================================================
