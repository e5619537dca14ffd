------------------------------ MODULE CsvTable ------------------------------
(***************************************************************************)
(* How the records of CSV members become one table: the header, the width  *)
(* of rows, and the agreement of members.  A record is what csv.reader     *)
(* returns, a sequence of fields; a blank line is the empty record.        *)
(***************************************************************************)
EXTENDS Naturals, Sequences, SequencesExt, FiniteSets

RowWidths == {"strict", "pad", "truncate", "pad_or_truncate"}

\* The text of a field that is padded, or has nothing in it.
NoText == ""

\* CsvReadOptions, as far as rows depend on it; no columns are the empty sequence.
CsvReadOptions(columns) ==
    [header : BOOLEAN, columns : columns \cup {<<>>}, row_width : RowWidths]

Explicit(options) == options.columns # <<>>

\* A row of the expected width, or the empty sequence if it cannot be made one.
_fit_row(record, expected, options) ==
    LET actual    == Len(record)
        truncates == Explicit(options)
                       \/ options.row_width \in {"truncate", "pad_or_truncate"}
        pads      == options.row_width \in {"pad", "pad_or_truncate"}
    IN CASE actual = expected -> record
         [] actual > expected /\ truncates -> SubSeq(record, 1, expected)
         [] actual < expected /\ pads ->
              record \o [i \in 1..(expected - actual) |-> NoText]
         [] OTHER -> <<>>

_validate_columns(names) ==
    /\ \A i \in DOMAIN names : names[i] # NoText
    /\ \A i, j \in DOMAIN names : names[i] = names[j] => i = j

\* Blank records are dropped wherever they are.
_iter_records(stream) ==
    LET kept[n \in 0..Len(stream)] ==
          IF n = 0 THEN <<>>
          ELSE IF stream[n] = <<>> THEN kept[n - 1] ELSE Append(kept[n - 1], stream[n])
    IN kept[Len(stream)]

NumberedColumns(n) == [i \in 1..n |-> i]

\* Header, rows and what is wrong: with the header, or with a row further on.
_iter_parsed(stream, options) ==
    LET records == _iter_records(stream)
        header  == IF Explicit(options) THEN options.columns
                   ELSE IF options.header THEN Head(records)
                   ELSE NumberedColumns(Len(Head(records)))
        data    == IF options.header /\ records # <<>> THEN Tail(records) ELSE records
        rows    == [i \in DOMAIN data |-> _fit_row(data[i], Len(header), options)]
    IN IF ~Explicit(options) /\ records = <<>>
         THEN [header |-> <<>>, rows |-> <<>>, error |-> "cannot be inferred"]
       ELSE IF ~Explicit(options) /\ options.header /\ ~_validate_columns(header)
         THEN [header |-> <<>>, rows |-> <<>>, error |-> "header"]
       ELSE [header |-> header, rows |-> rows,
             error |-> IF \E i \in DOMAIN rows : rows[i] = <<>> THEN "row" ELSE "none"]

-----------------------------------------------------------------------------
(* Members of a set, one after the other.                                  *)

NoTable == [header |-> <<>>, rows |-> <<>>, error |-> "none"]

\* Mutant: a member without a record stands for a table without columns.
AddAnyMember(table, stream, options) ==
    LET member == _iter_parsed(stream, options)
    IN IF table.error # "none" THEN table
       ELSE IF member.error # "none" THEN [table EXCEPT !.error = member.error]
       ELSE IF table.header = <<>> THEN member
       ELSE IF member.header # table.header THEN [table EXCEPT !.error = "mismatch"]
       ELSE [table EXCEPT !.rows = @ \o member.rows]

\* The body of the loop over the members.
AddMember(table, stream, options) ==
    LET member == _iter_parsed(stream, options)
    IN IF table.error # "none" \/ member.error = "cannot be inferred" THEN table
       ELSE IF member.error = "header" THEN [table EXCEPT !.error = "header"]
       ELSE IF table.header = <<>> THEN member
       ELSE IF member.header # table.header THEN [table EXCEPT !.error = "mismatch"]
       ELSE [table EXCEPT !.rows = @ \o member.rows, !.error = member.error]

\* A table without a header is an error whatever the options say.
Finished(table) ==
    IF table.error = "none" /\ table.header = <<>>
      THEN [table EXCEPT !.error = "cannot be inferred"] ELSE table

_iter_combined(streams, options) ==
    LET combined[n \in 0..Len(streams)] ==
          IF n = 0 THEN NoTable ELSE AddMember(combined[n - 1], streams[n], options)
    IN Finished(combined[Len(streams)])

-----------------------------------------------------------------------------
(* What decisions/0015 says of a set, independent of the order of reading. *)

UsableMembers(streams, options) ==
    {i \in DOMAIN streams : Explicit(options) \/ _iter_records(streams[i]) # <<>>}

\* The records that are data, in the order of the members.
DataRecords(streams, options) ==
    FlattenSeq([i \in DOMAIN streams |->
        LET records == _iter_records(streams[i])
        IN IF options.header /\ records # <<>> THEN Tail(records) ELSE records])

HeaderOf(stream, options) ==
    IF Explicit(options) THEN options.columns
    ELSE IF options.header THEN Head(_iter_records(stream))
    ELSE NumberedColumns(Len(Head(_iter_records(stream))))

\* Either no table, or the common header of all usable members over one row of its
\* width for each data record, which differs from it in the fields that the options
\* allow to be added or dropped, and only there.
Describes(table, streams, options) ==
    LET usable == UsableMembers(streams, options)
        data   == DataRecords(streams, options)
        width  == Len(table.header)
    IN table.error = "none" =>
         /\ usable # {}
         /\ \A i \in usable : HeaderOf(streams[i], options) = table.header
         /\ Len(table.rows) = Len(data)
         /\ \A r \in DOMAIN data :
              /\ Len(table.rows[r]) = width
              /\ \A f \in 1..width :
                    table.rows[r][f] = IF f <= Len(data[r]) THEN data[r][f] ELSE NoText
              /\ Len(data[r]) < width => options.row_width \in {"pad", "pad_or_truncate"}
              /\ Len(data[r]) > width => \/ Explicit(options)
                                         \/ options.row_width \in {"truncate", "pad_or_truncate"}

\* No table is refused without one of the reasons the document names.
Refused(table, streams, options) ==
    LET usable == UsableMembers(streams, options)
    IN table.error # "none" =>
         \/ usable = {}
         \/ \E i, j \in usable : HeaderOf(streams[i], options) # HeaderOf(streams[j], options)
         \/ \E i \in usable : ~Explicit(options) /\ ~_validate_columns(HeaderOf(streams[i], options))
         \/ \E i \in usable : _iter_parsed(streams[i], options).error = "row"
=============================================================================
