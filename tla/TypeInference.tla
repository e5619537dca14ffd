--------------------------- MODULE TypeInference ---------------------------
(***************************************************************************)
(* The type of an output column whose schema is inferred.  COPY feeds      *)
(* every row to an accumulator as it passes; INSERT has the rows in a list *)
(* and reads a sample, verifies the answers that a later value could       *)
(* falsify without an error, and reads everything where one does; a wide   *)
(* table does so for all columns in one walk per phase.                    *)
(* Values are abstracted to their kind.  Of the ints, "bit" equals a bool  *)
(* (0 or 1) and "huge" is outside bigint; "unit" is a float or a Decimal   *)
(* that equals a bool (1.0); of the strings, "code" reads as a number      *)
(* ('007') and "nul" contains a NUL.                                       *)
(***************************************************************************)
EXTENDS Naturals, Sequences, FiniteSets

CONSTANTS
    Columns,      \* the columns to infer
    Records,      \* rows that occur, each a kind of value per column
    MaxRows,      \* bound: rows of the table
    Settings      \* pairs of sample_size, 0 for None, and the columns with an override

AllKinds == {"null", "bool", "bit", "int", "huge", "unit", "numeric", "date", "naive",
             "aware", "text", "code", "nul", "bytes"}

ASSUME InferenceAssumption ==
    /\ Columns # {} /\ IsFiniteSet(Columns)
    /\ Records \subseteq [Columns -> AllKinds]
    /\ MaxRows \in Nat
    /\ Settings \subseteq Nat \X SUBSET Columns

VARIABLES
    rows,       \* the rows read from the source, each a kind per column
    stream,     \* families accumulated by the COPY path
    sample,     \* sample_size
    pinned,     \* columns whose type db_type_overrides gives
    phase,
    at,         \* next row of the walk
    families,   \* families found by the walk
    verify,     \* columns whose answer is verified against the remainder
    rescan,     \* columns to infer from all rows
    resolved    \* type per column, or "none" yet

table == <<rows, stream, sample, pinned>>
vars  == <<table, phase, at, families, verify, rescan, resolved>>

Families == {"bool", "int", "numeric", "date", "naive", "aware", "text", "bytes"}

Types == {"text", "boolean", "bigint", "numeric", "date", "timestamp", "timestamptz",
          "bytea", "error"}

Phases == {"reading", "sample", "decide", "verify", "rescan", "done"}

ValueFamily(kind) ==
    CASE kind \in {"bit", "huge"} -> "int"
      [] kind = "unit"            -> "numeric"
      [] kind \in {"code", "nul"} -> "text"
      [] OTHER -> kind

\* "error" stands for DbPublishError: aware datetimes do not mix with others.
ResolveFamilies(found) ==
    CASE found = {"bool"} -> "boolean"
      [] found = {"int"} -> "bigint"
      [] found = {"bytes"} -> "bytea"
      [] found \in {{"numeric"}, {"int", "numeric"}} -> "numeric"
      [] found = {"date"} -> "date"
      [] found \in {{"naive"}, {"date", "naive"}} -> "timestamp"
      [] found = {"aware"} -> "timestamptz"
      [] /\ "aware" \in found /\ found # {"aware"}
         /\ found \subseteq {"date", "naive", "aware"} -> "error"
      [] OTHER -> "text"

\* Mutant: two families are enough.
TwoAreFull(found) == Cardinality(found) > 1

\* Three families end the reading of a column.
Full(found) == Cardinality(found) > 2

Observe(found, kind) ==
    IF Full(found) \/ kind = "null" THEN found ELSE found \cup {ValueFamily(kind)}

-----------------------------------------------------------------------------
(* One column, one walk after the other: the path of a narrow table.       *)

Kind(c, i) == rows[i][c]

ScanFamilies(c, limit) ==
    LET found[n \in 0..Len(rows)] ==
            IF n = 0 THEN {} ELSE Observe(found[n - 1], Kind(c, n))
    IN  found[limit]

FullScan(c) == ResolveFamilies(ScanFamilies(c, Len(rows)))

SampledShort == sample # 0 /\ Len(rows) > sample

\* Mutant: timestamps are not verified.
OnlyWidenable(type) ==
    CASE type = "bigint" -> {"null", "int", "bit", "huge"}
      [] type = "date"   -> {"null", "date"}
      [] OTHER -> AllKinds

\* The values a later row may hold without falsifying the sampled answer; every
\* other type is not verified.
Expected(type) ==
    CASE type = "bigint"      -> {"null", "int", "bit", "huge"}
      [] type = "date"        -> {"null", "date"}
      [] type = "timestamp"   -> {"null", "date", "naive"}
      [] type = "timestamptz" -> {"null", "aware"}
      [] OTHER -> AllKinds

InferColumnType(c) ==
    LET found    == ScanFamilies(c, IF SampledShort THEN sample ELSE Len(rows))
        inferred == ResolveFamilies(found)
        fits     == \A i \in (sample + 1)..Len(rows) : Kind(c, i) \in Expected(inferred)
    IN  CASE ~SampledShort -> inferred
          [] SampledShort /\ found = {} -> FullScan(c)
          [] SampledShort /\ found # {} /\ (inferred = "error" \/ fits) -> inferred
          [] OTHER -> FullScan(c)

-----------------------------------------------------------------------------
(* All columns in one walk per phase: the path of a wide table.            *)

TypeOK ==
    /\ rows \in Seq(Records) /\ Len(rows) <= MaxRows
    /\ stream \in [Columns -> SUBSET Families]
    /\ <<sample, pinned>> \in Settings
    /\ phase \in Phases
    /\ at \in 1..(MaxRows + 1)
    /\ families \in [Columns -> SUBSET Families]
    /\ verify \subseteq Columns /\ rescan \subseteq Columns
    /\ resolved \in [Columns -> Types \cup {"none"}]
    /\ \A c \in Columns : Cardinality(families[c]) <= 3 /\ Cardinality(stream[c]) <= 3

Nothing == [c \in Columns |-> {}]

\* INSERT leaves a column whose type is given out of every walk.
ToInfer == Columns \ pinned

Init ==
    /\ rows = <<>> /\ stream = Nothing
    /\ \E setting \in Settings : sample = setting[1] /\ pinned = setting[2]
    /\ phase = "reading" /\ at = 1
    /\ families = Nothing
    /\ verify = {} /\ rescan = {}
    /\ resolved = [c \in Columns |-> "none"]

\* The source yields a row.  The COPY path feeds it to its accumulator, the
\* INSERT path keeps it.
FeedRow ==
    /\ phase = "reading" /\ Len(rows) < MaxRows
    /\ \E row \in Records :
          /\ rows' = Append(rows, row)
          /\ stream' = [c \in Columns |-> Observe(stream[c], row[c])]
    /\ UNCHANGED <<sample, pinned, phase, at, families, verify, rescan, resolved>>

EndOfRows ==
    /\ phase = "reading"
    /\ phase' = "sample"
    /\ UNCHANGED <<table, at, families, verify, rescan, resolved>>

\* A step of a walk over cols up to row last; it ends early when all are full.
Walk(cols, last) ==
    /\ at <= last /\ \E c \in cols : ~Full(families[c])
    /\ families' = [c \in Columns |->
          IF c \in cols THEN Observe(families[c], Kind(c, at)) ELSE families[c]]
    /\ at' = at + 1
    /\ UNCHANGED <<table, phase, verify, rescan, resolved>>

WalkIsOver(cols, last) == at > last \/ \A c \in cols : Full(families[c])

SampleEnd == IF SampledShort THEN sample ELSE Len(rows)

SampleRow == phase = "sample" /\ Walk(ToInfer, SampleEnd)

SampleEnds ==
    /\ phase = "sample" /\ WalkIsOver(ToInfer, SampleEnd)
    /\ phase' = "decide"
    /\ UNCHANGED <<table, at, families, verify, rescan, resolved>>

\* Columns of which a short sample has seen no value.
Blanks == {c \in ToInfer : SampledShort /\ families[c] = {}}

\* The sampled answers; an ambiguous column raises at once.
Decide ==
    LET answer == [c \in Columns |->
            IF c \in Blanks \cup pinned THEN "none" ELSE ResolveFamilies(families[c])]
        raises == \E c \in Columns : answer[c] = "error"
    IN
    /\ phase = "decide"
    /\ resolved' = answer
    /\ phase' = IF raises \/ ~SampledShort THEN "done" ELSE "verify"
    /\ verify' = IF phase' = "done" THEN {}
                 ELSE {c \in ToInfer \ Blanks : Expected(answer[c]) # AllKinds}
    /\ rescan' = IF phase' = "done" THEN {} ELSE Blanks
    /\ at' = IF phase' = "done" THEN 1 ELSE sample + 1
    /\ UNCHANGED <<table, families>>

\* One row of the remainder: the columns it contradicts are inferred anew.
VerifyRow ==
    LET failed == {c \in verify : Kind(c, at) \notin Expected(resolved[c])} IN
    /\ phase = "verify" /\ at <= Len(rows) /\ verify # {}
    /\ verify' = verify \ failed
    /\ rescan' = rescan \cup failed
    /\ at' = at + 1
    /\ UNCHANGED <<table, phase, families, resolved>>

VerifyEnds ==
    /\ phase = "verify" /\ (at > Len(rows) \/ verify = {})
    /\ phase' = IF rescan = {} THEN "done" ELSE "rescan"
    /\ verify' = {}
    /\ at' = 1
    /\ families' = [c \in Columns |-> IF c \in rescan THEN {} ELSE families[c]]
    /\ UNCHANGED <<table, rescan, resolved>>

RescanRow == phase = "rescan" /\ Walk(rescan, Len(rows))

\* Mutant: the columns that were not scanned again lose their answer.
RescanReplaces ==
    /\ phase = "rescan" /\ WalkIsOver(rescan, Len(rows))
    /\ phase' = "done"
    /\ at' = 1
    /\ resolved' = [c \in Columns |->
          IF c \in rescan THEN ResolveFamilies(families[c]) ELSE "none"]
    /\ rescan' = {}
    /\ UNCHANGED <<table, families, verify>>

RescanEnds ==
    /\ phase = "rescan" /\ WalkIsOver(rescan, Len(rows))
    /\ phase' = "done"
    /\ at' = 1
    /\ resolved' = [c \in Columns |->
          IF c \in rescan THEN ResolveFamilies(families[c]) ELSE resolved[c]]
    /\ rescan' = {}
    /\ UNCHANGED <<table, families, verify>>

Next ==
    \/ FeedRow \/ EndOfRows
    \/ SampleRow \/ SampleEnds \/ Decide
    \/ VerifyRow \/ VerifyEnds
    \/ RescanRow \/ RescanEnds

Spec == Init /\ [][Next]_vars

-----------------------------------------------------------------------------
(* What the driver and the server do with a value of another kind.         *)

\* Accepted silently although the value is not of the column's type: a string is
\* parsed by the type's input function, a number equal to a bool becomes one.
Lookalikes == {<<"numeric", "code">>, <<"boolean", "bit">>, <<"boolean", "unit">>}

\* Kinds a column of the type keeps as they are; no text holds a NUL.
Keeps(type) ==
    CASE type = "boolean"     -> {"null", "bool"}
      [] type = "bigint"      -> {"null", "bit", "int"}
      [] type = "numeric"     -> {"null", "bit", "int", "huge", "unit", "numeric"}
      [] type = "date"        -> {"null", "date"}
      [] type = "timestamp"   -> {"null", "date", "naive"}
      [] type = "timestamptz" -> {"null", "aware"}
      [] type = "bytea"       -> {"null", "bytes"}
      [] OTHER -> AllKinds \ {"nul"}

\* Assignment casts that lose a part of the value, were it only the scale of a 1.0.
Narrows == {<<"bigint", "unit">>, <<"bigint", "numeric">>, <<"date", "naive">>, <<"date", "aware">>,
            <<"timestamp", "aware">>, <<"timestamptz", "naive">>, <<"timestamptz", "date">>}

Silent(type, kind)   == <<type, kind>> \in Lookalikes \cup Narrows
Rejected(type, kind) == kind \notin Keeps(type) /\ ~Silent(type, kind)

-----------------------------------------------------------------------------
(* Properties.                                                             *)

Raised == \E c \in Columns : resolved[c] = "error"

\* COPY and INSERT infer alike, on all of their paths: one walk per phase for all
\* columns agrees with one walk per column, and the accumulator of a single pass with
\* a full scan of the list.
PathsAgree ==
    phase = "done" =>
        /\ IF Raised
           THEN \E c \in ToInfer : InferColumnType(c) = "error"
           ELSE \A c \in ToInfer : resolved[c] = InferColumnType(c)
        /\ \A c \in Columns : ResolveFamilies(stream[c]) = FullScan(c)

\* A sample may answer differently from a full scan only if a value it did not see
\* makes the INSERT fail, or is one of three kinds taken for the type without a word:
\* by the server a string that reads as a number, by SQLAlchemy's Boolean an int or a
\* fractional number equal to 0 or 1.  And no value is narrowed on its way into the
\* table: rounded, cut to a date, shifted from or to a time zone.
SampleErrsLoudly ==
    phase = "done" /\ ~Raised =>
        \A c \in ToInfer :
            /\ \/ resolved[c] = FullScan(c)
               \/ \E i \in 1..Len(rows) :
                     \/ Rejected(resolved[c], Kind(c, i))
                     \/ <<resolved[c], Kind(c, i)>> \in Lookalikes
            /\ \A i \in 1..Len(rows) : <<resolved[c], Kind(c, i)>> \notin Narrows

\* What decisions/0011 says of an explicit type override: COPY preserves its outcome,
\* so both loaders refuse a table with mixed time zones, or neither does.
OverridesAgree ==
    phase = "done" /\ ~SampledShort =>
        (Raised <=> \E c \in Columns : ResolveFamilies(stream[c]) = "error")
=============================================================================
