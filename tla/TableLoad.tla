----------------------------- MODULE TableLoad -----------------------------
(***************************************************************************)
(* A table on its way to its staging table by both loaders.  With an       *)
(* inferred schema, the inference of TypeInference decides what is         *)
(* written; COPY keeps the rows in a neutral spool until it has.  With a   *)
(* declared one, both loaders project the source onto the schema and       *)
(* accept or refuse it row by row.  The staging table has a name and a     *)
(* comment by which a later run of the task recognises it, and columns     *)
(* that are compared with those of the table it refills.                   *)
(***************************************************************************)
EXTENDS TypeInference, Integers, SequencesExt, CopyText, SpoolFormat, StagingNames, OutputSchema

CONSTANTS
    Payloads,      \* declared payloads
    Yields,        \* rows a source may yield, by its name
    Frames,        \* rows for the neutral spool
    MaxSource,     \* bound: rows of these
    Stagings,      \* staging tables: who made them, under which limits, their fate
    Inspected      \* tables a schema was generated from, to publish into them

\* A payload: source columns, db_contract as pairs in order, whether db_updated_at is
\* on, output_schema as pairs of name and column, and the name of its source.
ASSUME LoadAssumption ==
    /\ MaxSource \in Nat
    /\ \A p \in Payloads :
         /\ p.mode = "declared"
         /\ p.schema # <<>> /\ p.columns # <<>>
         /\ p.framework \in BOOLEAN
         /\ \A row \in Yields[p.source] : DOMAIN row = DOMAIN p.columns

\* Tables are moved to schemas of nobody's task.
ASSUME StagingAssumption ==
    \A d \in Stagings :
        /\ d.mode = "staging" /\ d.fate \in Fates
        /\ IsName(d.table) /\ IsName(d.schema) /\ d.schema # <<Part>>
        /\ d.run = new_run_token(d.run[2])
        /\ d.configured \in Nat /\ d.server \in Nat

\* The framework's column, and its stamp.
Updated == "etl_updated_at"

Stamp == Value("datetime", "aware")

\* Names are strings, and sources yield what Python values and their renderings are.
ASSUME ValueAssumption ==
    /\ IsValue(Stamp)
    /\ \A p \in Payloads :
         /\ p.columns \in Seq(STRING)
         /\ p.contract \in Seq(STRING \X STRING)
         /\ p.schema \in Seq(STRING \X DeclaredColumns)
         /\ \A row \in Yields[p.source] : \A i \in DOMAIN row : IsValue(row[i])

\* Rows of the neutral spool hold what it can hold.
ASSUME FrameAssumption ==
    \A row \in Frames :
        row \in Seq(SpoolValues) /\ \A i \in DOMAIN row : IsSpoolable(row[i])

\* Columns of one relation have names of their own.
ASSUME InspectedAssumption ==
    \A d \in Inspected :
        /\ d \in [mode : {"schema"}, kind : STRING, incoming : BOOLEAN,
                  columns : Seq(PhysicalColumns), excluded : SUBSET STRING,
                  framework : {{}, {Updated}}]
        /\ d.columns # <<>>
        /\ \A i \in DOMAIN d.columns : IsPhysical(d.columns[i])
        /\ \A i, j \in DOMAIN d.columns : d.columns[i].name = d.columns[j].name => i = j

VARIABLES
    payload,    \* what the behaviour is about: one of the above, a spool, or an inferred table
    source,     \* rows the source has yielded
    \* COPY with a declared schema
    copytext,   \* the spool
    refusedAt,  \* the row it was refused at, or 0
    \* the neutral spool
    neutral,
    spooling,   \* write, read, done, short, refused
    cut,        \* its last bytes were lost
    position,
    readback

load == <<payload, source, copytext, refusedAt>>
file == <<neutral, spooling, cut, position, readback>>

Inferred == [mode |-> "inferred"]
Framed   == [mode |-> "framed"]

LoadInit ==
    /\ Init
    /\ payload \in {Inferred, Framed} \cup Payloads \cup Stagings \cup Inspected
    /\ payload.mode # "inferred" => sample = 0 /\ pinned = {}
    /\ source = <<>> /\ copytext = <<>> /\ refusedAt = 0
    /\ neutral = <<>> /\ spooling = "write" /\ cut = FALSE
    /\ position = 1 /\ readback = <<>>

Infer == payload.mode = "inferred" /\ Next /\ UNCHANGED <<load, file>>

-----------------------------------------------------------------------------
(* Projection of a source onto the columns of its table.                   *)

Unique(names) == \A i, j \in DOMAIN names : names[i] = names[j] => i = j

FrameworkColumns(p) ==
    IF p.framework THEN <<<<Updated, Column("timestamptz", FALSE, 0, 0)>>>> ELSE <<>>

Names(pairs) == [i \in DOMAIN pairs |-> pairs[i][1]]

IndexOf(names, name) == CHOOSE i \in DOMAIN names : names[i] = name

\* Target names, and the index of the source column of each.
Contract(p) ==
    IF p.contract = <<>> THEN [i \in DOMAIN p.columns |-> <<p.columns[i], i>>]
    ELSE [i \in DOMAIN p.contract |-> <<p.contract[i][2], IndexOf(p.columns, p.contract[i][1])>>]

Known(p) == \A i \in DOMAIN p.contract : p.contract[i][1] \in {p.columns[j] : j \in DOMAIN p.columns}

\* RowProjection.build() and the comparison of names in prepare_copy_source().
CopyProjects(p) ==
    /\ Unique(p.columns) /\ Known(p)
    /\ Unique(Names(Contract(p)))
    /\ LET output == Names(Contract(p)) \o Names(FrameworkColumns(p))
           wanted == Names(p.schema) \o Names(FrameworkColumns(p))
       IN Unique(output) /\ Unique(wanted) /\ ToSet(output) = ToSet(wanted)

\* iter_rows(): constants where there is no source column; then by name, in the
\* order of the schema.
CopyRow(p, row) ==
    LET output    == Names(Contract(p)) \o Names(FrameworkColumns(p))
        projected == [i \in DOMAIN output |->
                        IF i > Len(Contract(p)) THEN Stamp ELSE row[Contract(p)[i][2]]]
        schema    == p.schema \o FrameworkColumns(p)
    IN [i \in DOMAIN schema |-> projected[IndexOf(output, schema[i][1])]]

\* from_petl() with _apply_db_contract_columns(), apply_db_updated_at() and the
\* comparison of names in _resolve_payload_schema().
InsertProjects(p) ==
    /\ Unique(p.columns) /\ Known(p)
    /\ \A i, j \in DOMAIN p.contract : p.contract[i][2] = p.contract[j][2] => i = j
    /\ LET columns == {Contract(p)[i][1] : i \in DOMAIN Contract(p)}
           schema  == {p.schema[i][1] : i \in DOMAIN p.schema}
       IN /\ p.framework => Updated \notin columns /\ Updated \notin schema
          /\ Unique(Names(p.schema)) /\ columns = schema

\* A mapping from column names to values.
InsertRow(p, row) ==
    LET target(name) == CHOOSE i \in DOMAIN Contract(p) : Contract(p)[i][1] = name
    IN [name \in ToSet(Names(p.schema)) \cup ToSet(Names(FrameworkColumns(p))) |->
          IF p.framework /\ name = Updated THEN Stamp ELSE row[Contract(p)[target(name)][2]]]

TableColumns(p) ==
    LET schema == p.schema \o FrameworkColumns(p) IN [i \in DOMAIN schema |-> schema[i][2]]

-----------------------------------------------------------------------------
(* Declared schema: one row of the source, in one pass.                    *)

TakeRow ==
    /\ payload.mode = "declared" /\ CopyProjects(payload)
    /\ refusedAt = 0 /\ Len(source) < MaxSource
    /\ \E row \in Yields[payload.source] :
          LET line == Line(CopyRow(payload, row), TableColumns(payload)) IN
          /\ source' = Append(source, row)
          /\ IF line = Error
             THEN refusedAt' = Len(source') /\ UNCHANGED copytext
             ELSE copytext' = copytext \o line /\ UNCHANGED refusedAt
    /\ UNCHANGED <<payload, file, vars>>

\* INSERT has all rows: the first that is refused, or 0.
Refuses(row) ==
    LET mapping == InsertRow(payload, row)
        schema  == payload.schema \o FrameworkColumns(payload)
    IN \E i \in DOMAIN schema : ~Inserts(mapping[schema[i][1]], schema[i][2])

InsertRefusedAt ==
    LET refused == {i \in DOMAIN source : Refuses(source[i])}
    IN IF refused = {} THEN 0 ELSE CHOOSE i \in refused : \A j \in refused : i <= j

Inserted ==
    LET schema == payload.schema \o FrameworkColumns(payload)
    IN [r \in DOMAIN source |->
          [i \in DOMAIN schema |-> Stored(InsertRow(payload, source[r])[schema[i][1]])]]

-----------------------------------------------------------------------------
(* The neutral spool of an inferred table.                                 *)

WriteRow ==
    /\ payload.mode = "framed" /\ spooling = "write" /\ Len(source) < MaxSource
    /\ \E row \in Frames :
          /\ source # <<>> => Len(row) = Len(source[1])
          /\ IF write_neutral_row(row) = OverflowError
             THEN spooling' = "refused" /\ UNCHANGED <<source, neutral>>
             ELSE /\ source' = Append(source, row)
                  /\ neutral' = neutral \o write_neutral_row(row)
                  /\ UNCHANGED spooling
    /\ UNCHANGED <<payload, copytext, refusedAt, cut, position, readback, vars>>

write_neutral_terminator ==
    /\ payload.mode = "framed" /\ spooling = "write" /\ source # <<>>
    /\ neutral' = Append(neutral, _TERMINATOR)
    /\ spooling' = "read"
    /\ UNCHANGED <<load, cut, position, readback, vars>>

\* The end of the file does not reach the disk, or is not there when it is read.
Truncate ==
    /\ spooling = "read" /\ position = 1 /\ ~cut
    /\ \E n \in 0..(Len(neutral) - 1) : neutral' = SubSeq(neutral, 1, n)
    /\ cut' = TRUE
    /\ UNCHANGED <<load, spooling, position, readback, vars>>

ReadRow ==
    /\ spooling = "read"
    /\ LET cursor == read_neutral_row(neutral, position, Len(source[1])) IN
          IF cursor.failed THEN spooling' = "short" /\ UNCHANGED <<position, readback>>
          ELSE IF cursor.ended THEN spooling' = "done" /\ UNCHANGED <<position, readback>>
          ELSE /\ readback' = Append(readback, cursor.row)
               /\ position' = cursor.at
               /\ UNCHANGED spooling
    /\ UNCHANGED <<load, neutral, cut, vars>>

LoadNext == Infer \/ TakeRow \/ WriteRow \/ write_neutral_terminator \/ Truncate \/ ReadRow

LoadSpec == LoadInit /\ [][LoadNext]_<<vars, load, file>>

-----------------------------------------------------------------------------
(* Properties.                                                             *)

\* A signaling NaN in a nullable numeric column.
Signals(v, column) ==
    /\ column.family = "numeric" /\ column.nullable
    /\ Type(v) = "Decimal" /\ Holds(v).special = "snan"

Signaling(p, row) ==
    LET columns == TableColumns(p)
    IN \E i \in DOMAIN columns : Signals(CopyRow(p, row)[i], columns[i])

\* INSERT and COPY project a source alike, refuse the same row of it, and store the
\* same table, whatever normalization, fast path and escaping lie between; but for a
\* signaling NaN, which COPY writes as a null and INSERT refuses.
LoadersAgree ==
    payload.mode = "declared" =>
        /\ CopyProjects(payload) = InsertProjects(payload)
        /\ CopyProjects(payload) /\ (\A r \in DOMAIN source : ~Signaling(payload, source[r])) =>
             /\ refusedAt = InsertRefusedAt
             /\ refusedAt = 0 => CopyFrom(copytext, TableColumns(payload)) = Inserted

\* What the column would make of a number: the bits that it keeps of an integer, and
\* the digits that it keeps of number times a power of ten.
Wrapped(n, family) ==
    LET half == Power(2, Bits[family] - 1) IN ((n + half) % (2 * half)) - half

Kept(number, exponent, column) ==
    LET shift == exponent + column.scale IN
    IF shift >= 0 THEN number * Power(10, shift) < Power(10, column.precision)
    ELSE /\ number % Power(10, -shift) = 0
         /\ number \div Power(10, -shift) < Power(10, column.precision)

\* A number in a column that holds a part of the numbers.
Bounded(v, column) ==
    \/ column.family \in DOMAIN Bits /\ Type(v) = "int"
    \/ /\ column.family = "numeric" /\ column.precision # 0
       /\ Type(v) = "int" \/ (Type(v) = "Decimal" /\ Holds(v).special = "")

IsKept(v, column) ==
    /\ column.family \in DOMAIN Bits => Wrapped(Holds(v), column.family) = Holds(v)
    /\ column.family = "numeric" =>
         /\ Type(v) = "int" => Kept(Magnitude(Holds(v)), 0, column)
         /\ Type(v) = "Decimal" =>
              Kept(Numeral(10, Holds(v).digits), Holds(v).exponent, column)

\* A number is accepted if and only if its column keeps all of it: nothing wraps,
\* nothing is rounded, and no zero that means nothing is counted against it.
AcceptedIsExact ==
    payload.mode = "declared" =>
        LET columns == TableColumns(payload) IN
        \A r \in DOMAIN source :
            LET row      == CopyRow(payload, source[r])
                number   == [i \in DOMAIN columns |-> _normalize_value(row[i])]
                numbers  == {i \in DOMAIN columns : Bounded(number[i], columns[i])}
                accepted == r # refusedAt
            IN /\ accepted => \A i \in numbers : IsKept(number[i], columns[i])
               /\ ~accepted /\ numbers = DOMAIN columns =>
                    \E i \in numbers : ~IsKept(number[i], columns[i])

\* The second pass reads what the first has written, or fails: a spool that lost its
\* end is never a shorter table, and a whole one is always read.
SpoolReadsBack ==
    /\ spooling = "done" => readback = source
    /\ spooling = "short" => cut
    /\ spooling # "refused"

\* What _serialize_inferred_value_copytext_family() takes for a column of the type: no int
\* outside bigint, no text with a NUL.
Renders(type) ==
    CASE type = "boolean" -> {"bool"}
      [] type = "bigint"  -> {"bit", "int"}
      [] type = "numeric" -> {"bit", "int", "huge", "unit", "numeric"}
      [] type = "date"    -> {"date"}
      [] type \in {"timestamp", "timestamptz"} -> {"date", "naive", "aware"}
      [] type = "bytea"   -> {"bytes"}
      [] OTHER            -> AllKinds \ {"bytes", "nul"}

\* A column whose type COPY has inferred is written as it is: no value is rounded,
\* shifted or taken for another.  COPY refuses an int outside bigint in a column of ints,
\* a string with a NUL, which the server would refuse of INSERT, too, and bytes among
\* other values; and nothing else.
CopyTakesWhatItInferred ==
    phase = "done" =>
        \A c \in Columns : \A i \in DOMAIN rows :
            LET type == ResolveFamilies(stream[c]) IN
            type # "error" /\ Kind(c, i) # "null" =>
                /\ \/ Kind(c, i) \in Renders(type)
                   \/ Kind(c, i) = "bytes"
                   \/ Kind(c, i) \in {"huge", "nul"} /\ Rejected(type, Kind(c, i))
                /\ ~Silent(type, Kind(c, i))

\* Runs that clean up after others.
Cleaners == {[task |-> d.task, schema |-> d.schema, run |-> d.run] : d \in Stagings}

\* What preflight accepts, publish() creates, unless the server's limit is lower; the
\* server stores the name as it was built, whatever it limits names to; and a later run
\* drops the table if and only if it is of another run of its own task and schema, and
\* nobody has published it, copied it, or taken its name or its comment from it.
StagingIsRecognised ==
    payload.mode = "staging" =>
        LET limit == server_identifier_limit(payload.configured, payload.server)
            name  == Created(payload.schema, payload.table, payload.run, limit)
        IN /\ /\ payload.configured <= payload.server
              /\ preflight({payload.table}, payload.schema, NoName, payload.configured)
              => name # NoName
           /\ name # NoName =>
                /\ Len(name) <= payload.server
                /\ \A c \in Cleaners :
                     Drops(c.task, c.schema, c.run, Relation(payload, name)) <=>
                         /\ c.task = payload.task /\ c.schema = payload.schema
                         /\ c.run # payload.run
                         /\ payload.fate \in {"left", "prefixed"}

\* docs/task-authoring: code is printed of a table if a declaration can say what its
\* columns are.  It is accepted if the framework's column was left out; a table
\* recreated from it prints the same code; and it refills the very table, in which
\* only a default, a precision of six that is written out, or the framework's column
\* in another place or shape are in the way, and what is not about columns.
GeneratedSchemaFits ==
    payload.mode = "schema" =>
        LET schema    == generate(payload, payload.excluded)
            framework == payload.framework
            staging   == _build_table(schema, framework)
            recreated == [payload EXCEPT !.kind = "r", !.columns = staging]
            columns   == payload.columns
            printed   == {schema[i].name : i \in DOMAIN schema}
            last      == columns[Len(columns)]
        IN schema # Undeclared =>
             /\ Declarable(schema, framework) <=> framework \cap printed = {}
             /\ Declarable(schema, framework) =>
                  /\ generate(recreated, framework) = schema
                  /\ _verify_declared_target_compatibility(payload, staging) <=>
                       /\ payload.kind = "r" /\ ~payload.incoming
                       /\ payload.excluded = framework
                       /\ \A i \in DOMAIN columns :
                            /\ ~columns[i].default
                            /\ columns[i].type[1] \in Times => columns[i].type[2] # <<6>>
                       /\ framework # {} =>
                            last = PhysicalColumn(last.name, <<"timestamptz", <<>>>>, TRUE)
                              /\ last.name \in framework
=============================================================================
