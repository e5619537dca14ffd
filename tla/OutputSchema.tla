---------------------------- MODULE OutputSchema ----------------------------
(***************************************************************************)
(* From an existing table to a declaration, and back: what the schema      *)
(* generator prints of a table, the staging table that the declaration     *)
(* leads to, and the comparison of the two before a refill.                *)
(*                                                                         *)
(* A type of PostgreSQL is its name and its modifiers, as format_type()    *)
(* shows them.  A declared type is that of SQLAlchemy with its parameters. *)
(* Whether a name fits the pattern of published columns is one bit.        *)
(***************************************************************************)
EXTENDS Integers, Sequences, SequencesExt

Undeclared == <<>>   \* a type, or a schema

\* A row of pg_attribute, as far as somebody reads it.
PhysicalColumn(name, type, not_null) ==
    [name |-> name, published |-> TRUE, type |-> type, type_kind |-> "b", not_null |-> not_null,
     collated |-> FALSE, identity |-> FALSE, generated |-> FALSE, default |-> FALSE]

PhysicalColumns ==
    [name : STRING, published : BOOLEAN, type : STRING \X Seq(Int), type_kind : {"b", "d", "e"},
     not_null : BOOLEAN, collated : BOOLEAN, identity : BOOLEAN, generated : BOOLEAN,
     default : BOOLEAN]

\* Modifiers as PostgreSQL has them: precision and scale, and a length.
IsPhysical(column) ==
    LET modifiers == column.type[2] IN
    /\ column.type[1] = "numeric" /\ modifiers # <<>> =>
          Len(modifiers) = 2 /\ modifiers[1] \in 1..1000
    /\ column.type[1] = "varchar" /\ modifiers # <<>> => modifiers[1] >= 1

\* The types a declaration can name.
Classes ==
    [boolean |-> "Boolean", smallint |-> "SmallInteger", integer |-> "Integer",
     bigint |-> "BigInteger", real |-> "REAL", double |-> "Double", text |-> "Text",
     bytea |-> "LargeBinary", date |-> "Date", numeric |-> "Numeric", varchar |-> "String",
     timestamp |-> "DateTime", timestamptz |-> "DateTime(timezone)"]

Times == {"timestamp", "timestamptz"}

\* Mutant: the precision of a time does not matter.
AnyPrecision(type, modifiers) ==
    type = "numeric" /\ modifiers # <<>> => 0 <= modifiers[2] /\ modifiers[2] <= modifiers[1]

\* Modifiers that a declaration can say, or that are the default.
Declared(type, modifiers) ==
    /\ type = "numeric" /\ modifiers # <<>> => 0 <= modifiers[2] /\ modifiers[2] <= modifiers[1]
    /\ type \in Times => modifiers \in {<<>>, <<6>>}

\* A type that says all about the column, or none.
_render_type(column) ==
    LET type == column.type[1]  modifiers == column.type[2]
    IN IF \/ column.type_kind \in {"d", "e"}
          \/ column.collated \/ column.identity \/ column.generated
          \/ type \notin DOMAIN Classes
          \/ ~Declared(type, modifiers)
         THEN Undeclared
         ELSE <<Classes[type], IF type \in Times THEN <<>> ELSE modifiers>>

OutputColumn(name, type, nullable) == [name |-> name, type |-> type, nullable |-> nullable]

\* The columns that are not excluded, in their order.
Without(columns, excluded) ==
    LET kept[n \in 0..Len(columns)] ==
          IF n = 0 THEN <<>>
          ELSE IF columns[n].name \in excluded THEN kept[n - 1]
          ELSE Append(kept[n - 1], columns[n])
    IN kept[Len(columns)]

\* One problem anywhere, an unknown exclusion, or nothing left: no code is printed.
convert_columns(columns, excluded) ==
    LET kept == Without(columns, excluded)
    IN IF \/ ~(excluded \subseteq {columns[i].name : i \in DOMAIN columns})
          \/ \E i \in DOMAIN kept : ~kept[i].published \/ _render_type(kept[i]) = Undeclared
         THEN Undeclared
         ELSE [i \in DOMAIN kept |->
                 OutputColumn(kept[i].name, _render_type(kept[i]), ~kept[i].not_null)]

\* inspect_table() lets ordinary and partitioned tables with columns through.
generate(relation, excluded) ==
    IF relation.kind \in {"r", "p"} THEN convert_columns(relation.columns, excluded)
    ELSE Undeclared

-----------------------------------------------------------------------------
(* A declaration, and the table made of it.                                *)

\* Parameters that survive rendering.
_declared_type_family(type) ==
    LET parameters == type[2] IN
    /\ type[1] = "Numeric" /\ parameters # <<>> =>
          /\ 1 <= parameters[1] /\ parameters[1] <= 1000
          /\ 0 <= parameters[2] /\ parameters[2] <= parameters[1]
    /\ type[1] = "String" /\ parameters # <<>> => parameters[1] >= 1

\* The framework's column is not for a task to declare.
Declarable(schema, framework) ==
    /\ \A i, j \in DOMAIN schema : schema[i].name = schema[j].name => i = j
    /\ \A i \in DOMAIN schema : schema[i].name \notin framework
    /\ \A i \in DOMAIN schema : _declared_type_family(schema[i].type)

\* What the dialect renders.
PostgreSQLType(type) ==
    <<CHOOSE name \in DOMAIN Classes : Classes[name] = type[1], type[2]>>

\* _build_table(): the declared columns, then the framework's.
_build_table(schema, framework) ==
    [i \in DOMAIN schema |->
       PhysicalColumn(schema[i].name, PostgreSQLType(schema[i].type), ~schema[i].nullable)]
    \o [i \in 1..(IF framework = {} THEN 0 ELSE 1) |->
          PhysicalColumn(CHOOSE name \in framework : TRUE, <<"timestamptz", <<>>>>, TRUE)]

\* Preflight of a refill whose target is the relation, without an error.
_verify_declared_target_compatibility(relation, staging) ==
    /\ relation.kind = "r"
    /\ relation.columns = staging
    /\ ~relation.incoming
=============================================================================
