---------------------------- MODULE StagingNames ----------------------------
(***************************************************************************)
(* What a staging table is called, what its comment says, and how a later  *)
(* run of the task recognises it.  A name is the sequence of its parts,    *)
(* each of which is a tuple and counts for one byte: the letters of a      *)
(* table, which portable identifiers restrict to ASCII, and the four parts *)
(* of the suffix, which have a fixed width.                                *)
(***************************************************************************)
EXTENDS Integers, Sequences

Unowned == [marker |-> "none"]
NoName  == <<>>

IsName(name) == name # NoName /\ name \in Seq({name[i] : i \in DOMAIN name})

STAGING_NAME_KIND == <<"__stg_">>
Underscore        == <<"_">>

\* A hash of the target alone, without the run.
staging_target_token(schema, table) == <<"token", schema, table>>
new_run_token(n) == <<"run", n>>

\* A Python slice: a negative budget counts from the end.
_truncate_utf8(text, max_bytes) ==
    LET end == IF max_bytes < 0 THEN Len(text) + max_bytes ELSE max_bytes
    IN SubSeq(text, 1, IF end < Len(text) THEN end ELSE Len(text))

\* Mutant: the whole name is cut to its limit.
CutAtTheEnd(schema, table, run, max_bytes) ==
    _truncate_utf8(table \o <<STAGING_NAME_KIND, staging_target_token(schema, table), Underscore, run>>,
                   max_bytes)

\* Only the readable prefix is ever shortened.
staging_table_name(schema, table, run, max_bytes) ==
    LET suffix == <<STAGING_NAME_KIND, staging_target_token(schema, table), Underscore, run>>
    IN _truncate_utf8(table, max_bytes - Len(suffix)) \o suffix

validate_identifier(name, max_bytes) == name # NoName /\ Len(name) <= max_bytes

\* The configured limit can only be tightened.
server_identifier_limit(configured, server) ==
    IF configured < server THEN configured ELSE server

\* A task's targets, the source-state table, and the policy's limit; no connection.
preflight(targets, schema, reserved, max_bytes) ==
    LET staging(table) == staging_table_name(schema, table, new_run_token(0), max_bytes) IN
    /\ validate_identifier(schema, max_bytes)
    /\ \A table \in targets :
         /\ validate_identifier(table, max_bytes)
         /\ <<schema, table>> # reserved
         /\ validate_identifier(staging(table), max_bytes)
    /\ \A table, other \in targets : staging(table) = staging(other) => table = other

\* publish(): the name it creates, or none where it raises.
Created(schema, table, run, max_bytes) ==
    LET name == staging_table_name(schema, table, run, max_bytes)
    IN IF /\ validate_identifier(schema, max_bytes) /\ validate_identifier(table, max_bytes)
          /\ validate_identifier(name, max_bytes)
         THEN name ELSE NoName

build_staging_comment(task, run, schema, table) ==
    [marker |-> "task_core", task |-> task, run |-> run,
     target_schema |-> schema, target_table |-> table]

build_published_comment(task, run) ==
    [marker |-> "task_core", published_by |-> task, run |-> run]

\* Any field of another type, or none, means that the owner is unknown.
parse_staging_comment(comment) ==
    IF /\ comment.marker = "task_core"
       /\ {"task", "run", "target_schema", "target_table"} \subseteq DOMAIN comment
       /\ comment.target_table # NoName
      THEN comment ELSE Unowned

\* The tokens that end a name of the exact shape; the prefix is not looked at.
owned_staging_tokens(relname) ==
    LET n == Len(relname) IN
    IF n >= 4 /\ relname[n - 3] = STAGING_NAME_KIND /\ relname[n - 1] = Underscore
         /\ relname[n - 2][1] = "token" /\ relname[n][1] = "run"
      THEN <<relname[n - 2], relname[n]>> ELSE <<>>

\* cleanup_predecessor_artifacts() of a run drops the relation.
Drops(task, schema, run, relation) ==
    LET tokens == owned_staging_tokens(relation.name)
        owner  == parse_staging_comment(relation.comment)
    IN /\ relation.schema = schema
       /\ tokens # <<>> /\ owner # Unowned
       /\ owner.task = task
       /\ tokens[2] # run
       /\ owner.target_schema = schema /\ owner.run = tokens[2]
       /\ staging_target_token(owner.target_schema, owner.target_table) = tokens[1]
-----------------------------------------------------------------------------
(* The relation a publication left, after somebody may have touched it.    *)

\* What they add to a name, or move a table to.
Part == <<"x">>

Fates == {"left", "published", "prefixed", "renamed", "moved", "uncommented", "edited", "copied"}

\* A description has the task, schema, table and run of the publication.
Relation(d, name) ==
    LET staged == [schema |-> d.schema, name |-> name,
                   comment |-> build_staging_comment(d.task, d.run, d.schema, d.table)]
    IN CASE d.fate = "left" -> staged
         [] d.fate = "published" ->
              [staged EXCEPT !.name = d.table, !.comment = build_published_comment(d.task, d.run)]
         [] d.fate = "prefixed" -> [staged EXCEPT !.name = <<Part>> \o @]
         [] d.fate = "renamed" -> [staged EXCEPT !.name = @ \o <<Part>>]
         [] d.fate = "moved" -> [staged EXCEPT !.schema = <<Part>>]
         [] d.fate = "uncommented" -> [staged EXCEPT !.comment = Unowned]
         [] d.fate = "edited" -> [staged EXCEPT !.comment.target_table = NoName]
         [] d.fate = "copied" -> [staged EXCEPT !.name = <<Part>>]
=============================================================================
