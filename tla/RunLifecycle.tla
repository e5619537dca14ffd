---------------------------- MODULE RunLifecycle ----------------------------
(***************************************************************************)
(* One call of run_pipelines(): the resources its pipelines open through   *)
(* the task context, the tables they return, the consumers of each table   *)
(* (row count, published result, workbook, database), the publication and  *)
(* the clean-up.  Every call may raise, the clean-up calls included, and   *)
(* a source may change between two readers of a table, of which the later  *)
(* one sees the change where the table is not cached yet.  The publisher   *)
(* is reduced to what the runner sees of it; PublisherSession is about its *)
(* inside.                                                                 *)
(***************************************************************************)
EXTENDS Naturals, FiniteSets

CONSTANTS
    N,           \* pipelines of the run, executed in the order 1..N
    Keys,        \* resource keys
    ObjectOf,    \* the object a key's loader returns; two keys may share one
    Plans,       \* what the pipelines of a run may be
    MaxFaults,   \* bound: calls that raise in one run
    MaxVersion   \* bound: changes of the source during one run

Pipelines == 1..N

\* The rows a display shows, and those behind them.
Parts == {"head", "rest"}

\* The loader of the table, its other readers, and whether a display shows it in part.
Specs == {s \in [db : {"none", "insert", "copy"},
                 readers : SUBSET {"result", "display", "excel"}, long : BOOLEAN] :
            s.long => "display" \in s.readers}

ASSUME PlansAssumption == Plans \subseteq [Pipelines -> Specs]

ASSUME LifecycleAssumption ==
    /\ N \in Nat \ {0}
    /\ IsFiniteSet(Keys) /\ DOMAIN ObjectOf = Keys
    /\ MaxFaults \in Nat /\ MaxVersion \in Nat

VARIABLES
    spec,       \* per pipeline: the loader of its table, who else reads it, and
                \* whether it has more rows than a display shows
    check,      \* the source change check is enabled
    pc,
    p,          \* the pipeline being executed
    version,    \* content of the sources
    cache,      \* keys whose resource is open: task_context._cache
    closed,     \* task_context._closed
    closing,    \* keys whose object close() has still to close
    opened,     \* objects the loaders returned
    closes,     \* how often each object was closed
    out,        \* table of each pipeline: cached or lazy, and what a cache holds
    seen,       \* contents its consumers read
    results,    \* pipelines whose table was published to later ones
    workbooks,  \* pipelines whose workbook is written
    publisher,  \* none, made, begun, committed, closed
    staged,     \* pipelines whose rows are staged
    published,  \* pipelines whose table is replaced
    rollback_attempted,
    primary_error,   \* number of the fault, 0 for None
    cleanup_errors,  \* faults collected by try_step()
    faults,
    outcome,    \* running, skipped, returned, raised
    raised      \* the faults that leave run_pipelines()

plan    == <<spec, check>>
context == <<cache, closed, closing, opened, closes, results>>
tables  == <<out, seen>>
effects == <<workbooks, publisher, staged, published>>
errors  == <<rollback_attempted, primary_error, cleanup_errors, faults>>
report  == <<outcome, raised>>
vars    == <<plan, pc, p, version, context, tables, effects, errors, report>>

-----------------------------------------------------------------------------

Objects   == {ObjectOf[k] : k \in Keys}
Versions  == 0..MaxVersion
Nobody    == MaxVersion + 1      \* the cache of what nobody has read

DbPipelines    == {q \in Pipelines : spec[q].db # "none"}
ExcelPipelines == {q \in Pipelines : "excel" \in spec[q].readers}

Body    == {"make", "begin", "fingerprint", "compare", "run", "count", "publish_result",
            "display", "excel", "db", "commit"}
Cleanup == {"rollback", "close_publisher", "close_context", "close_resources"}
PC      == {"start"} \cup Body \cup Cleanup \cup {"report", "done"}

TypeOK ==
    /\ spec \in [Pipelines -> Specs] /\ check \in BOOLEAN
    /\ pc \in PC /\ p \in 1..(N + 1) /\ version \in Versions
    /\ cache \subseteq Keys /\ closing \subseteq Keys /\ closed \in BOOLEAN
    /\ opened \subseteq Objects
    /\ closes \in [Objects -> 0..Cardinality(Keys)]
    /\ out \in [Pipelines -> [cached : BOOLEAN, rows : [Parts -> Versions \cup {Nobody}]]]
    /\ seen \in [Pipelines -> [Parts -> SUBSET Versions]]
    /\ results \subseteq Pipelines /\ workbooks \subseteq Pipelines
    /\ publisher \in {"none", "made", "begun", "committed", "closed"}
    /\ staged \subseteq Pipelines /\ published \subseteq Pipelines
    /\ rollback_attempted \in BOOLEAN
    /\ faults \in 0..MaxFaults
    /\ primary_error \in 0..faults /\ cleanup_errors \subseteq 1..faults
    /\ outcome \in {"running", "skipped", "returned", "raised"}
    /\ raised \subseteq 1..faults
    /\ pc \in {"rollback", "begin", "db", "commit"} => publisher \in {"made", "begun", "committed"}

Init ==
    /\ spec \in Plans /\ check \in BOOLEAN
    /\ pc = "start" /\ p = 1 /\ version = 0
    /\ cache = {} /\ closed = FALSE /\ closing = {}
    /\ opened = {} /\ closes = [o \in Objects |-> 0]
    /\ out = [q \in Pipelines |-> [cached |-> FALSE, rows |-> [x \in Parts |-> Nobody]]]
    /\ seen = [q \in Pipelines |-> [x \in Parts |-> {}]]
    /\ results = {} /\ workbooks = {}
    /\ publisher = "none" /\ staged = {} /\ published = {}
    /\ rollback_attempted = FALSE /\ primary_error = 0 /\ cleanup_errors = {}
    /\ faults = 0
    /\ outcome = "running" /\ raised = {}

Step(here, next) == pc = here /\ pc' = next

\* A source is edited.
SourceChanges ==
    /\ pc \in Body /\ version < MaxVersion
    /\ version' = version + 1
    /\ UNCHANGED <<plan, pc, p, context, tables, effects, errors, report>>

-----------------------------------------------------------------------------
(* Before the pipelines.                                                   *)

\* A publisher is needed for tables and for the source state.
Start ==
    /\ Step("start", IF DbPipelines # {} \/ check THEN "make" ELSE "run")
    /\ UNCHANGED <<plan, p, version, context, tables, effects, errors, report>>

MakePublisher ==
    /\ Step("make", "begin")
    /\ publisher' = "made"
    /\ UNCHANGED <<plan, p, version, context, tables, workbooks, staged, published, errors, report>>

\* begin_run(): the task is claimed, or another run has it and this one is skipped.
BeginRun ==
    /\ \/ /\ Step("begin", IF check THEN "fingerprint" ELSE "run")
          /\ publisher' = "begun" /\ UNCHANGED outcome
       \/ /\ Step("begin", "close_publisher")
          /\ outcome' = "skipped" /\ UNCHANGED publisher
    /\ UNCHANGED <<plan, p, version, context, tables, workbooks, staged, published, errors, raised>>

CollectFingerprints ==
    /\ Step("fingerprint", "compare")
    /\ UNCHANGED <<plan, p, version, context, tables, effects, errors, report>>

\* The sources changed or the run is forced; or it is skipped after a rollback.
Compare ==
    /\ \/ /\ Step("compare", "run")
          /\ UNCHANGED <<rollback_attempted, outcome>>
       \/ /\ Step("compare", "rollback")
          /\ rollback_attempted' = TRUE /\ outcome' = "skipped"
    /\ UNCHANGED <<plan, p, version, context, tables, effects, raised,
                   primary_error, cleanup_errors, faults>>

-----------------------------------------------------------------------------
(* The pipelines.                                                          *)

\* ctx.get_resource(), of a fingerprint, a binding or the pipeline itself.
GetResource(k) ==
    /\ pc \in {"fingerprint", "run"} /\ p <= N /\ k \notin cache
    /\ cache' = cache \cup {k}
    /\ opened' = opened \cup {ObjectOf[k]}
    /\ UNCHANGED <<plan, pc, p, version, closed, closing, closes, results, tables,
                   effects, errors, report>>

\* The content a reader gets now: rows the cache holds are served from it, and the
\* others from the source, whose iteration is begun again.
Content(q, x) ==
    IF out[q].cached /\ out[q].rows[x] # Nobody THEN out[q].rows[x] ELSE version

\* One reader's pass over the given parts; it fills the cache as far as it goes.
ReadParts(q, parts) ==
    /\ seen' = [seen EXCEPT ![q] = [x \in Parts |->
                    IF x \in parts THEN @[x] \cup {Content(q, x)} ELSE @[x]]]
    /\ out' = IF out[q].cached
              THEN [out EXCEPT ![q].rows = [x \in Parts |->
                        IF x \in parts THEN Content(q, x) ELSE @[x]]]
              ELSE out

Read(q) == ReadParts(q, Parts)

\* ctx.get_result() of an earlier pipeline.
GetResult(q) ==
    /\ pc = "run" /\ p <= N /\ q \in results
    /\ Read(q)
    /\ UNCHANGED <<plan, pc, p, version, context, effects, errors, report>>

\* Mutant: a COPY table is never stabilized.
CopyIsSinglePass(s) ==
    [stabilize |-> s.db # "copy" /\ (s.db = "insert" \/ s.readers # {}),
     precount  |-> s.db # "copy"]

\* _plan_pipeline_output_handling(): a table with a reader besides the one pass of
\* COPY, or besides the row count, is stabilized.
PlanOutput(s) ==
    [stabilize |-> s.readers # {} \/ s.db = "insert",
     precount  |-> s.db # "copy"]

\* run() returns a lazy table.
PipelineReturns ==
    LET handling == PlanOutput(spec[p]) IN
    /\ pc = "run" /\ p <= N
    /\ pc' = IF handling.precount THEN "count" ELSE "publish_result"
    /\ out' = [out EXCEPT ![p].cached = handling.stabilize]
    /\ UNCHANGED <<plan, p, version, context, seen, effects, errors, report>>

CountRows ==
    /\ Step("count", "publish_result")
    /\ Read(p)
    /\ UNCHANGED <<plan, p, version, context, effects, errors, report>>

PublishResult ==
    /\ Step("publish_result", "display")
    /\ results' = IF "result" \in spec[p].readers THEN results \cup {p} ELSE results
    /\ UNCHANGED <<plan, p, version, cache, closed, closing, opened, closes, tables, effects, errors, report>>

\* display(limit=1000) reads no further than it shows.
Display ==
    /\ Step("display", "excel")
    /\ IF "display" \in spec[p].readers
       THEN ReadParts(p, IF spec[p].long THEN {"head"} ELSE Parts)
       ELSE UNCHANGED tables
    /\ UNCHANGED <<plan, p, version, context, effects, errors, report>>

NextPipeline == p' = p + 1 /\ pc' = "run"

ExportExcel ==
    /\ pc = "excel"
    /\ IF "excel" \in spec[p].readers THEN Read(p) /\ workbooks' = workbooks \cup {p}
                        ELSE UNCHANGED <<tables, workbooks>>
    /\ IF spec[p].db = "none" THEN NextPipeline ELSE pc' = "db" /\ UNCHANGED p
    /\ UNCHANGED <<plan, version, context, publisher, staged, published, errors, report>>

\* Mutant: the table is replaced where it is written.
ReplaceTable ==
    /\ pc = "db"
    /\ Read(p)
    /\ staged' = staged \cup {p} /\ published' = published \cup {p}
    /\ NextPipeline
    /\ UNCHANGED <<plan, version, context, workbooks, publisher, errors, report>>

\* The payload is built from the table and publisher.publish() stages it.
PublishTable ==
    /\ pc = "db"
    /\ Read(p)
    /\ staged' = staged \cup {p}
    /\ NextPipeline
    /\ UNCHANGED <<plan, version, context, workbooks, publisher, published, errors, report>>

\* The loop ends; without a publisher there is nothing to commit.
PipelinesEnd ==
    /\ pc = "run" /\ p = N + 1
    /\ IF publisher = "none"
       THEN pc' = "close_context" /\ outcome' = "returned"
       ELSE pc' = "commit" /\ UNCHANGED outcome
    /\ UNCHANGED <<plan, p, version, context, tables, effects, errors, raised>>

Commit ==
    /\ Step("commit", "close_publisher")
    /\ publisher' = "committed"
    /\ published' = staged /\ staged' = {}
    /\ outcome' = "returned"
    /\ UNCHANGED <<plan, p, version, context, tables, workbooks, errors, raised>>

-----------------------------------------------------------------------------
(* Failure and clean-up.                                                   *)

Finally == IF publisher = "none" THEN "close_context" ELSE "close_publisher"

\* try_rollback() of the except block.
AfterError == IF rollback_attempted \/ publisher = "none" THEN Finally ELSE "rollback"

\* A call in the try block raises; of a COMMIT nobody knows what it has done.
Raise ==
    /\ pc \in Body /\ faults < MaxFaults
    /\ faults' = faults + 1
    /\ \/ UNCHANGED <<staged, published>>
       \/ pc = "commit" /\ published' = staged /\ staged' = {}
    /\ primary_error' = faults'
    /\ pc' = AfterError
    /\ rollback_attempted' = (pc' = "rollback" \/ rollback_attempted)
    /\ UNCHANGED <<plan, p, version, context, tables, workbooks, publisher,
                   cleanup_errors, report>>

\* Mutant: an error of a clean-up step takes the place of the primary one.
Replaces == primary_error' = faults' /\ UNCHANGED cleanup_errors

\* try_step(): the error of a clean-up step is collected.
Collect == cleanup_errors' = cleanup_errors \cup {faults'} /\ UNCHANGED primary_error

\* A clean-up step ends, by returning or by raising.
TryStep ==
    \/ UNCHANGED <<faults, primary_error, cleanup_errors>>
    \/ faults < MaxFaults /\ faults' = faults + 1 /\ Collect

Rollback ==
    /\ Step("rollback", "close_publisher")
    /\ TryStep
    /\ staged' \in IF faults' = faults THEN {{}} ELSE SUBSET staged
    /\ UNCHANGED <<plan, p, version, context, tables, workbooks, publisher, published,
                   rollback_attempted, report>>

ClosePublisher ==
    /\ Step("close_publisher", "close_context")
    /\ TryStep
    /\ publisher' = "closed"
    /\ UNCHANGED <<plan, p, version, context, tables, workbooks, staged, published,
                   rollback_attempted, report>>

\* Mutant: one close() per key.
EveryKey == {cache}

\* One key for every object in the cache.
OnePerObject ==
    {S \in SUBSET cache :
        /\ {ObjectOf[k] : k \in S} = {ObjectOf[k] : k \in cache}
        /\ \A j, k \in S : ObjectOf[j] = ObjectOf[k] => j = k}

\* ctx.close() marks the context closed before it releases anything.
CloseContext ==
    /\ Step("close_context", "close_resources")
    /\ closed' = TRUE
    /\ closing' \in OnePerObject
    /\ cache' = {}
    /\ UNCHANGED <<plan, p, version, opened, closes, results, tables, effects, errors, report>>

\* attempt_all_cleanup(): an object that fails to close does not keep the others open.
CloseResource(k) ==
    /\ pc = "close_resources" /\ k \in closing
    /\ closing' = closing \ {k}
    /\ closes' = [closes EXCEPT ![ObjectOf[k]] = @ + 1]
    /\ TryStep
    /\ UNCHANGED <<plan, pc, p, version, cache, closed, opened, results, tables, effects,
                   rollback_attempted, report>>

ResourcesClosed ==
    /\ closing = {} /\ Step("close_resources", "report")
    /\ UNCHANGED <<plan, p, version, context, tables, effects, errors, report>>

\* What leaves the function: the primary error, or everything the clean-up collected.
Leave ==
    /\ Step("report", "done")
    /\ raised' = IF primary_error # 0 THEN {primary_error} ELSE cleanup_errors
    /\ outcome' = IF raised' # {} THEN "raised" ELSE outcome
    /\ UNCHANGED <<plan, p, version, context, tables, effects, errors>>

Next ==
    \/ SourceChanges
    \/ Start \/ MakePublisher \/ BeginRun \/ CollectFingerprints \/ Compare
    \/ \E k \in Keys : GetResource(k) \/ CloseResource(k)
    \/ \E q \in Pipelines : GetResult(q)
    \/ PipelineReturns \/ CountRows \/ PublishResult \/ Display \/ ExportExcel \/ PublishTable
    \/ PipelinesEnd \/ Commit
    \/ Raise \/ Rollback \/ ClosePublisher \/ CloseContext \/ ResourcesClosed \/ Leave

Spec == Init /\ [][Next]_vars

-----------------------------------------------------------------------------
(* Properties.                                                             *)

\* A long table that is displayed before anything has read it to its end: COPY has no
\* row count first.
Previewed(s) == s.db = "copy" /\ s.long

\* Every consumer of a pipeline's table gets the same rows, whatever happens to the
\* sources between one reader and the next; and they are the rows of one content of
\* the sources, unless the table was previewed.
ConsumersAgree ==
    \A q \in Pipelines :
        /\ \A x \in Parts : Cardinality(seen[q][x]) <= 1
        /\ ~Previewed(spec[q]) => Cardinality(seen[q]["head"] \cup seen[q]["rest"]) <= 1

\* Every object a run opened is closed when the run is over, and no object twice:
\* whichever call raised, in the body or in the clean-up, and under however many
\* keys the object is known.
ClosedOnce ==
    /\ \A o \in Objects : closes[o] <= 1
    /\ pc = "done" => \A o \in opened : closes[o] = 1

\* The tables are replaced together, after every pipeline has returned and every
\* workbook of the run is written; and a run that returns has replaced them all.
AllOrNothing ==
    /\ published # {} => /\ published = DbPipelines
                         /\ workbooks = ExcelPipelines
    /\ pc = "done" /\ outcome = "returned" =>
          published = DbPipelines /\ workbooks = ExcelPipelines
    /\ pc = "done" /\ outcome = "skipped" => published = {} /\ workbooks = {}

\* An error of the body, which comes before every other, is all the caller gets,
\* whatever the clean-up raises after it; and what the clean-up of a run without one
\* raises is never lost.
FirstErrorWins ==
    pc = "done" =>
        /\ primary_error # 0 => primary_error = 1 /\ raised = {1}
        /\ primary_error = 0 => raised = 1..faults
        /\ outcome = "raised" <=> faults > 0

=============================================================================
