------------------------- MODULE RunLifecycleProofs -------------------------
(***************************************************************************)
(* What one call of run_pipelines() guarantees for any number of           *)
(* pipelines, resources, faults and changes of the sources.                *)
(***************************************************************************)
EXTENDS RunLifecycle, FiniteSetTheorems, TLAPS

-----------------------------------------------------------------------------
(* The inductive invariant.                                                *)

Checking == {"start", "make", "begin", "fingerprint", "compare"}
Handling == {"count", "publish_result", "display", "excel", "db"}

\* Where the loop stands, and that nothing is staged without a publisher.
Progress ==
    /\ pc \in Checking => p = 1
    /\ pc \in Handling => p <= N
    /\ pc = "count" => spec[p].db # "copy"
    /\ pc = "db" => spec[p].db # "none"
    /\ pc = "commit" => p = N + 1
    /\ pc \in {"start", "make"} => publisher = "none"
    /\ pc \in {"begin", "fingerprint", "compare", "commit"} => publisher \in {"made", "begun"}
    /\ pc \in {"run"} \cup Handling =>
          \/ publisher \in {"made", "begun"}
          \/ publisher = "none" /\ DbPipelines = {}
    /\ pc = "rollback" => publisher \in {"made", "begun"}
    /\ outcome # "running" => pc \notin {"start"} \cup Body
    /\ outcome = "raised" => pc = "done"

\* A table whose pipeline has not returned is unread; whether it is cached is what was
\* planned; each part of a cached one is read as one content, a lazy one once.
Unread(q) ==
    /\ ~out[q].cached
    /\ \A x \in Parts : seen[q][x] = {} /\ out[q].rows[x] = Nobody

Planned(q) == out[q].cached = PlanOutput(spec[q]).stabilize

PartOnce(q, x) ==
    IF out[q].cached /\ out[q].rows[x] = Nobody THEN seen[q][x] = {}
    ELSE \E v \in Versions :
            seen[q][x] \subseteq {v} /\ (out[q].cached => v = out[q].rows[x])

\* Both parts were read by the same passes.
InStep(q) ==
    ~Previewed(spec[q]) =>
        /\ out[q].rows["head"] = out[q].rows["rest"]
        /\ ~out[q].cached => seen[q]["head"] = seen[q]["rest"]

OneContent(q) == (\A x \in Parts : PartOnce(q, x)) /\ InStep(q)

\* A cache read to the end, which the row count does where there is one.
Complete(q) == \A x \in Parts : out[q].rows[x] # Nobody

NotRead(q) == \A x \in Parts : seen[q][x] = {}

Reading ==
    /\ \A q \in Pipelines :
         /\ OneContent(q)
         /\ q > p \/ (q = p /\ pc \in Checking \cup {"run"}) => Unread(q)
         /\ q < p \/ (q = p /\ pc \in Handling) => Planned(q)
         /\ q = p /\ pc \in Handling /\ ~out[q].cached /\ (pc = "count" \/ spec[q].db # "none")
              => NotRead(q)
         /\ q = p /\ pc \in Handling \ {"count"} /\ out[q].cached /\ spec[q].db # "copy"
              => Complete(q)
         /\ q \in results =>
              /\ "result" \in spec[q].readers
              /\ q < p \/ (q = p /\ pc \notin Checking \cup {"run"})

\* An object is open, about to be closed under one key, or closed.
ObjectsOf(keys) == {ObjectOf[k] : k \in keys}

Closing ==
    /\ closes \in [Objects -> 0..1]
    /\ pc \notin {"close_resources", "report", "done"} =>
          /\ closing = {} /\ opened = ObjectsOf(cache)
          /\ \A o \in Objects : closes[o] = 0
    /\ pc \in {"close_resources", "report", "done"} =>
          /\ ObjectsOf(closing) \subseteq opened
          /\ \A j, k \in closing : ObjectOf[j] = ObjectOf[k] => j = k
          /\ \A o \in Objects : closes[o] = 0 <=> o \notin opened \ ObjectsOf(closing)
    /\ pc \in {"report", "done"} => closing = {}

\* What is staged, written and replaced, as far as the loop has come.
Effects ==
    /\ pc \in {"start"} \cup Body =>
          /\ published = {}
          /\ staged = {q \in DbPipelines : q < p}
          /\ workbooks = {q \in ExcelPipelines : q < p \/ (q = p /\ pc = "db")}
    /\ published # {} => published = DbPipelines /\ workbooks = ExcelPipelines
    /\ outcome = "returned" => published = DbPipelines /\ workbooks = ExcelPipelines
    /\ outcome = "skipped" => published = {} /\ workbooks = {}

\* The first error, if it is one of the body, or else all of them.
Errors ==
    /\ pc \in {"start"} \cup Body => faults = 0
    /\ \/ primary_error = 0 /\ cleanup_errors = 1..faults
       \/ primary_error = 1 /\ faults >= 1
    /\ pc # "done" => raised = {}
    /\ pc = "done" => /\ raised = IF primary_error # 0 THEN {primary_error} ELSE cleanup_errors
                      /\ outcome = "raised" <=> raised # {}

IInv == TypeOK /\ Progress /\ Reading /\ Closing /\ Effects /\ Errors

-----------------------------------------------------------------------------
\* What one reader changes: each part it reads is read as one content, if the table is
\* cached or has not been read yet, and no other table is touched.  It may leave out a
\* part where the table is previewed or the cache complete.
LEMMA ReadOne ==
    ASSUME TypeOK, NEW q \in Pipelines, OneContent(q), spec' = spec,
           NEW parts \in SUBSET Parts, ReadParts(q, parts), out[q].cached \/ NotRead(q),
           parts = Parts \/ (out[q].cached /\ (Previewed(spec[q]) \/ Complete(q)))
    PROVE  /\ out' \in [Pipelines -> [cached : BOOLEAN, rows : [Parts -> Versions \cup {Nobody}]]]
           /\ seen' \in [Pipelines -> [Parts -> SUBSET Versions]]
           /\ OneContent(q)'
           /\ out'[q].cached = out[q].cached
           /\ parts = Parts /\ out[q].cached => Complete(q)'
           /\ Complete(q) => Complete(q)'
           /\ \A y \in Pipelines \ {q} : out'[y] = out[y] /\ seen'[y] = seen[y]
<1>1. Nobody \notin Versions
  BY LifecycleAssumption DEF Nobody, Versions
<1>2. /\ version \in Versions /\ seen \in [Pipelines -> [Parts -> SUBSET Versions]]
      /\ out \in [Pipelines -> [cached : BOOLEAN, rows : [Parts -> Versions \cup {Nobody}]]]
  BY DEF TypeOK
<1>3. \A x \in Parts : Content(q, x) \in Versions
  BY <1>1, <1>2 DEF Content
<1>4. /\ seen' \in [Pipelines -> [Parts -> SUBSET Versions]]
      /\ \A x \in Parts : seen'[q][x] = IF x \in parts THEN seen[q][x] \cup {Content(q, x)} ELSE seen[q][x]
      /\ \A y \in Pipelines \ {q} : seen'[y] = seen[y]
  BY <1>2, <1>3 DEF ReadParts
<1>5. "head" \in Parts /\ "rest" \in Parts
  BY DEF Parts
<1>6. CASE out[q].cached
  <2>1. out' = [out EXCEPT ![q].rows = [x \in Parts |-> IF x \in parts THEN Content(q, x) ELSE @[x]]]
    BY <1>6 DEF ReadParts
  <2>2. /\ out' \in [Pipelines -> [cached : BOOLEAN, rows : [Parts -> Versions \cup {Nobody}]]]
        /\ out'[q].cached = out[q].cached
        /\ \A x \in Parts : out'[q].rows[x] = IF x \in parts THEN Content(q, x) ELSE out[q].rows[x]
        /\ \A y \in Pipelines \ {q} : out'[y] = out[y]
    BY <2>1, <1>2, <1>3
  <2>3. ASSUME NEW x \in Parts PROVE PartOnce(q, x)'
    <3>1. CASE x \in parts
      <4>1. seen[q][x] \subseteq {Content(q, x)}
        BY <1>2, <1>6 DEF OneContent, PartOnce, Content
      <4>2. seen'[q][x] \subseteq {Content(q, x)} /\ out'[q].rows[x] = Content(q, x)
        BY <4>1, <3>1, <1>4, <2>2
      <4>3. QED
        BY <4>2, <2>2, <1>1, <1>3, <1>6 DEF PartOnce, Versions
    <3>2. CASE x \notin parts
      <4>1. seen'[q][x] = seen[q][x] /\ out'[q].rows[x] = out[q].rows[x]
        BY <3>2, <1>4, <2>2
      <4>2. QED
        BY <4>1, <2>2, <1>6 DEF OneContent, PartOnce, Versions, Nobody
    <3>3. QED
      BY <3>1, <3>2
  <2>4. ~Previewed(spec[q]) => out'[q].rows["head"] = out'[q].rows["rest"]
    BY <2>2, <1>5, <1>6 DEF OneContent, InStep, Content, Complete
  <2>5. Complete(q) => Complete(q)'
    BY <2>2, <1>1, <1>3 DEF Complete, Nobody
  <2>6. parts = Parts => Complete(q)'
    BY <2>2, <1>1, <1>3 DEF Complete, Nobody
  <2>7. InStep(q)'
    BY <2>2, <2>4, <1>6 DEF InStep
  <2>8. QED
    BY <2>2, <2>3, <2>5, <2>6, <2>7, <1>4 DEF OneContent
<1>7. CASE ~out[q].cached
  <2>1. out' = out /\ parts = Parts /\ \A x \in Parts : seen[q][x] = {}
    BY <1>7 DEF ReadParts, NotRead
  <2>2. \A x \in Parts : Content(q, x) = version /\ seen'[q][x] = {version}
    BY <2>1, <1>4, <1>7 DEF Content
  <2>3. \A x \in Parts : PartOnce(q, x)'
    BY <2>1, <2>2, <1>2, <1>7 DEF PartOnce, Versions
  <2>4. InStep(q)'
    BY <2>1, <2>2, <1>5 DEF OneContent, InStep
  <2>5. QED
    BY <2>1, <2>3, <2>4, <1>2, <1>4, <1>7 DEF OneContent, Complete, Nobody
<1>8. QED
  BY <1>6, <1>7

\* What is said of a table holds as long as nobody reads it.
LEMMA NobodyReads ==
    ASSUME out' = out, seen' = seen, spec' = spec
    PROVE  \A y \in Pipelines :
             /\ OneContent(y) => OneContent(y)'
             /\ Unread(y) => Unread(y)'
             /\ Planned(y) => Planned(y)'
             /\ NotRead(y) => NotRead(y)'
             /\ Complete(y) => Complete(y)'
<1> SUFFICES ASSUME NEW y \in Pipelines
             PROVE  /\ OneContent(y) => OneContent(y)'
                    /\ Unread(y) => Unread(y)'
                    /\ Planned(y) => Planned(y)'
                    /\ NotRead(y) => NotRead(y)'
                    /\ Complete(y) => Complete(y)'
  OBVIOUS
<1>1. OneContent(y) => OneContent(y)'
  BY DEF OneContent, PartOnce, InStep, Versions, Nobody
<1>2. QED
  BY <1>1 DEF Unread, Planned, NotRead, Complete, Nobody

\* Whoever reads a table reads one that is cached, or that nobody has read.
LEMMA ReadersAllowed ==
    ASSUME TypeOK, Progress, Reading
    PROVE  /\ \A q \in results :
                pc = "run" /\ p <= N =>
                    q \in Pipelines /\ out[q].cached /\ q < p
           /\ pc \in {"count", "db"} => p \in Pipelines /\ (out[p].cached \/ NotRead(p))
           /\ pc = "display" /\ "display" \in spec[p].readers =>
                p \in Pipelines /\ out[p].cached /\ (spec[p].db # "copy" => Complete(p))
           /\ pc = "excel" /\ "excel" \in spec[p].readers =>
                p \in Pipelines /\ out[p].cached
<1> USE LifecycleAssumption DEF TypeOK, Pipelines
<1>1. \A q \in results : pc = "run" => q < p
  BY DEF Reading, Checking, Handling
<1>2. pc \in Handling => p \in Pipelines
  BY DEF Progress
<1>3. \A q \in Pipelines : spec[q].readers # {} /\ Planned(q) => out[q].cached
  BY DEF Planned, PlanOutput
<1>4. \A q \in Pipelines : q < p \/ (q = p /\ pc \in Handling) => Planned(q)
  BY DEF Reading
<1>5. \A q \in results : q \in Pipelines /\ spec[q].readers # {}
  BY DEF Reading
<1>6. pc \in {"count", "db"} => out[p].cached \/ NotRead(p)
  BY <1>2 DEF Reading, Progress, Handling
<1>7. pc = "display" /\ out[p].cached /\ spec[p].db # "copy" => Complete(p)
  BY <1>2 DEF Reading, Progress, Handling
<1>8. QED
  BY <1>1, <1>2, <1>3, <1>4, <1>5, <1>6, <1>7 DEF Handling

\* A clean-up step that raises adds its fault to those collected.
LEMMA TryStepCollects ==
    ASSUME TypeOK, Errors, TryStep
    PROVE  /\ faults' \in 0..MaxFaults /\ faults <= faults'
           /\ primary_error' = primary_error
           /\ \/ primary_error = 0 /\ cleanup_errors' = 1..faults'
              \/ primary_error = 1 /\ faults' >= 1
           /\ cleanup_errors' \subseteq 1..faults'
<1> USE LifecycleAssumption DEF TypeOK
<1>1. CASE UNCHANGED <<faults, primary_error, cleanup_errors>>
  BY <1>1 DEF Errors
<1>2. CASE faults < MaxFaults /\ faults' = faults + 1 /\ Collect
  <2>1. /\ faults' \in 0..MaxFaults /\ faults <= faults' /\ faults' >= 1
        /\ primary_error' = primary_error
    BY <1>2 DEF Collect
  <2>2. 1..faults' = 1..faults \cup {faults'}
    <3>1. faults \in Nat /\ faults' = faults + 1
      BY <1>2
    <3> HIDE DEF TypeOK
    <3>2. QED
      BY <3>1
  <2>3. cleanup_errors' = cleanup_errors \cup {faults'}
    BY <1>2 DEF Collect
  <2>4. QED
    BY <2>1, <2>2, <2>3 DEF Errors
<1>3. QED
  BY <1>1, <1>2 DEF TryStep

\* What that leaves of the tables' part of the invariant, whatever else the step does.
LEMMA OthersUntouched ==
    ASSUME TypeOK, Reading, spec' = spec,
           NEW q \in Pipelines, NEW parts \in SUBSET Parts, ReadParts(q, parts),
           out[q].cached \/ NotRead(q),
           parts = Parts \/ (out[q].cached /\ (Previewed(spec[q]) \/ Complete(q)))
    PROVE  /\ \A y \in Pipelines : OneContent(y)'
           /\ \A y \in Pipelines : Planned(y) => Planned(y)'
           /\ \A y \in Pipelines : out'[y].cached = out[y].cached
           /\ \A y \in Pipelines : Complete(y) => Complete(y)'
           /\ parts = Parts /\ out[q].cached => Complete(q)'
           /\ \A y \in Pipelines \ {q} : (NotRead(y) => NotRead(y)') /\ (Unread(y) => Unread(y)')
<1>1. \A y \in Pipelines : OneContent(y)
  BY DEF Reading
<1>2. /\ OneContent(q)' /\ out'[q].cached = out[q].cached
      /\ Complete(q) => Complete(q)'
      /\ parts = Parts /\ out[q].cached => Complete(q)'
      /\ \A y \in Pipelines \ {q} : out'[y] = out[y] /\ seen'[y] = seen[y]
  BY <1>1, ReadOne
<1>3. ASSUME NEW y \in Pipelines \ {q}
      PROVE  /\ OneContent(y)'
             /\ Unread(y) => Unread(y)'
             /\ Complete(y) => Complete(y)'
             /\ NotRead(y) => NotRead(y)'
  <2>1. out'[y] = out[y] /\ seen'[y] = seen[y] /\ OneContent(y)
    BY <1>1, <1>2
  <2>2. QED
    BY <2>1 DEF OneContent, PartOnce, InStep, Unread, Complete, NotRead, Versions, Nobody
<1>4. QED
  BY <1>2, <1>3 DEF Planned

\* A pass over the whole table, as all readers but a preview make it.
LEMMA WholeRead ==
    ASSUME TypeOK, Reading, spec' = spec,
           NEW q \in Pipelines, Read(q), out[q].cached \/ NotRead(q)
    PROVE  /\ \A y \in Pipelines : OneContent(y)'
           /\ \A y \in Pipelines : Planned(y) => Planned(y)'
           /\ \A y \in Pipelines : out'[y].cached = out[y].cached
           /\ \A y \in Pipelines : Complete(y) => Complete(y)'
           /\ out[q].cached => Complete(q)'
           /\ \A y \in Pipelines \ {q} : (NotRead(y) => NotRead(y)') /\ (Unread(y) => Unread(y)')
BY OthersUntouched DEF Read

\* The types of the tables, after a pass of any reader.
LEMMA ReadTypes ==
    ASSUME TypeOK, Reading, spec' = spec,
           NEW q \in Pipelines, NEW parts \in SUBSET Parts, ReadParts(q, parts),
           out[q].cached \/ NotRead(q),
           parts = Parts \/ (out[q].cached /\ (Previewed(spec[q]) \/ Complete(q)))
    PROVE  /\ out' \in [Pipelines -> [cached : BOOLEAN, rows : [Parts -> Versions \cup {Nobody}]]]
           /\ seen' \in [Pipelines -> [Parts -> SUBSET Versions]]
<1>1. OneContent(q)
  BY DEF Reading
<1>2. QED
  BY <1>1, ReadOne

\* The same, for a pass over the whole table.
LEMMA WholeTypes ==
    ASSUME TypeOK, Reading, spec' = spec,
           NEW q \in Pipelines, Read(q), out[q].cached \/ NotRead(q)
    PROVE  /\ out' \in [Pipelines -> [cached : BOOLEAN, rows : [Parts -> Versions \cup {Nobody}]]]
           /\ seen' \in [Pipelines -> [Parts -> SUBSET Versions]]
BY ReadTypes DEF Read

\* The runner's phases come in order.
LEMMA ProgressStep == TypeOK /\ Progress /\ [Next]_vars => Progress'
<1> SUFFICES ASSUME TypeOK, Progress, [Next]_vars PROVE Progress'
  OBVIOUS
<1> USE LifecycleAssumption DEF PC, Body, Cleanup, Checking, Handling, Step, plan,
        context, tables, effects, errors, report, vars, TypeOK, Progress, DbPipelines,
        Pipelines, PlanOutput, NextPipeline, Finally, AfterError, TryStep, Collect,
        Specs
<1>1. CASE SourceChanges  BY <1>1 DEF SourceChanges
<1>2. CASE Start  BY <1>2 DEF Start
<1>3. CASE MakePublisher  BY <1>3 DEF MakePublisher
<1>4. CASE BeginRun  BY <1>4 DEF BeginRun
<1>5. CASE CollectFingerprints  BY <1>5 DEF CollectFingerprints
<1>6. CASE Compare  BY <1>6 DEF Compare
<1>7. ASSUME NEW k \in Keys, GetResource(k) PROVE Progress'
  BY <1>7 DEF GetResource
<1>8. ASSUME NEW k \in Keys, CloseResource(k) PROVE Progress'
  BY <1>8 DEF CloseResource
<1>9. ASSUME NEW q \in Pipelines, GetResult(q) PROVE Progress'
  BY <1>9 DEF GetResult
<1>10. CASE PipelineReturns  BY <1>10 DEF PipelineReturns
<1>11. CASE CountRows  BY <1>11 DEF CountRows
<1>12. CASE PublishResult  BY <1>12 DEF PublishResult
<1>13. CASE Display  BY <1>13 DEF Display
<1>14. CASE ExportExcel  BY <1>14 DEF ExportExcel
<1>15. CASE PublishTable  BY <1>15 DEF PublishTable
<1>16. CASE PipelinesEnd  BY <1>16 DEF PipelinesEnd
<1>17. CASE Commit  BY <1>17 DEF Commit
<1>18. CASE Raise  BY <1>18 DEF Raise
<1>19. CASE Rollback  BY <1>19 DEF Rollback
<1>20. CASE ClosePublisher  BY <1>20 DEF ClosePublisher
<1>21. CASE CloseContext  BY <1>21 DEF CloseContext
<1>22. CASE ResourcesClosed  BY <1>22 DEF ResourcesClosed
<1>23. CASE Leave  BY <1>23 DEF Leave
<1>24. CASE UNCHANGED vars  BY <1>24 DEF plan, context, tables, effects, errors, report, vars
<1>25. QED
  BY <1>1, <1>2, <1>3, <1>4, <1>5, <1>6, <1>7, <1>8, <1>9, <1>10, <1>11, <1>12, <1>13,
     <1>14, <1>15, <1>16, <1>17, <1>18, <1>19, <1>20, <1>21, <1>22, <1>23, <1>24 DEF
     Next

\* Every object is closed under one of its keys.
LEMMA ClosingStep == TypeOK /\ Closing /\ [Next]_vars => Closing'
<1> SUFFICES ASSUME TypeOK, Closing, [Next]_vars PROVE Closing'
  OBVIOUS
<1> USE DEF PC, Body, Cleanup, Checking, Handling, Step, plan, context, tables, effects,
        errors, report, vars, TypeOK, Closing, ObjectsOf, Objects, NextPipeline,
        Finally, AfterError
<1>1. CASE SourceChanges  BY <1>1 DEF SourceChanges
<1>2. CASE Start  BY <1>2 DEF Start
<1>3. CASE MakePublisher  BY <1>3 DEF MakePublisher
<1>4. CASE BeginRun  BY <1>4 DEF BeginRun
<1>5. CASE CollectFingerprints  BY <1>5 DEF CollectFingerprints
<1>6. CASE Compare  BY <1>6 DEF Compare
<1>7. ASSUME NEW k \in Keys, GetResource(k) PROVE Closing'
  BY <1>7 DEF GetResource
<1>8. ASSUME NEW k \in Keys, CloseResource(k) PROVE Closing'
  <2>1. /\ k \in closing /\ closing' = closing \ {k} /\ cache' = cache /\ opened' = opened
        /\ closes' = [closes EXCEPT ![ObjectOf[k]] = @ + 1]
        /\ pc = "close_resources" /\ pc' = pc
    BY <1>8 DEF CloseResource
  <2>2. ObjectOf[k] \in Objects /\ closes[ObjectOf[k]] = 0
    BY <2>1
  <2>3. /\ closes' \in [Objects -> 0..1] /\ closes'[ObjectOf[k]] = 1
        /\ \A o \in Objects \ {ObjectOf[k]} : closes'[o] = closes[o]
    BY <2>1, <2>2
  <2>4. /\ ObjectsOf(closing') = ObjectsOf(closing) \ {ObjectOf[k]}
        /\ \A i, j \in closing' : ObjectOf[i] = ObjectOf[j] => i = j
    BY <2>1
  <2>5. \A o \in Objects : closes'[o] = 0 <=> o \notin opened' \ ObjectsOf(closing')
    BY <2>1, <2>2, <2>3, <2>4
  <2>6. QED
    BY <2>1, <2>3, <2>4, <2>5
<1>9. ASSUME NEW q \in Pipelines, GetResult(q) PROVE Closing'
  BY <1>9 DEF GetResult
<1>10. CASE PipelineReturns  BY <1>10 DEF PipelineReturns
<1>11. CASE CountRows  BY <1>11 DEF CountRows
<1>12. CASE PublishResult  BY <1>12 DEF PublishResult
<1>13. CASE Display  BY <1>13 DEF Display
<1>14. CASE ExportExcel  BY <1>14 DEF ExportExcel
<1>15. CASE PublishTable  BY <1>15 DEF PublishTable
<1>16. CASE PipelinesEnd  BY <1>16 DEF PipelinesEnd
<1>17. CASE Commit  BY <1>17 DEF Commit
<1>18. CASE Raise  BY <1>18 DEF Raise
<1>19. CASE Rollback  BY <1>19 DEF Rollback
<1>20. CASE ClosePublisher  BY <1>20 DEF ClosePublisher
<1>21. CASE CloseContext
  <2>1. /\ pc = "close_context" /\ pc' = "close_resources"
        /\ closes' = closes /\ opened' = opened /\ closing' \in OnePerObject
    BY <1>21 DEF CloseContext
  <2>2. /\ ObjectsOf(closing') = ObjectsOf(cache) /\ opened = ObjectsOf(cache)
        /\ \A i, j \in closing' : ObjectOf[i] = ObjectOf[j] => i = j
        /\ \A o \in Objects : closes[o] = 0
    BY <2>1 DEF OnePerObject
  <2>3. \A o \in Objects : closes'[o] = 0 <=> o \notin opened' \ ObjectsOf(closing')
    BY <2>1, <2>2
  <2>4. QED
    BY <2>1, <2>2, <2>3
<1>22. CASE ResourcesClosed  BY <1>22 DEF ResourcesClosed
<1>23. CASE Leave  BY <1>23 DEF Leave
<1>24. CASE UNCHANGED vars  BY <1>24 DEF plan, context, tables, effects, errors, report, vars
<1>25. QED
  BY <1>1, <1>2, <1>3, <1>4, <1>5, <1>6, <1>7, <1>8, <1>9, <1>10, <1>11, <1>12, <1>13,
     <1>14, <1>15, <1>16, <1>17, <1>18, <1>19, <1>20, <1>21, <1>22, <1>23, <1>24 DEF
     Next

\* Every table is read as one content.
LEMMA ReadingStep == TypeOK /\ Progress /\ Reading /\ [Next]_vars => Reading'
<1> SUFFICES ASSUME TypeOK, Progress, Reading, [Next]_vars PROVE Reading'
  OBVIOUS
<1> USE LifecycleAssumption DEF plan, context, tables, effects, errors, report, vars, Step
<1>1. ASSUME NEW q \in Pipelines, GetResult(q) PROVE Reading'
  <2>1. /\ pc = "run" /\ pc' = "run" /\ p <= N /\ p' = p /\ q \in results
        /\ Read(q) /\ spec' = spec /\ results' = results
    BY <1>1 DEF GetResult
  <2>2. q \in Pipelines /\ out[q].cached /\ q < p
    BY <2>1, ReadersAllowed
  <2>3. /\ \A y \in Pipelines : OneContent(y)' /\ out'[y].cached = out[y].cached
        /\ \A y \in Pipelines : (Planned(y) => Planned(y)') /\ (Complete(y) => Complete(y)')
        /\ out[q].cached => Complete(q)'
        /\ \A y \in Pipelines \ {q} : (NotRead(y) => NotRead(y)') /\ (Unread(y) => Unread(y)')
    BY <2>1, <2>2, WholeRead
  <2>4. \A x \in Pipelines : x > p \/ x = p => x # q
    BY <2>2 DEF TypeOK, Pipelines
  <2>5. \A x \in Pipelines : x > p \/ x = p => Unread(x)'
    BY <2>1, <2>3, <2>4 DEF Reading
  <2>6. \A x \in Pipelines : x < p => Planned(x)'
    BY <2>1, <2>3 DEF Reading
  <2>7. \A x \in results : "result" \in spec[x].readers /\ x < p
    BY <2>1 DEF TypeOK, Reading, Checking, Handling
  <2>8. QED
    BY <2>1, <2>3, <2>5, <2>6, <2>7 DEF Reading, Handling, Checking
<1>2. CASE PipelineReturns
  <2>0. /\ pc = "run" /\ p \in Pipelines
        /\ pc' = IF PlanOutput(spec[p]).precount THEN "count" ELSE "publish_result"
    BY <1>2 DEF PipelineReturns, TypeOK, Pipelines
  <2>1. /\ pc = "run" /\ p \in Pipelines /\ pc' \in {"count", "publish_result"}
        /\ pc' # "count" => spec[p].db = "copy"
        /\ p' = p /\ spec' = spec /\ seen' = seen /\ results' = results
        /\ out' = [out EXCEPT ![p].cached = PlanOutput(spec[p]).stabilize]
    BY <1>2, <2>0 DEF PipelineReturns, PlanOutput
  <2>2. /\ \A x \in Pipelines \ {p} : out'[x] = out[x]
        /\ out'[p].cached = PlanOutput(spec[p]).stabilize /\ NotRead(p)'
        /\ \A x \in Parts : out'[p].rows[x] = Nobody /\ seen'[p][x] = {}
    BY <2>1 DEF TypeOK, Reading, Unread, NotRead
  <2>3. /\ OneContent(p)' /\ Planned(p)'
    <3>1. 0 \in Versions /\ "head" \in Parts /\ "rest" \in Parts
      BY LifecycleAssumption DEF Versions, Parts
    <3>2. \A x \in Parts : out'[p].rows[x] = Nobody /\ seen'[p][x] = {}
      BY <2>2
    <3>6. ASSUME NEW x \in Parts PROVE PartOnce(p, x)'
      BY <3>1, <3>2, <2>1, <2>2 DEF PartOnce, Versions, Nobody
    <3>3. InStep(p)'
      BY <2>1, <2>2, <3>1 DEF InStep
    <3>4. Planned(p)'
      BY <2>1, <2>2 DEF Planned, PlanOutput
    <3>5. QED
      BY <3>6, <3>3, <3>4 DEF OneContent
  <2>4. \A x \in Pipelines \ {p} :
           /\ OneContent(x) => OneContent(x)'
           /\ Planned(x) => Planned(x)'
           /\ Unread(x) => Unread(x)'
    BY <2>1, <2>2 DEF OneContent, PartOnce, InStep, Planned, Unread, Versions, Nobody
  <2>5. QED
    BY <2>1, <2>2, <2>3, <2>4 DEF TypeOK, Reading, Pipelines, Handling, Checking
<1>3. CASE CountRows
  <2>1. /\ pc = "count" /\ pc' = "publish_result" /\ p' = p
        /\ Read(p) /\ spec' = spec /\ results' = results
    BY <1>3 DEF CountRows
  <2>2. p \in Pipelines /\ (out[p].cached \/ NotRead(p))
    BY <2>1, ReadersAllowed
  <2>3. /\ \A y \in Pipelines : OneContent(y)' /\ out'[y].cached = out[y].cached
        /\ \A y \in Pipelines : (Planned(y) => Planned(y)') /\ (Complete(y) => Complete(y)')
        /\ out[p].cached => Complete(p)'
        /\ \A y \in Pipelines \ {p} : (NotRead(y) => NotRead(y)') /\ (Unread(y) => Unread(y)')
    BY <2>1, <2>2, WholeRead
  <2>4. out[p].cached \/ spec[p].db = "none"
    BY <2>1, <2>2 DEF TypeOK, Reading, Progress, Handling, Planned, PlanOutput, Specs
  <2>5. QED
    BY <2>1, <2>2, <2>3, <2>4 DEF TypeOK, Reading, Pipelines, Handling, Checking
<1>4. CASE Display
  <2>1. CASE "display" \in spec[p].readers
    <3> DEFINE parts == IF spec[p].long THEN {"head"} ELSE Parts
    <3>1. /\ pc = "display" /\ pc' = "excel" /\ p' = p
          /\ ReadParts(p, parts) /\ spec' = spec /\ results' = results
      BY <1>4, <2>1 DEF Display
    <3>2. p \in Pipelines /\ out[p].cached /\ (spec[p].db # "copy" => Complete(p))
      BY <2>1, <3>1, ReadersAllowed
    <3>3. parts \in SUBSET Parts /\ (parts = Parts \/ Previewed(spec[p]) \/ Complete(p))
      BY <3>2 DEF Parts, Previewed
    <3> HIDE DEF parts
    <3>4. /\ \A y \in Pipelines : OneContent(y)' /\ out'[y].cached = out[y].cached
          /\ \A y \in Pipelines : (Planned(y) => Planned(y)') /\ (Complete(y) => Complete(y)')
          /\ \A y \in Pipelines \ {p} : (NotRead(y) => NotRead(y)') /\ (Unread(y) => Unread(y)')
      BY <3>1, <3>2, <3>3, OthersUntouched
    <3>5. QED
      BY <3>1, <3>2, <3>4 DEF TypeOK, Reading, Pipelines, Handling, Checking
  <2>2. CASE "display" \notin spec[p].readers
    <3>1. /\ pc = "display" /\ pc' = "excel" /\ p' = p
          /\ spec' = spec /\ results' = results /\ out' = out /\ seen' = seen
      BY <1>4, <2>2 DEF Display
    <3>2. QED
      BY <3>1, NobodyReads DEF TypeOK, Reading, Pipelines, Handling, Checking
  <2>3. QED
    BY <2>1, <2>2
<1>5. CASE ExportExcel
  <2>1. CASE "excel" \in spec[p].readers
    <3>1. /\ pc = "excel"
          /\ (p' = p /\ pc' = "db") \/ (p' = p + 1 /\ pc' = "run")
          /\ Read(p) /\ spec' = spec /\ results' = results
      BY <1>5, <2>1 DEF ExportExcel, NextPipeline
    <3>2. PICK q \in Pipelines : q = p /\ out[q].cached
      BY <2>1, <3>1, ReadersAllowed
    <3>3. /\ \A y \in Pipelines : OneContent(y)' /\ out'[y].cached = out[y].cached
          /\ \A y \in Pipelines : (Planned(y) => Planned(y)') /\ (Complete(y) => Complete(y)')
          /\ out[q].cached => Complete(q)'
          /\ \A y \in Pipelines \ {q} : (NotRead(y) => NotRead(y)') /\ (Unread(y) => Unread(y)')
      BY <3>1, <3>2, WholeRead
    <3>4. QED
      BY <3>1, <3>2, <3>3 DEF TypeOK, Reading, Pipelines, Handling, Checking
  <2>2. CASE "excel" \notin spec[p].readers
    <3>1. /\ pc = "excel"
          /\ (p' = p /\ pc' = "db") \/ (p' = p + 1 /\ pc' = "run")
          /\ spec' = spec /\ results' = results /\ out' = out /\ seen' = seen
      BY <1>5, <2>2 DEF ExportExcel, NextPipeline
    <3>2. QED
      BY <3>1, NobodyReads DEF TypeOK, Reading, Pipelines, Handling, Checking
  <2>3. QED
    BY <2>1, <2>2
<1>6. CASE PublishTable
  <2>1. /\ pc = "db" /\ p' = p + 1 /\ pc' = "run"
        /\ Read(p) /\ spec' = spec /\ results' = results
    BY <1>6 DEF PublishTable, NextPipeline
  <2>2. PICK q \in Pipelines : q = p /\ (out[q].cached \/ NotRead(q))
    BY <2>1, ReadersAllowed
  <2>3. /\ \A y \in Pipelines : OneContent(y)' /\ out'[y].cached = out[y].cached
        /\ \A y \in Pipelines : (Planned(y) => Planned(y)') /\ (Complete(y) => Complete(y)')
        /\ out[q].cached => Complete(q)'
        /\ \A y \in Pipelines \ {q} : (NotRead(y) => NotRead(y)') /\ (Unread(y) => Unread(y)')
    BY <2>1, <2>2, WholeRead
  <2>4. QED
    BY <2>1, <2>2, <2>3 DEF TypeOK, Reading, Pipelines, Handling, Checking
<1> USE NobodyReads DEF PC, Body, Cleanup, Checking, Handling, TypeOK, Progress, Reading, Pipelines, Finally, AfterError
<1>7. CASE SourceChanges  BY <1>7 DEF SourceChanges
<1>8. CASE Start  BY <1>8 DEF Start
<1>9. CASE MakePublisher  BY <1>9 DEF MakePublisher
<1>10. CASE BeginRun  BY <1>10 DEF BeginRun
<1>11. CASE CollectFingerprints  BY <1>11 DEF CollectFingerprints
<1>12. CASE Compare  BY <1>12 DEF Compare
<1>13. ASSUME NEW k \in Keys, GetResource(k) PROVE Reading'
  BY <1>13 DEF GetResource
<1>14. ASSUME NEW k \in Keys, CloseResource(k) PROVE Reading'
  BY <1>14 DEF CloseResource
<1>15. CASE PublishResult  BY <1>15 DEF PublishResult
<1>16. CASE PipelinesEnd  BY <1>16 DEF PipelinesEnd
<1>17. CASE Commit  BY <1>17 DEF Commit
<1>18. CASE Raise  BY <1>18 DEF Raise
<1>19. CASE Rollback  BY <1>19 DEF Rollback
<1>20. CASE ClosePublisher  BY <1>20 DEF ClosePublisher
<1>21. CASE CloseContext  BY <1>21 DEF CloseContext
<1>22. CASE ResourcesClosed  BY <1>22 DEF ResourcesClosed
<1>23. CASE Leave  BY <1>23 DEF Leave
<1>24. CASE UNCHANGED vars  BY <1>24 DEF plan, context, tables, effects, errors, report, vars
<1>25. QED
  BY <1>1, <1>2, <1>3, <1>4, <1>5, <1>6, <1>7, <1>8, <1>9, <1>10, <1>11, <1>12, <1>13,
     <1>14, <1>15, <1>16, <1>17, <1>18, <1>19, <1>20, <1>21, <1>22, <1>23, <1>24 DEF
     Next

\* What is staged, written and replaced follows the loop.
LEMMA EffectsStep == TypeOK /\ Progress /\ Effects /\ [Next]_vars => Effects'
<1> SUFFICES ASSUME TypeOK, Progress, Effects, [Next]_vars PROVE Effects'
  OBVIOUS
<1> USE LifecycleAssumption DEF PC, Body, Cleanup, Checking, Handling, Step, plan,
        context, tables, effects, errors, report, vars, TypeOK, Progress, Effects,
        DbPipelines, ExcelPipelines, PlanOutput, Pipelines, Specs, NextPipeline,
        Finally, AfterError
<1>1. CASE SourceChanges  BY <1>1 DEF SourceChanges
<1>2. CASE Start  BY <1>2 DEF Start
<1>3. CASE MakePublisher  BY <1>3 DEF MakePublisher
<1>4. CASE BeginRun  BY <1>4 DEF BeginRun
<1>5. CASE CollectFingerprints  BY <1>5 DEF CollectFingerprints
<1>6. CASE Compare  BY <1>6 DEF Compare
<1>7. ASSUME NEW k \in Keys, GetResource(k) PROVE Effects'
  BY <1>7 DEF GetResource
<1>8. ASSUME NEW k \in Keys, CloseResource(k) PROVE Effects'
  BY <1>8 DEF CloseResource
<1>9. ASSUME NEW q \in Pipelines, GetResult(q) PROVE Effects'
  BY <1>9 DEF GetResult
<1>10. CASE PipelineReturns  BY <1>10 DEF PipelineReturns
<1>11. CASE CountRows  BY <1>11 DEF CountRows
<1>12. CASE PublishResult  BY <1>12 DEF PublishResult
<1>13. CASE Display  BY <1>13 DEF Display
<1>14. CASE ExportExcel  BY <1>14 DEF ExportExcel
<1>15. CASE PublishTable
  <2>1. /\ pc = "db" /\ pc' = "run" /\ p' = p + 1 /\ spec' = spec
        /\ staged' = staged \cup {p} /\ workbooks' = workbooks /\ published' = published
        /\ outcome' = outcome
    BY <1>15 DEF PublishTable
  <2>2. staged' = {q \in DbPipelines' : q < p'}
    BY <2>1
  <2>3. workbooks' = {q \in ExcelPipelines' : q < p'}
    BY <2>1
  <2>4. QED
    BY <2>1, <2>2, <2>3
<1>16. CASE PipelinesEnd  BY <1>16 DEF PipelinesEnd
<1>17. CASE Commit  BY <1>17 DEF Commit
<1>18. CASE Raise  BY <1>18 DEF Raise
<1>19. CASE Rollback  BY <1>19 DEF Rollback
<1>20. CASE ClosePublisher  BY <1>20 DEF ClosePublisher
<1>21. CASE CloseContext  BY <1>21 DEF CloseContext
<1>22. CASE ResourcesClosed  BY <1>22 DEF ResourcesClosed
<1>23. CASE Leave  BY <1>23 DEF Leave
<1>24. CASE UNCHANGED vars  BY <1>24 DEF plan, context, tables, effects, errors, report, vars
<1>25. QED
  BY <1>1, <1>2, <1>3, <1>4, <1>5, <1>6, <1>7, <1>8, <1>9, <1>10, <1>11, <1>12, <1>13,
     <1>14, <1>15, <1>16, <1>17, <1>18, <1>19, <1>20, <1>21, <1>22, <1>23, <1>24 DEF
     Next

\* The first error of the body comes before every other.
LEMMA ErrorsStep == TypeOK /\ Progress /\ Errors /\ [Next]_vars => Errors'
<1> SUFFICES ASSUME TypeOK, Progress, Errors, [Next]_vars PROVE Errors'
  OBVIOUS
<1> USE DEF PC, Body, Cleanup, Checking, Handling, Step, plan, context, tables, effects,
        errors, report, vars, TypeOK, Progress, Errors, NextPipeline, Finally,
        AfterError
<1>1. CASE SourceChanges  BY <1>1 DEF SourceChanges
<1>2. CASE Start  BY <1>2 DEF Start
<1>3. CASE MakePublisher  BY <1>3 DEF MakePublisher
<1>4. CASE BeginRun  BY <1>4 DEF BeginRun
<1>5. CASE CollectFingerprints  BY <1>5 DEF CollectFingerprints
<1>6. CASE Compare  BY <1>6 DEF Compare
<1>7. ASSUME NEW k \in Keys, GetResource(k) PROVE Errors'
  BY <1>7 DEF GetResource
<1>8. ASSUME NEW k \in Keys, CloseResource(k) PROVE Errors'
  <2>1. /\ pc = "close_resources" /\ pc' = pc /\ TryStep
        /\ raised' = raised
    BY <1>8 DEF CloseResource
  <2>2. QED
    BY <2>1, TryStepCollects
<1>9. ASSUME NEW q \in Pipelines, GetResult(q) PROVE Errors'
  BY <1>9 DEF GetResult
<1>10. CASE PipelineReturns  BY <1>10 DEF PipelineReturns
<1>11. CASE CountRows  BY <1>11 DEF CountRows
<1>12. CASE PublishResult  BY <1>12 DEF PublishResult
<1>13. CASE Display  BY <1>13 DEF Display
<1>14. CASE ExportExcel  BY <1>14 DEF ExportExcel
<1>15. CASE PublishTable  BY <1>15 DEF PublishTable
<1>16. CASE PipelinesEnd  BY <1>16 DEF PipelinesEnd
<1>17. CASE Commit  BY <1>17 DEF Commit
<1>18. CASE Raise  BY <1>18 DEF Raise
<1>19. CASE Rollback
  <2>1. /\ pc = "rollback" /\ pc' = "close_publisher" /\ TryStep
        /\ raised' = raised
    BY <1>19 DEF Rollback
  <2>2. QED
    BY <2>1, TryStepCollects
<1>20. CASE ClosePublisher
  <2>1. /\ pc = "close_publisher" /\ pc' = "close_context" /\ TryStep
        /\ raised' = raised
    BY <1>20 DEF ClosePublisher
  <2>2. QED
    BY <2>1, TryStepCollects
<1>21. CASE CloseContext  BY <1>21 DEF CloseContext
<1>22. CASE ResourcesClosed  BY <1>22 DEF ResourcesClosed
<1>23. CASE Leave  BY <1>23 DEF Leave
<1>24. CASE UNCHANGED vars  BY <1>24 DEF plan, context, tables, effects, errors, report, vars
<1>25. QED
  BY <1>1, <1>2, <1>3, <1>4, <1>5, <1>6, <1>7, <1>8, <1>9, <1>10, <1>11, <1>12, <1>13,
     <1>14, <1>15, <1>16, <1>17, <1>18, <1>19, <1>20, <1>21, <1>22, <1>23, <1>24 DEF
     Next

\* Some key is there to be counted.
LEMMA SomeKey == Cardinality(Keys) \in Nat /\ (Objects # {} => Cardinality(Keys) >= 1)
<1>1. IsFiniteSet(Keys) /\ (Objects # {} => Keys # {})
  BY LifecycleAssumption DEF Objects
<1>2. QED
  BY <1>1, FS_CardinalityType, FS_EmptySet

\* Every step keeps the types.
LEMMA TypeStep == TypeOK /\ Progress /\ Reading /\ Closing /\ Errors /\ [Next]_vars => TypeOK'
<1> SUFFICES ASSUME TypeOK, Progress, Reading, Closing, Errors, [Next]_vars PROVE TypeOK'
  OBVIOUS
<1> USE LifecycleAssumption
<1>1. ASSUME NEW k \in Keys, GetResource(k) PROVE TypeOK'
  <2>1. ObjectOf[k] \in Objects
    BY DEF Objects
  <2>2. QED
    BY <1>1, <2>1 DEF GetResource, TypeOK, PC, Body, Cleanup, Step, plan, context,
       tables, effects, errors, report
<1>2. ASSUME NEW k \in Keys, CloseResource(k) PROVE TypeOK'
  <2>1. TryStep /\ raised' = raised
    BY <1>2 DEF CloseResource, report
  <2>2. /\ faults' \in 0..MaxFaults /\ primary_error' \in 0..faults'
        /\ cleanup_errors' \subseteq 1..faults' /\ raised' \subseteq 1..faults'
    BY <2>1, TryStepCollects DEF TypeOK
  <2>3. closes' \in [Objects -> 0..1] /\ (Objects # {} => Cardinality(Keys) >= 1)
    BY ClosingStep, <1>2, SomeKey DEF Closing, Next
  <2>4. closes' \in [Objects -> 0..Cardinality(Keys)]
    BY <2>3, SomeKey
  <2>5. QED
    BY <1>2, <2>2, <2>4 DEF CloseResource, TypeOK, PC, Body, Cleanup, Step, plan,
       context, tables, effects, errors, report
<1>3. ASSUME NEW q \in Pipelines, GetResult(q) PROVE TypeOK'
  <2>1. Read(q) /\ pc = "run" /\ p <= N /\ q \in results /\ spec' = spec
    BY <1>3 DEF GetResult, Step, plan
  <2>2. q \in Pipelines /\ (out[q].cached \/ NotRead(q))
    BY <2>1, ReadersAllowed
  <2>3. /\ out' \in [Pipelines -> [cached : BOOLEAN, rows : [Parts -> Versions \cup {Nobody}]]]
        /\ seen' \in [Pipelines -> [Parts -> SUBSET Versions]]
    BY <2>1, <2>2, WholeTypes
  <2>4. QED
    BY <1>3, <2>2, <2>3 DEF GetResult, Progress, Checking, Handling, TypeOK, PC, Body,
       Cleanup, Step, plan, context, tables, effects, errors, report
<1>4. CASE PipelineReturns
  <2>1. out' \in [Pipelines -> [cached : BOOLEAN, rows : [Parts -> Versions \cup {Nobody}]]]
    BY <1>4, ZenonT(30) DEF PipelineReturns, PlanOutput, TypeOK, Pipelines
  <2>2. QED
    BY <1>4, <2>1 DEF PipelineReturns, TypeOK, PC, Body, Cleanup, Step, plan, context,
       tables, effects, errors, report
<1>5. CASE CountRows
  <2>1. Read(p) /\ pc = "count" /\ spec' = spec
    BY <1>5 DEF CountRows, Step, plan
  <2>2. p \in Pipelines /\ (out[p].cached \/ NotRead(p))
    BY <2>1, ReadersAllowed
  <2>3. /\ out' \in [Pipelines -> [cached : BOOLEAN, rows : [Parts -> Versions \cup {Nobody}]]]
        /\ seen' \in [Pipelines -> [Parts -> SUBSET Versions]]
    BY <2>1, <2>2, WholeTypes
  <2>4. QED
    BY <1>5, <2>2, <2>3 DEF CountRows, Progress, Checking, Handling, TypeOK, PC, Body,
       Cleanup, Step, plan, context, tables, effects, errors, report
<1>6. CASE Display
  <2>1. CASE "display" \in spec[p].readers
    <3> DEFINE parts == IF spec[p].long THEN {"head"} ELSE Parts
    <3>1. ReadParts(p, parts) /\ pc = "display" /\ spec' = spec
      BY <1>6, <2>1 DEF Display, Step, plan
    <3>2. p \in Pipelines /\ out[p].cached /\ (spec[p].db # "copy" => Complete(p))
      BY <2>1, <3>1, ReadersAllowed
    <3>3. parts \in SUBSET Parts /\ (parts = Parts \/ Previewed(spec[p]) \/ Complete(p))
      BY <3>2 DEF Parts, Previewed
    <3> HIDE DEF parts
    <3>4. /\ out' \in [Pipelines -> [cached : BOOLEAN, rows : [Parts -> Versions \cup {Nobody}]]]
          /\ seen' \in [Pipelines -> [Parts -> SUBSET Versions]]
      BY <3>1, <3>2, <3>3, ReadTypes
    <3>5. QED
      BY <1>6, <2>1, <3>2, <3>4 DEF Display, TypeOK, PC, Body, Cleanup, Step, plan,
         context, tables, effects, errors, report
  <2>2. CASE "display" \notin spec[p].readers
    BY <1>6, <2>2 DEF Display, Progress, Checking, Handling, TypeOK, PC, Body, Cleanup,
       Step, plan, context, tables, effects, errors, report
  <2>3. QED
    BY <2>1, <2>2
<1>7. CASE ExportExcel
  <2>1. pc = "excel" /\ p \in Pipelines /\ p' \in 1..(N + 1)
    BY <1>7 DEF ExportExcel, NextPipeline, TypeOK, Progress, Handling, Pipelines
  <2>2. /\ out' \in [Pipelines -> [cached : BOOLEAN, rows : [Parts -> Versions \cup {Nobody}]]]
        /\ seen' \in [Pipelines -> [Parts -> SUBSET Versions]]
    <3>1. CASE "excel" \in spec[p].readers
      <4>1. Read(p) /\ out[p].cached /\ spec' = spec
        BY <1>7, <2>1, <3>1, ReadersAllowed DEF ExportExcel, plan
      <4>2. QED
        BY <2>1, <4>1, WholeTypes
    <3>2. CASE "excel" \notin spec[p].readers
      BY <1>7, <3>2 DEF ExportExcel, TypeOK, tables
    <3>3. QED
      BY <3>1, <3>2
  <2>3. workbooks' \subseteq Pipelines /\ pc' \in {"db", "run"}
    <3>1. workbooks' \in {workbooks, workbooks \cup {p}}
      BY <1>7 DEF ExportExcel
    <3>2. pc' \in {"db", "run"}
      BY <1>7 DEF ExportExcel, NextPipeline
    <3>3. QED
      BY <2>1, <3>1, <3>2 DEF TypeOK
  <2>4. pc' = "db" => publisher \in {"made", "begun"}
    BY <1>7, <2>1 DEF ExportExcel, NextPipeline, Progress, Handling, DbPipelines
  <2>5. QED
    BY <1>7, <2>1, <2>2, <2>3, <2>4 DEF ExportExcel, TypeOK, PC, Body, Cleanup, Step,
       plan, context, tables, effects, errors, report
<1>8. CASE PublishTable
  <2>1. Read(p) /\ pc = "db" /\ spec' = spec
    BY <1>8 DEF PublishTable, Step, plan
  <2>2. p \in Pipelines /\ (out[p].cached \/ NotRead(p))
    BY <2>1, ReadersAllowed
  <2>3. /\ out' \in [Pipelines -> [cached : BOOLEAN, rows : [Parts -> Versions \cup {Nobody}]]]
        /\ seen' \in [Pipelines -> [Parts -> SUBSET Versions]]
    BY <2>1, <2>2, WholeTypes
  <2>4. QED
    BY <1>8, <2>2, <2>3 DEF PublishTable, NextPipeline, Progress, Checking, Handling,
       TypeOK, PC, Body, Cleanup, Step, plan, context, tables, effects, errors, report
<1>9. CASE Raise
  <2>1. /\ faults' = faults + 1 /\ faults < MaxFaults /\ faults \in Nat
        /\ primary_error' = faults' /\ cleanup_errors' = cleanup_errors /\ raised' = raised
    BY <1>9 DEF Raise, TypeOK, report
  <2>2. /\ faults' \in 0..MaxFaults /\ primary_error' \in 0..faults'
        /\ cleanup_errors' \subseteq 1..faults' /\ raised' \subseteq 1..faults'
    BY <2>1 DEF TypeOK
  <2>3. QED
    BY <1>9, <2>2 DEF Raise, AfterError, Finally, Progress, Checking, Handling, TypeOK,
       PC, Body, Cleanup, Step, plan, context, tables, effects, errors, report
<1>10. CASE Rollback
  <2>1. TryStep /\ raised' = raised
    BY <1>10 DEF Rollback, report
  <2>2. /\ faults' \in 0..MaxFaults /\ primary_error' \in 0..faults'
        /\ cleanup_errors' \subseteq 1..faults' /\ raised' \subseteq 1..faults'
    BY <2>1, TryStepCollects DEF TypeOK
  <2>3. QED
    BY <1>10, <2>2 DEF Rollback, TypeOK, PC, Body, Cleanup, Step, plan, context, tables,
       effects, errors, report
<1>11. CASE ClosePublisher
  <2>1. TryStep /\ raised' = raised
    BY <1>11 DEF ClosePublisher, report
  <2>2. /\ faults' \in 0..MaxFaults /\ primary_error' \in 0..faults'
        /\ cleanup_errors' \subseteq 1..faults' /\ raised' \subseteq 1..faults'
    BY <2>1, TryStepCollects DEF TypeOK
  <2>3. QED
    BY <1>11, <2>2 DEF ClosePublisher, TypeOK, PC, Body, Cleanup, Step, plan, context,
       tables, effects, errors, report
<1>12. CASE CloseContext
  <2>1. closing' \subseteq cache
    BY <1>12 DEF CloseContext, OnePerObject
  <2>2. QED
    BY <1>12, <2>1 DEF CloseContext, TypeOK, PC, Body, Cleanup, Step, plan, context,
       tables, effects, errors, report
<1> USE DEF TypeOK, PC, Body, Cleanup, Checking, Handling, Step, Progress, plan,
        context, tables, effects, errors, report, Finally, Pipelines, Versions
<1>13. CASE SourceChanges  BY <1>13 DEF SourceChanges
<1>14. CASE Start  BY <1>14 DEF Start
<1>15. CASE MakePublisher  BY <1>15 DEF MakePublisher
<1>16. CASE BeginRun  BY <1>16 DEF BeginRun
<1>17. CASE CollectFingerprints  BY <1>17 DEF CollectFingerprints
<1>18. CASE Compare  BY <1>18 DEF Compare
<1>19. CASE PublishResult  BY <1>19 DEF PublishResult
<1>20. CASE PipelinesEnd  BY <1>20 DEF PipelinesEnd
<1>21. CASE Commit  BY <1>21 DEF Commit
<1>22. CASE ResourcesClosed  BY <1>22 DEF ResourcesClosed
<1>23. CASE Leave  BY <1>23 DEF Leave
<1>24. CASE UNCHANGED vars  BY <1>24 DEF plan, context, tables, effects, errors, report, vars
<1>25. QED
  BY <1>1, <1>2, <1>3, <1>4, <1>5, <1>6, <1>7, <1>8, <1>9, <1>10, <1>11, <1>12, <1>13,
     <1>14, <1>15, <1>16, <1>17, <1>18, <1>19, <1>20, <1>21, <1>22, <1>23, <1>24 DEF
     Next

-----------------------------------------------------------------------------
(* The theorems.                                                           *)

LEMMA InitIInv == Init => IInv
<1> SUFFICES ASSUME Init PROVE IInv
  OBVIOUS
<1> USE LifecycleAssumption, PlansAssumption DEF Init
<1>1. TypeOK
  <2>1. closes \in [Objects -> 0..Cardinality(Keys)]
    BY SomeKey
  <2>2. p \in 1..(N + 1) /\ Nobody \in Versions \cup {Nobody} /\ 0 \in Versions
    BY DEF Versions
  <2>3. out \in [Pipelines -> [cached : BOOLEAN, rows : [Parts -> Versions \cup {Nobody}]]]
    BY <2>2
  <2>4. 0 \in 0..MaxFaults /\ 0 \in 0..faults
    OBVIOUS
  <2>5. QED
    BY <2>1, <2>2, <2>3, <2>4 DEF TypeOK, PC
<1>2. Progress
  BY DEF Progress, Checking, Handling, Body
<1>3. Reading
  <2>1. \A q \in Pipelines : Unread(q) /\ out[q].cached = FALSE
    BY DEF Unread
  <2>2. 0 \in Versions
    BY DEF Versions
  <2>3. \A q \in Pipelines : OneContent(q)
    BY <2>1, <2>2 DEF Unread, OneContent, PartOnce, InStep, Parts
  <2>4. QED
    BY <2>1, <2>3 DEF Unread, Reading, Checking, Handling, Pipelines
<1>4. Closing
  BY DEF Closing, ObjectsOf
<1>5. Effects
  BY DEF Effects, DbPipelines, ExcelPipelines, Pipelines
<1>6. Errors
  BY DEF Errors
<1>7. QED
  BY <1>1, <1>2, <1>3, <1>4, <1>5, <1>6 DEF IInv

\* The invariant holds in every state of a run: for any pipelines, keys, sharing of
\* objects, faults and changes of the sources.
THEOREM Inductive == Spec => []IInv
<1>1. Init => IInv
  BY InitIInv
<1>2. IInv /\ [Next]_vars => IInv'
  BY ProgressStep, ReadingStep, ClosingStep, EffectsStep, ErrorsStep, TypeStep DEF IInv
<1>3. QED
  BY <1>1, <1>2, PTL DEF Spec

\* The variables keep their types.
THEOREM TypeCorrect == Spec => []TypeOK
<1>1. IInv => TypeOK
  BY DEF IInv
<1>2. QED
  BY <1>1, Inductive, PTL

\* All consumers of a table get the same rows, and they are those of one content of the
\* sources: what the runner plans to cache covers every reader but the only one.  A long
\* table previewed before COPY is the same for all too, but may be made of two contents.
THEOREM ConsumersSeeOneTable == Spec => []ConsumersAgree
<1>1. IInv => ConsumersAgree
  <2> SUFFICES ASSUME IInv, NEW q \in Pipelines
               PROVE  /\ \A x \in Parts : Cardinality(seen[q][x]) <= 1
                      /\ ~Previewed(spec[q]) =>
                            Cardinality(seen[q]["head"] \cup seen[q]["rest"]) <= 1
    BY DEF ConsumersAgree
  <2>1. OneContent(q) /\ "head" \in Parts /\ "rest" \in Parts
    BY DEF IInv, Reading, Parts
  <2>2. \A x \in Parts : seen[q][x] = {} \/ \E v \in Versions : seen[q][x] = {v}
    BY <2>1 DEF OneContent, PartOnce
  <2>3. ASSUME ~Previewed(spec[q])
        PROVE  \/ seen[q]["head"] \cup seen[q]["rest"] = {}
               \/ \E v \in Versions : seen[q]["head"] \cup seen[q]["rest"] = {v}
    <3>1. CASE ~out[q].cached
      BY <2>1, <2>2, <2>3, <3>1 DEF OneContent, InStep
    <3>2. CASE out[q].cached
      BY <2>1, <2>3, <3>2 DEF OneContent, PartOnce, InStep
    <3>3. QED
      BY <3>1, <3>2
  <2>4. \A S : S = {} \/ (\E v \in Versions : S = {v}) => Cardinality(S) <= 1
    BY FS_EmptySet, FS_Singleton
  <2>5. \A x \in Parts : Cardinality(seen[q][x]) <= 1
    BY <2>2, <2>4
  <2>6. ~Previewed(spec[q]) => Cardinality(seen[q]["head"] \cup seen[q]["rest"]) <= 1
    BY <2>3, <2>4
  <2>7. QED
    BY <2>5, <2>6
<1>2. QED
  BY <1>1, Inductive, PTL

\* Every object a run opened is closed, and closed once, whichever calls raise and under
\* however many keys it is cached.
THEOREM ObjectsClosedOnce == Spec => []ClosedOnce
<1>1. IInv => ClosedOnce
  <2> SUFFICES ASSUME IInv PROVE ClosedOnce
    OBVIOUS
  <2>1. closes \in [Objects -> 0..1] /\ opened \subseteq Objects
    BY DEF IInv, Closing, TypeOK
  <2>2. pc = "done" => ObjectsOf(closing) = {} /\ \A o \in opened : closes[o] # 0
    BY <2>1 DEF IInv, Closing, ObjectsOf
  <2>3. QED
    BY <2>1, <2>2 DEF ClosedOnce
<1>2. QED
  BY <1>1, Inductive, PTL

\* Tables are replaced all together, after the last workbook, or not at all; a run that
\* returns has replaced them.
THEOREM TablesTogether == Spec => []AllOrNothing
<1>1. IInv => AllOrNothing
  BY DEF IInv, Effects, AllOrNothing
<1>2. QED
  BY <1>1, Inductive, PTL

\* The caller gets the first error of the body alone, or everything the clean-up raised.
THEOREM FirstErrorReported == Spec => []FirstErrorWins
<1>1. IInv => FirstErrorWins
  <2> SUFFICES ASSUME IInv, pc = "done" PROVE FirstErrorWins
    BY DEF FirstErrorWins
  <2>1. faults \in Nat
    BY LifecycleAssumption DEF IInv, TypeOK
  <2>5. 1..faults # {} <=> faults > 0
    BY <2>1
  <2>2. CASE primary_error = 1 /\ faults >= 1
    BY <2>1, <2>2, <2>5 DEF IInv, Errors, FirstErrorWins
  <2>3. CASE primary_error = 0 /\ cleanup_errors = 1..faults
    BY <2>1, <2>3, <2>5 DEF IInv, Errors, FirstErrorWins
  <2>4. QED
    BY <2>2, <2>3 DEF IInv, Errors
<1>2. QED
  BY <1>1, Inductive, PTL

=============================================================================
