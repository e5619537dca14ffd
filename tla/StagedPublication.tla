-------------------------- MODULE StagedPublication --------------------------
(***************************************************************************)
(* Executions of one task against one PostgreSQL schema: run_pipelines()   *)
(* and the DbPublisher it drives.  Each run claims the task's session      *)
(* advisory lock, removes what dead predecessors left, compares source     *)
(* fingerprints, prepares every output in a staging table of its own       *)
(* committed transaction, and then publishes all of them, with the new     *)
(* fingerprint, in one transaction.                                        *)
(*                                                                         *)
(* A scheduler may start runs while others are in progress.  A run may     *)
(* fail at any statement, its process may be killed, and its session may   *)
(* die on the server without the client noticing before its next           *)
(* statement.  PostgreSQL is modelled by what the code relies on: a        *)
(* transaction is a write set applied at commit and lost otherwise, and a  *)
(* session's end releases its advisory lock and its transaction.           *)
(***************************************************************************)
EXTENDS Naturals, FiniteSets

CONSTANTS
    Runs,         \* run tokens; the set is reused once a token is nowhere
    Targets,      \* final tables the task's RUN_SEQUENCE publishes
    NoRun,        \* nobody: the free advisory lock, a table nobody wrote
    MaxVersion,   \* bound: how often the sources change, plus one
    MaxAttempts,  \* PublicationLockPolicy.max_attempts
    MaxFaults     \* bound: failures, kills, lost sessions and misuses

ASSUME StagedAssumption ==
    /\ NoRun \notin Runs
    /\ MaxVersion \in Nat \ {0}
    /\ MaxAttempts \in Nat \ {0}
    /\ MaxFaults \in Nat

VARIABLES
    \* the outside world
    version,      \* version of the tracked sources
    faults,       \* how many faults have happened
    \* PostgreSQL
    stored,       \* the task's row in the source-state table; 0: no row
    live,         \* per target, the run that wrote it and the version it read
    staging,      \* committed staging tables, with the run their comment names
    lock,         \* the run whose session holds the task advisory lock
    session,      \* per run: never opened or closed, open, ended by the server
    tx,           \* per run: the uncommitted write set of its transaction
    \* the processes
    pc,           \* per run: where run_pipelines() is
    held,         \* per run: _locked_task_name is set
    fingerprint,  \* per run: the version fingerprinted
    rows,         \* per run and target: the version the pipeline read
    generated,    \* per run: _generated_names
    pending,      \* per run: _pending_swaps
    attempt       \* per run: attempts made by commit()

world  == <<version, faults>>
server == <<stored, live, staging, lock, session, tx>>
client == <<pc, held, fingerprint, rows, generated, pending, attempt>>
vars   == <<world, server, client>>

-----------------------------------------------------------------------------
(* Types.                                                                  *)

Versions == 0..MaxVersion

\* Inside run_pipelines()'s try block, in the order the code reaches them.
InTry == {"connected", "locked", "owner", "fingerprinted", "running",
          "preparing", "prepared", "publishing", "planned", "swapping",
          "published"}

PC == InTry \cup {"idle", "aborting", "closing", "done", "crashed"}

Tx == [created : SUBSET Targets, swapped : SUBSET Targets, state : BOOLEAN]

NoTx == [created |-> {}, swapped |-> {}, state |-> FALSE]

TypeOK ==
    /\ version \in Versions
    /\ faults \in 0..MaxFaults
    /\ stored \in Versions
    /\ live \in [Targets -> [run : Runs \cup {NoRun}, version : Versions]]
    /\ staging \subseteq Runs \X Targets
    /\ lock \in Runs \cup {NoRun}
    /\ session \in [Runs -> {"none", "open", "gone"}]
    /\ tx \in [Runs -> Tx]
    /\ pc \in [Runs -> PC]
    /\ held \in [Runs -> BOOLEAN]
    /\ fingerprint \in [Runs -> Versions]
    /\ rows \in [Runs -> [Targets -> Versions]]
    /\ generated \in [Runs -> SUBSET Targets]
    /\ pending \in [Runs -> SUBSET Targets]
    /\ attempt \in [Runs -> 0..MaxAttempts]

Init ==
    /\ version = 1
    /\ faults = 0
    /\ stored = 0
    /\ live = [t \in Targets |-> [run |-> NoRun, version |-> 0]]
    /\ staging = {}
    /\ lock = NoRun
    /\ session = [r \in Runs |-> "none"]
    /\ tx = [r \in Runs |-> NoTx]
    /\ pc = [r \in Runs |-> "idle"]
    /\ held = [r \in Runs |-> FALSE]
    /\ fingerprint = [r \in Runs |-> 0]
    /\ rows = [r \in Runs |-> [t \in Targets |-> 0]]
    /\ generated = [r \in Runs |-> {}]
    /\ pending = [r \in Runs |-> {}]
    /\ attempt = [r \in Runs |-> 0]

-----------------------------------------------------------------------------
(* Guards and PostgreSQL.                                                  *)

Goto(r, from, to) == pc[r] = from /\ pc' = [pc EXCEPT ![r] = to]

\* A statement can only run on the session that was opened once: a session
\* found invalidated is terminal, it is never replaced by a new one.
ensure_connection(r) == session[r] = "open"

\* Mutant: the lock is the caller's business.
TrustsCaller(r) == TRUE

\* publish() and commit() refuse when this publisher never claimed the task.
require_task_lock(r) == held[r]

Own(r) == {r} \X Targets

\* The lock's owner after the session of r released it or ended.
LockWithout(r) == IF lock = r THEN NoRun ELSE lock

\* Every pending target still has the staging table r prepared for it.
ArtifactsPresent(r) == {r} \X pending[r] \subseteq staging

\* The memory of a process that has ended, or was killed, is gone.
Forget(r) ==
    /\ held' = [held EXCEPT ![r] = FALSE]
    /\ fingerprint' = [fingerprint EXCEPT ![r] = 0]
    /\ rows' = [rows EXCEPT ![r] = [t \in Targets |-> 0]]
    /\ generated' = [generated EXCEPT ![r] = {}]
    /\ pending' = [pending EXCEPT ![r] = {}]
    /\ attempt' = [attempt EXCEPT ![r] = 0]

-----------------------------------------------------------------------------
(* begin_run() and the source check.                                       *)

\* The scheduler starts a run: build_context(), DbPublisher(), and begin_run()'s
\* first statement, which opens the session.
Start(r) ==
    /\ Goto(r, "idle", "connected")
    /\ session' = [session EXCEPT ![r] = "open"]
    /\ UNCHANGED <<world, stored, live, staging, lock, tx, held, fingerprint,
                   rows, generated, pending, attempt>>

\* DbPublisher is usable directly: a caller that never called begin_run().  The
\* misuse counts as a fault.
StartDirectly(r) ==
    /\ Goto(r, "idle", "running")
    /\ faults < MaxFaults
    /\ faults' = faults + 1
    /\ session' = [session EXCEPT ![r] = "open"]
    /\ fingerprint' = [fingerprint EXCEPT ![r] = version]
    /\ UNCHANGED <<version, stored, live, staging, lock, tx, held, rows,
                   generated, pending, attempt>>

\* Mutant: the answer of pg_try_advisory_lock is not looked at.
IgnoresAnswer(r) ==
    /\ ensure_connection(r)
    /\ Goto(r, "connected", "locked")
    /\ lock' = IF lock = NoRun THEN r ELSE lock
    /\ held' = [held EXCEPT ![r] = TRUE]
    /\ UNCHANGED <<world, stored, live, staging, session, tx, fingerprint,
                   rows, generated, pending, attempt>>

\* pg_try_advisory_lock; losing the race is a skipped run, which only closes.
TryAcquire(r) ==
    /\ ensure_connection(r)
    /\ \/ /\ lock = NoRun
          /\ Goto(r, "connected", "locked")
          /\ lock' = r
          /\ held' = [held EXCEPT ![r] = TRUE]
       \/ /\ lock # NoRun
          /\ Goto(r, "connected", "closing")
          /\ UNCHANGED <<lock, held>>
    /\ UNCHANGED <<world, stored, live, staging, session, tx, fingerprint,
                   rows, generated, pending, attempt>>

\* Mutant: the token comparison is inverted, so only its own tables go.
DropsOwn(r) ==
    /\ ensure_connection(r)
    /\ require_task_lock(r)
    /\ Goto(r, "locked", "owner")
    /\ staging' = staging \ Own(r)
    /\ UNCHANGED <<world, stored, live, lock, session, tx, held, fingerprint,
                   rows, generated, pending, attempt>>

\* Under the lock, staging tables of every other run token are dropped.
CleanupPredecessors(r) ==
    /\ ensure_connection(r)
    /\ require_task_lock(r)
    /\ Goto(r, "locked", "owner")
    /\ staging' = staging \cap Own(r)
    /\ UNCHANGED <<world, stored, live, lock, session, tx, held, fingerprint,
                   rows, generated, pending, attempt>>

\* ctx.collect_source_fingerprints(): the sources, not the database.
CollectFingerprints(r) ==
    /\ Goto(r, "owner", "fingerprinted")
    /\ fingerprint' = [fingerprint EXCEPT ![r] = version]
    /\ UNCHANGED <<world, server, held, rows, generated, pending, attempt>>

\* Mutant: any stored row counts as unchanged.
SkipsOnAnyRow(r) ==
    /\ ensure_connection(r)
    /\ \/ Goto(r, "fingerprinted", "running")
       \/ stored # 0 /\ Goto(r, "fingerprinted", "aborting")
    /\ UNCHANGED <<world, server, held, fingerprint, rows, generated, pending,
                   attempt>>

\* sources_unchanged(): an unchanged run rolls back and skips unless force_run.
CompareSources(r) ==
    /\ ensure_connection(r)
    /\ \/ Goto(r, "fingerprinted", "running")
       \/ stored = fingerprint[r] /\ Goto(r, "fingerprinted", "aborting")
    /\ UNCHANGED <<world, server, held, fingerprint, rows, generated, pending,
                   attempt>>

-----------------------------------------------------------------------------
(* publish(): one staging table, in its own committed transaction.         *)

\* The pipeline reads what its resource shows, at the earliest what was
\* fingerprinted; publish() creates and fills the staging table.
Prepare(r, t) ==
    /\ ensure_connection(r)
    /\ require_task_lock(r)
    /\ t \notin generated[r]
    /\ Goto(r, "running", "preparing")
    /\ \E v \in fingerprint[r]..version :
          rows' = [rows EXCEPT ![r][t] = v]
    /\ tx' = [tx EXCEPT ![r].created = {t}]
    /\ UNCHANGED <<world, stored, live, staging, lock, session, held,
                   fingerprint, generated, pending, attempt>>

\* _commit_transaction(): the table and its ownership comment become visible.
CommitPreparation(r) ==
    /\ ensure_connection(r)
    /\ Goto(r, "preparing", "prepared")
    /\ staging' = staging \cup ({r} \X tx[r].created)
    /\ UNCHANGED <<world, stored, live, lock, session, tx, held, fingerprint,
                   rows, generated, pending, attempt>>

\* The bookkeeping after the commit; an interrupt before it orphans the table.
RecordPrepared(r) ==
    /\ Goto(r, "prepared", "running")
    /\ generated' = [generated EXCEPT ![r] = @ \cup tx[r].created]
    /\ pending' = [pending EXCEPT ![r] = @ \cup tx[r].created]
    /\ tx' = [tx EXCEPT ![r] = NoTx]
    /\ UNCHANGED <<world, stored, live, staging, lock, session, held,
                   fingerprint, rows, attempt>>

-----------------------------------------------------------------------------
(* commit(): the publication transaction and its retry loop.               *)

\* Mutant: the sources are fingerprinted only now, after they were read.
FingerprintsLate(r) ==
    /\ require_task_lock(r)
    /\ pending[r] = Targets
    /\ Goto(r, "running", "publishing")
    /\ attempt' = [attempt EXCEPT ![r] = 1]
    /\ fingerprint' = [fingerprint EXCEPT ![r] = version]
    /\ UNCHANGED <<world, server, held, rows, generated, pending>>

\* The runner queues the source-state write and calls commit().
BeginPublication(r) ==
    /\ require_task_lock(r)
    /\ pending[r] = Targets
    /\ Goto(r, "running", "publishing")
    /\ attempt' = [attempt EXCEPT ![r] = 1]
    /\ UNCHANGED <<world, server, held, fingerprint, rows, generated, pending>>

\* _publish_once() up to the target locks: verify, then run the queued write.
VerifyAndPlan(r) ==
    /\ ensure_connection(r)
    /\ ArtifactsPresent(r)
    /\ Goto(r, "publishing", "planned")
    /\ tx' = [tx EXCEPT ![r].state = TRUE]
    /\ UNCHANGED <<world, stored, live, staging, lock, session, held,
                   fingerprint, rows, generated, pending, attempt>>

\* All target locks granted, in one statement.
LockTargets(r) ==
    /\ ensure_connection(r)
    /\ Goto(r, "planned", "swapping")
    /\ UNCHANGED <<world, server, held, fingerprint, rows, generated, pending,
                   attempt>>

\* Mutant: the attempts are not counted.
RetriesForEver(r) ==
    /\ ensure_connection(r)
    /\ Goto(r, "planned", "publishing")
    /\ tx' = [tx EXCEPT ![r] = NoTx]
    /\ UNCHANGED <<world, stored, live, staging, lock, session, held,
                   fingerprint, rows, generated, pending, attempt>>

\* 55P03: the attempt is rolled back whole and commit() tries again.
LockUnavailable(r) ==
    /\ ensure_connection(r)
    /\ attempt[r] < MaxAttempts
    /\ Goto(r, "planned", "publishing")
    /\ tx' = [tx EXCEPT ![r] = NoTx]
    /\ attempt' = [attempt EXCEPT ![r] = @ + 1]
    /\ UNCHANGED <<world, stored, live, staging, lock, session, held,
                   fingerprint, rows, generated, pending>>

\* Mutant: each swap is committed by itself.
SwapsAndCommits(r, t) ==
    /\ ensure_connection(r)
    /\ pc[r] = "swapping"
    /\ t \in pending[r] \ tx[r].swapped
    /\ tx' = [tx EXCEPT ![r].swapped = @ \cup {t}]
    /\ live' = [live EXCEPT ![t] = [run |-> r, version |-> rows[r][t]]]
    /\ UNCHANGED <<world, stored, staging, lock, session, client>>

\* DROP the live table, RENAME the staging table over it, replace the comment.
Swap(r, t) ==
    /\ ensure_connection(r)
    /\ pc[r] = "swapping"
    /\ t \in pending[r] \ tx[r].swapped
    /\ tx' = [tx EXCEPT ![r].swapped = @ \cup {t}]
    /\ UNCHANGED <<world, stored, live, staging, lock, session, client>>

\* COMMIT: every swap and the fingerprint at once.
CommitPublication(r) ==
    /\ ensure_connection(r)
    /\ tx[r].swapped = pending[r]
    /\ Goto(r, "swapping", "published")
    /\ live' = [t \in Targets |->
                  IF t \in tx[r].swapped
                  THEN [run |-> r, version |-> rows[r][t]] ELSE live[t]]
    /\ stored' = IF tx[r].state THEN fingerprint[r] ELSE stored
    /\ staging' = staging \ ({r} \X tx[r].swapped)
    /\ tx' = [tx EXCEPT ![r] = NoTx]
    /\ UNCHANGED <<world, lock, session, held, fingerprint, rows, generated,
                   pending, attempt>>

\* The reset after the commit, the RunResult, and the finally block.
Finish(r) ==
    /\ Goto(r, "published", "closing")
    /\ pending' = [pending EXCEPT ![r] = {}]
    /\ UNCHANGED <<world, server, held, fingerprint, rows, generated, attempt>>

-----------------------------------------------------------------------------
(* Failure and cleanup.                                                    *)

\* An exception nothing else can follow: the session is gone, the caller does
\* not own the task, or a prepared table has disappeared.
Fail(r) ==
    /\ pc[r] \in InTry
    /\ \/ ~ensure_connection(r)
       \/ pc[r] = "running" /\ ~require_task_lock(r)
       \/ pc[r] = "publishing" /\ ~ArtifactsPresent(r)
    /\ pc' = [pc EXCEPT ![r] = "aborting"]
    /\ UNCHANGED <<world, server, held, fingerprint, rows, generated, pending,
                   attempt>>

\* Any other exception inside the try block: a failing statement or pipeline,
\* an interrupt, target locks still unavailable after the last attempt.
Interrupt(r) ==
    /\ pc[r] \in InTry
    /\ faults < MaxFaults
    /\ faults' = faults + 1
    /\ pc' = [pc EXCEPT ![r] = "aborting"]
    /\ UNCHANGED <<version, server, held, fingerprint, rows, generated,
                   pending, attempt>>

\* rollback(): discard the open transaction, then drop this run's staging
\* tables one by one, stopping at the first that fails.  On a lost session
\* nothing is sent.
Rollback(r) ==
    /\ Goto(r, "aborting", "closing")
    /\ tx' = [tx EXCEPT ![r] = NoTx]
    /\ generated' = [generated EXCEPT ![r] = {}]
    /\ pending' = [pending EXCEPT ![r] = {}]
    /\ \/ /\ ensure_connection(r)
          /\ \E dropped \in SUBSET generated[r] :
                /\ staging' = staging \ ({r} \X dropped)
                /\ IF dropped = generated[r] THEN UNCHANGED faults
                   ELSE faults < MaxFaults /\ faults' = faults + 1
          /\ UNCHANGED held
       \/ /\ ~ensure_connection(r)
          /\ held' = [held EXCEPT ![r] = FALSE]
          /\ UNCHANGED <<staging, faults>>
    /\ UNCHANGED <<version, stored, live, lock, session, fingerprint, rows,
                   attempt>>

\* close(): unlock explicitly, then close the connection.
Close(r) ==
    /\ Goto(r, "closing", "done")
    /\ lock' = LockWithout(r)
    /\ session' = [session EXCEPT ![r] = "none"]
    /\ tx' = [tx EXCEPT ![r] = NoTx]
    /\ Forget(r)
    /\ UNCHANGED <<world, stored, live, staging>>

-----------------------------------------------------------------------------
(* The outside world.                                                      *)

SourceChanges ==
    /\ version < MaxVersion
    /\ version' = version + 1
    /\ UNCHANGED <<faults, server, client>>

\* The process is killed.  Its session, with the open transaction and the lock,
\* lives on until the server notices.
Crash(r) ==
    /\ pc[r] \notin {"idle", "done", "crashed"}
    /\ faults < MaxFaults
    /\ faults' = faults + 1
    /\ pc' = [pc EXCEPT ![r] = "crashed"]
    /\ tx' = [tx EXCEPT ![r] = IF pc[r] = "prepared" THEN NoTx ELSE @]
    /\ Forget(r)
    /\ UNCHANGED <<version, stored, live, staging, lock, session>>

\* The server ends a session: it rolls back and releases the advisory lock.
\* For a killed process this is bound to happen, for another it is a fault.
SessionEnds(r) ==
    /\ session[r] = "open"
    /\ \/ pc[r] = "crashed" /\ UNCHANGED faults
       \/ /\ pc[r] # "crashed"
          /\ faults < MaxFaults
          /\ faults' = faults + 1
    /\ session' = [session EXCEPT ![r] = "gone"]
    /\ lock' = LockWithout(r)
    /\ tx' = [tx EXCEPT ![r] = IF pc[r] = "prepared" THEN @ ELSE NoTx]
    /\ UNCHANGED <<version, stored, live, staging, client>>

\* A token nothing remembers stands for the fresh token of a later run.
Recycle(r) ==
    /\ pc[r] \in {"done", "crashed"}
    /\ session[r] # "open"
    /\ staging \cap Own(r) = {}
    /\ \A t \in Targets : live[t].run # r
    /\ pc' = [pc EXCEPT ![r] = "idle"]
    /\ session' = [session EXCEPT ![r] = "none"]
    /\ UNCHANGED <<world, stored, live, staging, lock, tx, held, fingerprint,
                   rows, generated, pending, attempt>>

-----------------------------------------------------------------------------
(* The specification.                                                      *)

\* What a live process, left alone, goes on to do.
Step(r) ==
    \/ TryAcquire(r) \/ CleanupPredecessors(r) \/ CollectFingerprints(r)
    \/ CompareSources(r)
    \/ \E t \in Targets : Prepare(r, t)
    \/ CommitPreparation(r) \/ RecordPrepared(r)
    \/ BeginPublication(r) \/ VerifyAndPlan(r)
    \/ LockTargets(r) \/ LockUnavailable(r)
    \/ \E t \in Targets : Swap(r, t)
    \/ CommitPublication(r) \/ Finish(r)
    \/ Fail(r) \/ Rollback(r) \/ Close(r)

Schedule(r) == Start(r) \/ Recycle(r)

Environment(r) ==
    \/ StartDirectly(r) \/ Interrupt(r) \/ Crash(r) \/ SessionEnds(r)

Next ==
    \/ \E r \in Runs : Step(r) \/ Schedule(r) \/ Environment(r)
    \/ SourceChanges

Spec == Init /\ [][Next]_vars

\* A process that is not killed keeps executing; the scheduler keeps starting
\* runs; the server notices that a client is gone.
Fairness ==
    \A r \in Runs :
       /\ WF_vars(Step(r))
       /\ WF_vars(Schedule(r))
       /\ WF_vars(pc[r] = "crashed" /\ SessionEnds(r))

FairSpec == Spec /\ Fairness

-----------------------------------------------------------------------------
(* Safety.                                                                 *)

\* r believes it owns the task, and its session is still there to prove it.
Owning(r) == held[r] /\ session[r] = "open"

\* At most one run believes it owns the task on a live session, and that run is
\* the one PostgreSQL granted the advisory lock to, whatever crashes, skipped
\* runs, direct callers and lost sessions came before.
ExclusiveOwner ==
    \A r \in Runs : Owning(r) => lock = r

\* Once its owner has cleaned up, the schema holds no other run's staging table
\* for as long as the owner's session lives: a predecessor that is cut off but
\* still executing cannot add one behind the owner's back.
CleanForOwner ==
    \A r \in Runs :
       (Owning(r) /\ pc[r] \in InTry \ {"connected", "locked"})
          => staging \subseteq Own(r)

\* No run's predecessor cleanup ever removes a table that a run with a live
\* session has prepared and not yet published: everything commit() is going
\* to swap is still there when it gets to it, so the artifact check in the
\* publication transaction never fails for a run that kept its session.
PreparedSurvives ==
    \A r \in Runs :
       (session[r] = "open" /\ pc[r] \in InTry \ {"published"})
          => {r} \X pending[r] \subseteq staging

\* The stored fingerprint never vouches for data older than itself: a source
\* that changed while or after it was read is seen as changed by the next run.
ChangeNeverMissed ==
    \A t \in Targets : live[t].version >= stored

\* Readers and the source check see one atomic publication at a time, every
\* table from the same run, and neither data floor nor fingerprint goes back:
\* this module implements the abstract one.
Abstract == INSTANCE AtomicOutput WITH
                version <- version, stored <- stored, live <- live
AtomicPublication == Abstract!Spec

-----------------------------------------------------------------------------
(* The inductive invariant behind the safety properties.                   *)

\* Who holds the lock, and who can have prepared anything.
LockPhases ==
    \A r \in Runs :
       /\ pc[r] \in {"idle", "connected", "done", "crashed"} => ~held[r]
       /\ pc[r] \in InTry \ {"connected", "running"} => held[r]
       /\ pc[r] \in InTry /\ pending[r] # {} => held[r]
       /\ pc[r] \in {"idle", "connected", "locked", "owner", "done", "crashed"}
             => pending[r] = {}

\* What the publication transaction is about to make visible.
PlanPhases ==
    \A r \in Runs :
       /\ pc[r] \in {"publishing", "planned", "swapping"} => pending[r] = Targets
       /\ (session[r] = "open" /\ pc[r] \in {"planned", "swapping"})
             => tx[r].state
       /\ (session[r] = "open" /\ pc[r] = "prepared")
             => {r} \X tx[r].created \subseteq staging

\* Fingerprints and data, in the order they were taken.
ReadOrder ==
    /\ stored <= version
    /\ \A r \in Runs :
          /\ fingerprint[r] <= version
          /\ (Owning(r) /\ pc[r] \in InTry \ {"connected", "locked", "owner",
                                               "published"})
                => stored <= fingerprint[r]
          /\ pc[r] \in InTry =>
                \A t \in pending[r] : rows[r][t] \in fingerprint[r]..version
          /\ pc[r] \in {"preparing", "prepared"} =>
                \A t \in tx[r].created : rows[r][t] \in fingerprint[r]..version

IInv ==
    /\ TypeOK
    /\ ExclusiveOwner
    /\ CleanForOwner
    /\ PreparedSurvives
    /\ ChangeNeverMissed
    /\ LockPhases
    /\ PlanPhases
    /\ ReadOrder

-----------------------------------------------------------------------------
(* Liveness, under FairSpec.                                               *)

\* Every run that is not killed ends: nothing in commit()'s retry loop or in
\* the cleanup paths keeps it going for ever; and the task lock always becomes
\* free again, after a kill too.
RunsEnd ==
    /\ \A r \in Runs : pc[r] = "connected" ~> pc[r] \in {"done", "crashed", "idle"}
    /\ []<>(lock = NoRun)

\* When faults and source changes cease, the published tables and the stored
\* fingerprint catch up with the sources and stay so.
EventuallyFresh ==
    <>[](/\ stored = version
         /\ \A t \in Targets : live[t].version = version)

\* When faults cease, the only staging tables left are those the lock's owner
\* is working on: nothing any run has orphaned stays for ever.
OrphansRemoved ==
    <>[](\A r \in Runs, t \in Targets : <<r, t>> \in staging => lock = r)

=============================================================================
