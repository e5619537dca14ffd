-------------------------- MODULE PublisherSession --------------------------
(***************************************************************************)
(* The one database session of a run, statement by statement: begin_run(), *)
(* the source-state read, publish() per pipeline, commit(), rollback() and *)
(* close(), when any statement may fail, the session may be lost at any of *)
(* them (a COMMIT whose answer is lost included) and an interrupt may      *)
(* arrive before any step, those of the handlers and the clean-up          *)
(* included.                                                               *)
(*                                                                         *)
(* SQLAlchemy begins a transaction with the first statement and ends it    *)
(* only when told to; PostgreSQL refuses every statement of a transaction  *)
(* in which one has failed until it is rolled back.                        *)
(***************************************************************************)
EXTENDS Naturals, FiniteSets

CONSTANTS
    Targets,      \* final tables of the task
    max_attempts, \* PublicationLockPolicy
    MaxErrors     \* bound: errors considered in one run

ASSUME SessionAssumption ==
    /\ IsFiniteSet(Targets)
    /\ max_attempts \in Nat \ {0}
    /\ MaxErrors \in Nat

VARIABLES
    pc,           \* the statement or phase the run is at
    \* PostgreSQL
    session,      \* open, lost, closed by us
    txn,          \* no transaction, one in progress, one that must be rolled back
    lock,         \* the session holds the task advisory lock
    made,         \* staging tables created in the open transaction
    swapped,      \* targets replaced in the open transaction
    staging,      \* committed staging tables of this run
    published,    \* targets replaced and committed
    \* DbPublisher
    explicit,     \* _tx is not None
    held,         \* _locked_task_name is not None
    generated,    \* _generated_names
    pending,      \* _pending_swaps
    attempt,      \* attempts of commit()
    \* what the run reports
    errors,       \* where and how the run was hit
    outcome

server == <<session, txn, lock, made, swapped, staging, published>>
client == <<explicit, held, generated, pending, attempt>>
report == <<errors, outcome>>
vars   == <<pc, server, client, report>>

-----------------------------------------------------------------------------

\* The statements (or groups of them) of each phase, and the phases without any.
Beginning  == {"limit", "trylock", "diagnostic", "scan", "endscan"}
Reading    == {"read", "endread"}
Preparing  == {"create", "load", "commitstaging"}
Committing == {"verify", "plan", "locks", "swap", "commit"}
Statements == Beginning \cup Reading \cup Preparing \cup Committing
                \cup {"drop", "unlock"}

\* Code of the task itself, which may run for hours.
Long == {"fingerprint", "pipeline"}

\* The handlers of commit(), rollback() and close(), from their beginning on.
CleaningUp == {"rollback", "drop", "unlock", "disconnect"}

PC == Statements \cup Long \cup CleaningUp
        \cup {"acquired", "spools", "record", "attempt", "reset", "retry",
              "discard", "done"}

TypeOK ==
    /\ pc \in PC
    /\ session \in {"open", "lost", "closed"}
    /\ txn \in {"idle", "open", "aborted"}
    /\ lock \in BOOLEAN /\ explicit \in BOOLEAN /\ held \in BOOLEAN
    /\ made \subseteq Targets /\ swapped \subseteq Targets
    /\ staging \subseteq Targets /\ published \subseteq Targets
    /\ generated \subseteq Targets /\ pending \subseteq Targets
    /\ attempt \in 0..max_attempts
    /\ errors \subseteq PC \X {"sql", "lost", "interrupt", "busy"}
    /\ outcome \in {"running", "skipped", "succeeded", "failed"}

Init ==
    /\ pc = "limit"
    /\ session = "open" /\ txn = "idle" /\ lock = FALSE
    /\ made = {} /\ swapped = {} /\ staging = {} /\ published = {}
    /\ explicit = FALSE /\ held = FALSE
    /\ generated = {} /\ pending = {} /\ attempt = 0
    /\ errors = {} /\ outcome = "running"

-----------------------------------------------------------------------------
(* Statements and their failures.                                          *)

\* A statement succeeds; if no transaction is in progress, one begins.
Executes(here, next) ==
    /\ pc = here
    /\ session = "open" /\ txn # "aborted"
    /\ txn' = "open"
    /\ pc' = next

\* A transaction is committed, if there is one.
Commits(here, next) ==
    /\ pc = here
    /\ session = "open" /\ txn # "aborted"
    /\ txn' = "idle" /\ explicit' = FALSE
    /\ pc' = next

\* Mutant: an exception in commit() is left to the runner's cleanup.
HandlerWithoutDiscard(here) ==
    CASE here = "diagnostic" -> "spools"
      [] here = "drop" -> "unlock"
      [] here = "unlock" -> "disconnect"
      [] OTHER -> "rollback"

\* Where an exception raised at a statement is caught.
Handler(here) ==
    CASE here = "diagnostic" -> "spools"
      [] here \in Committing \cup {"attempt", "reset"} -> "discard"
      [] here = "drop" -> "unlock"
      [] here = "unlock" -> "disconnect"
      [] OTHER -> "rollback"

\* Where an interrupt is caught, which passes every `except Exception`: those of
\* the diagnostic, of rollback()'s loop and of close().
Escape(here) ==
    CASE here = "diagnostic" -> "rollback"
      [] here \in {"rollback", "drop"} -> "unlock"
      [] here \in {"unlock", "disconnect"} -> "done"
      [] OTHER -> Handler(here)

Hit(kind) ==
    /\ Cardinality(errors) < MaxErrors
    /\ errors' = errors \cup {<<pc, kind>>}

\* A statement is sent: rollback() and close() have none without work to do.
Sends ==
    /\ pc \in Statements /\ session = "open"
    /\ pc = "drop" => generated # {}
    /\ pc = "unlock" => held

\* rollback() drops no further table and forgets them all; release_task_lock()
\* forgets the lock.
Caught ==
    /\ pc' = Handler(pc)
    /\ generated' = IF pc = "drop" THEN {} ELSE generated
    /\ held' = (held /\ pc # "unlock")
    /\ UNCHANGED <<explicit, pending, attempt, outcome>>

\* What rollback() and close() let through is collected by the runner, which goes
\* on with the next of its clean-up steps and raises it in the end.
Raised ==
    /\ pc' = Escape(pc)
    /\ outcome' = IF pc \in CleaningUp THEN "failed" ELSE outcome
    /\ UNCHANGED client

\* A statement fails, and so does every later one of the same transaction.
StatementFails ==
    /\ Sends
    /\ IF txn = "aborted" THEN UNCHANGED errors ELSE Hit("sql")
    /\ Caught
    /\ txn' = "aborted"
    /\ UNCHANGED <<session, lock, made, swapped, staging, published>>

ServerForgets ==
    /\ session' = "lost" /\ txn' = "idle" /\ lock' = FALSE
    /\ made' = {} /\ swapped' = {}

\* The session turns out to be gone, or SQLAlchemy gives it up because of an
\* interrupt inside the call.  If the statement was a COMMIT, it may have taken
\* effect all the same.
SessionLost ==
    /\ Sends
    /\ Hit("lost")
    /\ Caught \/ Raised
    /\ ServerForgets
    /\ \/ UNCHANGED <<staging, published>>
       \/ /\ pc = "commitstaging"
          /\ staging' = staging \cup made
          /\ UNCHANGED published
       \/ /\ pc = "commit"
          /\ staging' = staging \ swapped
          /\ published' = published \cup swapped

\* KeyboardInterrupt before the step is taken, or the phase's own code raises.
Interrupted ==
    /\ pc # "done"
    /\ Hit("interrupt")
    /\ Raised
    /\ UNCHANGED server

-----------------------------------------------------------------------------
(* begin_run().                                                            *)

ReadIdentifierLimit ==
    /\ Executes("limit", "trylock")
    /\ UNCHANGED <<session, lock, made, swapped, staging, published, client, report>>

\* The run that loses the race is skipped and only closes its connection.
TryAcquire ==
    /\ \/ Executes("trylock", "acquired") /\ lock' = TRUE /\ UNCHANGED outcome
       \/ Executes("trylock", "disconnect") /\ outcome' = "skipped" /\ UNCHANGED lock
    /\ UNCHANGED <<session, made, swapped, staging, published, client, errors>>

\* The answer is kept in _locked_task_name.
NoteLock ==
    /\ pc = "acquired" /\ pc' = "diagnostic"
    /\ held' = TRUE
    /\ UNCHANGED <<server, explicit, generated, pending, attempt, report>>

\* _log_lock_timeout_relationship(): reads pg_settings; its failure is swallowed.
Diagnose ==
    /\ Executes("diagnostic", "spools")
    /\ UNCHANGED <<session, lock, made, swapped, staging, published, client, report>>

\* Files only, but the publisher is asked for its connection first.
CleanSpools ==
    /\ pc = "spools"
    /\ pc' = IF session = "lost" THEN "rollback" ELSE "scan"
    /\ UNCHANGED <<server, client, report>>

\* The catalog query and the DROPs of predecessors' tables.
ScanPredecessors ==
    /\ Executes("scan", "endscan")
    /\ UNCHANGED <<session, lock, made, swapped, staging, published, client, report>>

\* Committed; with no source check the first pipeline is next.
EndScan ==
    /\ \E next \in Long : Commits("endscan", next)
    /\ UNCHANGED <<session, lock, made, swapped, staging, published, held,
                   generated, pending, attempt, report>>

-----------------------------------------------------------------------------
(* The source check.                                                       *)

CollectFingerprints ==
    /\ pc = "fingerprint" /\ pc' = "read"
    /\ UNCHANGED <<server, client, report>>

\* CREATE TABLE IF NOT EXISTS and the SELECT of the stored state.
ReadState ==
    /\ Executes("read", "endread")
    /\ UNCHANGED <<session, lock, made, swapped, staging, published, client, report>>

\* _end_read_phase(); unchanged sources skip the run, which rolls back.
EndRead ==
    /\ \/ Commits("endread", "pipeline") /\ UNCHANGED outcome
       \/ Commits("endread", "rollback") /\ outcome' = "skipped"
    /\ UNCHANGED <<session, lock, made, swapped, staging, published, held,
                   generated, pending, attempt, errors>>

-----------------------------------------------------------------------------
(* publish().                                                              *)

\* A pipeline returns rows for a target; _ensure_transaction().
RunPipeline ==
    /\ pc = "pipeline" /\ session = "open"
    /\ generated # Targets
    /\ pc' = "create"
    /\ txn' = "open" /\ explicit' = TRUE
    /\ UNCHANGED <<session, lock, made, swapped, staging, published, held,
                   generated, pending, attempt, report>>

CreateStaging ==
    /\ \E t \in Targets \ generated : made' = {t}
    /\ Executes("create", "load")
    /\ UNCHANGED <<session, lock, swapped, staging, published, client, report>>

\* The rows, their verification and the ownership comment.
LoadStaging ==
    /\ Executes("load", "commitstaging")
    /\ UNCHANGED <<session, lock, made, swapped, staging, published, client, report>>

CommitStaging ==
    /\ Commits("commitstaging", "record")
    /\ staging' = staging \cup made
    /\ UNCHANGED <<session, lock, made, swapped, published, held, generated,
                   pending, attempt, report>>

\* The bookkeeping after the commit.
Record ==
    /\ pc = "record" /\ pc' = "pipeline"
    /\ generated' = generated \cup made
    /\ pending' = pending \cup made
    /\ made' = {}
    /\ UNCHANGED <<session, txn, lock, swapped, staging, published, explicit,
                   held, attempt, report>>

-----------------------------------------------------------------------------
(* commit().                                                               *)

BeginCommit ==
    /\ pc = "pipeline" /\ generated = Targets
    /\ pc' = "attempt"
    /\ attempt' = 1
    /\ UNCHANGED <<server, explicit, held, generated, pending, report>>

\* _publish_once() begins its transaction.
BeginAttempt ==
    /\ pc = "attempt" /\ session = "open"
    /\ pc' = "verify"
    /\ txn' = "open" /\ explicit' = TRUE
    /\ UNCHANGED <<session, lock, made, swapped, staging, published, held,
                   generated, pending, attempt, report>>

\* _verify_prepared_artifacts().
VerifyArtifacts ==
    /\ Executes("verify", "plan")
    /\ pending \subseteq staging
    /\ UNCHANGED <<session, lock, made, swapped, staging, published, client, report>>

\* The queued source-state write.
RunPlan ==
    /\ Executes("plan", "locks")
    /\ UNCHANGED <<session, lock, made, swapped, staging, published, client, report>>

LockTargets ==
    /\ Executes("locks", "swap")
    /\ UNCHANGED <<session, lock, made, swapped, staging, published, client, report>>

LocksUnavailable ==
    /\ pc = "locks" /\ session = "open" /\ txn # "aborted"
    /\ pc' = "retry"
    /\ txn' = "aborted"
    /\ UNCHANGED <<session, lock, made, swapped, staging, published, client, report>>

\* Mutant: the reference is dropped and the server is not told.
ForgetsTransaction ==
    /\ explicit' = FALSE
    /\ UNCHANGED <<txn, made, swapped>>

\* Whatever transaction is open, explicit or begun by SQLAlchemy, is rolled back.
_drop_open_transaction ==
    /\ explicit' = FALSE
    /\ txn' = "idle"
    /\ made' = {} /\ swapped' = {}

AttemptsLeft == attempt < max_attempts

\* 55P03: rolled back, then another attempt; or, with no attempt or no time left
\* in the horizon, DbPublishError.
Retry ==
    /\ pc = "retry"
    /\ _drop_open_transaction
    /\ \/ /\ AttemptsLeft
          /\ pc' = "attempt" /\ attempt' = attempt + 1
          /\ UNCHANGED errors
       \/ /\ pc' = "rollback"
          /\ errors' = errors \cup {<<"locks", "busy">>}
          /\ UNCHANGED attempt
    /\ UNCHANGED <<session, lock, staging, published, held, generated, pending, outcome>>

\* Any other exception of commit() is re-raised after the same rollback.
Discard ==
    /\ pc = "discard" /\ pc' = "rollback"
    /\ _drop_open_transaction
    /\ UNCHANGED <<session, lock, staging, published, held, generated, pending,
                   attempt, report>>

\* Mutant: COMMIT comes after the first swap.
SwapsOne ==
    /\ \E t \in pending \ swapped : swapped' = swapped \cup {t}
    /\ Executes("swap", "commit")
    /\ UNCHANGED <<session, lock, made, staging, published, client, report>>

\* One replacement after the other, then COMMIT.
Swap ==
    /\ \E t \in pending \ swapped : swapped' = swapped \cup {t}
    /\ Executes("swap", IF swapped' = pending THEN "commit" ELSE "swap")
    /\ UNCHANGED <<session, lock, made, staging, published, client, report>>

CommitSwaps ==
    /\ Commits("commit", "reset")
    /\ staging' = staging \ swapped
    /\ published' = swapped
    /\ swapped' = {}
    /\ UNCHANGED <<session, lock, made, held, generated, pending, attempt, report>>

\* The bookkeeping after it, and the RunResult.
Reset ==
    /\ pc = "reset" /\ pc' = "unlock"
    /\ pending' = {}
    /\ outcome' = "succeeded"
    /\ UNCHANGED <<server, explicit, held, generated, attempt, errors>>

-----------------------------------------------------------------------------
(* rollback() and close().                                                 *)

\* Mutant: the lock is given back before the tables are dropped.
UnlocksFirst ==
    /\ pc = "rollback"
    /\ pending' = {}
    /\ outcome' = IF outcome = "skipped" THEN outcome ELSE "failed"
    /\ _drop_open_transaction
    /\ pc' = IF session = "lost" THEN "unlock" ELSE "drop"
    /\ lock' = FALSE /\ held' = FALSE
    /\ UNCHANGED <<session, staging, published, generated, attempt, errors>>

\* rollback(): nothing is sent on a lost session; otherwise the transaction goes
\* and the staging tables of this run are next.
Rollback ==
    /\ pc = "rollback"
    /\ pending' = {}
    /\ outcome' = IF outcome = "skipped" THEN outcome ELSE "failed"
    /\ _drop_open_transaction
    /\ IF session = "lost"
       THEN pc' = "unlock" /\ held' = FALSE
       ELSE pc' = "drop" /\ UNCHANGED held
    /\ UNCHANGED <<session, lock, staging, published, generated, attempt, errors>>

\* One DROP TABLE IF EXISTS, in a transaction of its own.
DropStaging ==
    /\ pc = "drop" /\ session = "open" /\ txn = "idle"
    /\ \E t \in generated :
          /\ staging' = staging \ {t}
          /\ generated' = generated \ {t}
    /\ UNCHANGED <<pc, session, txn, lock, made, swapped, published, explicit,
                   held, pending, attempt, report>>

DropsDone ==
    /\ pc = "drop" /\ generated = {}
    /\ pc' = "unlock"
    /\ UNCHANGED <<server, client, report>>

\* release_task_lock(): explicit unless the session is already lost.  Its commit()
\* commits whatever an interrupted rollback() has left open.
Unlock ==
    /\ pc = "unlock"
    /\ \/ /\ session = "open" /\ held /\ txn # "aborted"
          /\ lock' = FALSE /\ txn' = "idle"
          /\ staging' = (staging \cup made) \ swapped
          /\ published' = published \cup swapped
          /\ made' = {} /\ swapped' = {}
       \/ /\ session = "lost" \/ ~held
          /\ UNCHANGED <<lock, txn, staging, published, made, swapped>>
    /\ held' = FALSE
    /\ pc' = "disconnect"
    /\ UNCHANGED <<session, explicit, generated, pending, attempt, report>>

\* conn.close() and engine.dispose(): with NullPool the session ends.
Disconnect ==
    /\ pc = "disconnect" /\ pc' = "done"
    /\ session' = "closed" /\ txn' = "idle" /\ lock' = FALSE
    /\ made' = {} /\ swapped' = {}
    /\ held' = FALSE /\ explicit' = FALSE
    /\ UNCHANGED <<staging, published, generated, pending, attempt, report>>

Next ==
    \/ ReadIdentifierLimit \/ TryAcquire \/ NoteLock \/ Diagnose \/ CleanSpools
    \/ ScanPredecessors \/ EndScan
    \/ CollectFingerprints \/ ReadState \/ EndRead
    \/ RunPipeline \/ CreateStaging \/ LoadStaging \/ CommitStaging \/ Record
    \/ BeginCommit \/ BeginAttempt \/ VerifyArtifacts \/ RunPlan \/ LockTargets
    \/ LocksUnavailable \/ Retry \/ Discard \/ Swap \/ CommitSwaps \/ Reset
    \/ Rollback \/ DropStaging \/ DropsDone \/ Unlock \/ Disconnect
    \/ StatementFails \/ SessionLost \/ Interrupted

Spec == Init /\ [][Next]_vars

-----------------------------------------------------------------------------
(* Properties.                                                             *)

\* This run has been interrupted at one of these steps.
InterruptedAt(steps) == \E here \in steps : <<here, "interrupt">> \in errors

\* No transaction is open while a pipeline or a fingerprint runs for hours,
\* when an attempt of commit() begins, or once commit() has raised: every phase
\* ends its own, on every path, those SQLAlchemy began unasked included, unless
\* commit() was interrupted while it did so.
NothingLeftOpen ==
    (\/ pc \in Long \cup {"attempt"}
     \/ pc = "rollback" /\ attempt > 0 /\ ~InterruptedAt({"retry", "discard"}))
       => txn = "idle" /\ ~explicit /\ swapped = {}

\* While the session lives, the run's staging tables are never without the lock
\* that keeps other runs away from them: rollback() drops them first, and when a
\* DROP fails the lock is kept until the session ends, and not beyond.  A table is
\* left unlocked only where an interrupt hid it from rollback() or cut rollback()
\* short, and then by a run that drops no table any more; the lock outlives the
\* run only if close() was interrupted, and only as long as the session.
LockOutlivesStaging ==
    /\ session = "open" /\ staging # {} =>
          \/ lock
          \/ /\ pc \in {"disconnect", "done"}
             /\ InterruptedAt({"record", "rollback", "drop"})
    /\ pc = "done" /\ lock =>
          session = "open" /\ InterruptedAt({"unlock", "disconnect"})

\* One failing statement, anywhere, leaves no staging table behind: only a lost
\* session, a second error, or an interrupt between the COMMIT of a staging
\* table and its bookkeeping leaves one to the next run.
OneFailureLeavesNothing ==
    (/\ pc = "done" /\ Cardinality(errors) <= 1
     /\ \A e \in errors : e[2] # "lost" /\ e # <<"record", "interrupt">>)
       => staging = {}

\* The handler of commit() and rollback() were both interrupted before they could
\* roll back: whatever commit() had replaced is left to close().
LeftOpen == InterruptedAt({"discard"}) /\ InterruptedAt({"rollback"})

\* What can happen after the targets are replaced, COMMIT itself included.
AfterCommit == {"reset", "unlock", "disconnect"}

\* The outcome a caller sees and the database agree: all targets were replaced
\* or none was; and a run reported as failed has replaced them only if the
\* answer to its COMMIT was lost or it was hit after it.  Three interrupts, the
\* last two in the handlers of the first, are the one way to replace some.
OutcomeIsTrue ==
    /\ published \in {{}, Targets} \/ LeftOpen
    /\ outcome = "succeeded" => published = Targets
    /\ outcome = "skipped" => published = {}
    /\ outcome = "failed" /\ published # {} =>
          \/ LeftOpen
          \/ <<"commit", "lost">> \in errors
          \/ \E e \in errors : e[1] \in AfterCommit /\ e[2] # "sql"

\* What publish.py says of its diagnostic: "any failure is swallowed", a role
\* that cannot read pg_settings "should still be able to publish".
DiagnosticIsHarmless ==
    outcome = "failed" => errors # {<<"diagnostic", "sql">>}

=============================================================================
