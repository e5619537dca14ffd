-------------------------- MODULE PublicationRetry --------------------------
(***************************************************************************)
(* DbPublisher.commit() against the clock: how long one publication may    *)
(* wait for ACCESS EXCLUSIVE on its live targets, what a refused attempt   *)
(* turns into, and when the loop gives up.  Other sessions (long readers,  *)
(* autovacuum) hold and release conflicting locks at any time.             *)
(*                                                                         *)
(* Time is counted in milliseconds from the call of commit().  PostgreSQL  *)
(* is modelled by its two timers: lock_timeout restarts for each table of  *)
(* LOCK TABLE and raises 55P03, statement_timeout covers the statement and *)
(* raises 57014.                                                           *)
(***************************************************************************)
EXTENDS Integers

CONSTANTS
    MaxTargets,              \* most live targets one publication replaces
    lock_timeout_ms,         \* PublicationLockPolicy, L
    acquisition_timeout_ms,  \* A
    TIMEOUT_MARGIN_MS,       \* M
    retry_horizon_ms,
    retry_delay_min_ms,
    retry_delay_max_ms,
    max_attempts,
    Overhead,                \* most a LOCK TABLE spends on anything but waiting
    EndOfTime                \* bound: how far the clock is followed

\* PublicationLockPolicy.__post_init__, and the reason there is a margin: the
\* statement's own work fits in it.
ASSUME PolicyAssumption ==
    /\ MaxTargets \in Nat \ {0}
    /\ lock_timeout_ms \in Nat \ {0}
    /\ acquisition_timeout_ms \in Nat
    /\ TIMEOUT_MARGIN_MS \in Nat
    /\ retry_horizon_ms \in Nat
    /\ retry_delay_min_ms \in Nat
    /\ retry_delay_max_ms \in Nat
    /\ max_attempts \in Nat \ {0}
    /\ Overhead \in Nat
    /\ EndOfTime \in Nat
    /\ retry_delay_min_ms <= retry_delay_max_ms
    /\ acquisition_timeout_ms >= lock_timeout_ms + TIMEOUT_MARGIN_MS
    /\ Overhead < TIMEOUT_MARGIN_MS

VARIABLES
    now,        \* time since commit() was called
    phase,      \* where commit() is
    attempt,    \* attempts begun
    busy,       \* targets, in lock order, that another session holds
    existing,   \* live targets there are to lock, in lock order: 1..existing
    granted,    \* how many of them LOCK TABLE has been granted, in order
    lock_ms,    \* SET LOCAL lock_timeout
    statement_ms,\* SET LOCAL statement_timeout
    waited,     \* time spent waiting for the next target
    elapsed,    \* time since LOCK TABLE was sent
    spent,      \* the part of it not spent waiting
    wake        \* when time.sleep() returns

clock    == <<now, waited, elapsed, spent>>
budgets  == <<lock_ms, statement_ms>>
vars     == <<now, phase, attempt, busy, existing, granted, lock_ms,
              statement_ms, waited, elapsed, spent, wake>>

Phases == {"verifying", "locking", "locked", "sleeping", "published", "failed"}

Terminated == phase \in {"published", "failed"}

TypeOK ==
    /\ now \in Nat
    /\ phase \in Phases
    /\ attempt \in 1..max_attempts
    /\ busy \subseteq 1..MaxTargets
    /\ existing \in 0..MaxTargets
    /\ granted \in 0..existing
    /\ lock_ms \in Nat
    /\ statement_ms \in Nat
    /\ waited \in Nat
    /\ elapsed \in Nat
    /\ spent \in Nat
    /\ wake \in Nat

-----------------------------------------------------------------------------
(* attempt_budgets_ms().                                                   *)

\* Mutant: the statement timeout is never shortened to what is left.
FullAcquisition(remaining) == acquisition_timeout_ms

\* The timeout of the whole statement: never past the horizon.
StatementBudget(remaining) ==
    IF acquisition_timeout_ms <= remaining
    THEN acquisition_timeout_ms ELSE remaining

\* Mutant: every target gets the configured timeout, however little is left.
FullWait(remaining, n) == lock_timeout_ms

\* The timeout of one wait: all n of them and the margin fit in the statement.
LockBudget(remaining, n) ==
    LET share == (StatementBudget(remaining) - TIMEOUT_MARGIN_MS) \div n
    IN  IF lock_timeout_ms <= share THEN lock_timeout_ms ELSE share

\* None is returned when not even one millisecond per target is left.
HasBudget(remaining, n) ==
    /\ remaining > 0
    /\ StatementBudget(remaining) - TIMEOUT_MARGIN_MS >= n

\* The publication-wide invariant checked on the targets actually found.
PolicyFits(n) == acquisition_timeout_ms >= n * lock_timeout_ms + TIMEOUT_MARGIN_MS

-----------------------------------------------------------------------------

Init ==
    /\ now = 0
    /\ phase = "verifying"
    /\ attempt = 1
    /\ busy \in SUBSET (1..MaxTargets)
    /\ existing \in 0..MaxTargets
    /\ granted = 0
    /\ lock_ms = 0
    /\ statement_ms = 0
    /\ waited = 0
    /\ elapsed = 0
    /\ spent = 0
    /\ wake = 0

\* Mutant: only DBAPIErrors roll back, so the transaction stays open.
KeepsTransaction ==
    UNCHANGED <<granted, lock_ms, statement_ms, waited, elapsed, spent>>

\* The attempt is over: its transaction is rolled back, which releases every
\* lock it was granted and undoes both SET LOCAL.
_drop_open_transaction ==
    /\ granted' = 0
    /\ lock_ms' = 0
    /\ statement_ms' = 0
    /\ waited' = 0
    /\ elapsed' = 0
    /\ spent' = 0

\* An error that is not lock_not_available ends commit(): a lost connection,
\* a failing queued step, 40P01, 57014, an interrupt.
Raise ==
    /\ phase \in {"verifying", "locking", "locked"}
    /\ _drop_open_transaction
    /\ phase' = "failed"
    /\ UNCHANGED <<now, attempt, busy, existing, wake>>

\* Mutant: an attempt without a usable budget is simply repeated.
TriesAgain == UNCHANGED <<phase, budgets>>

\* No budget fits: DbPublishError, before any live target is locked.
Exhausted ==
    /\ phase' = "failed"
    /\ UNCHANGED budgets

\* _lock_publication_targets(): nothing to lock, no usable budget, or LOCK TABLE
\* is sent with the budgets of this attempt.
RequestLocks ==
    /\ phase = "verifying"
    /\ \/ /\ existing = 0
          /\ phase' = "locked"
          /\ UNCHANGED budgets
       \/ /\ existing > 0
          /\ PolicyFits(existing)
          /\ HasBudget(retry_horizon_ms - now, existing)
          /\ statement_ms' = StatementBudget(retry_horizon_ms - now)
          /\ lock_ms' = LockBudget(retry_horizon_ms - now, existing)
          /\ phase' = "locking"
       \/ /\ existing > 0
          /\ \/ ~PolicyFits(existing)
             \/ ~HasBudget(retry_horizon_ms - now, existing)
          /\ Exhausted
    /\ UNCHANGED <<clock, attempt, busy, existing, granted, wake>>

\* The next table is free, and is ours until the transaction ends.
Grant ==
    /\ phase = "locking"
    /\ granted + 1 \notin busy
    /\ granted' = granted + 1
    /\ waited' = 0
    /\ phase' = IF granted + 1 = existing THEN "locked" ELSE "locking"
    /\ UNCHANGED <<now, attempt, busy, existing, budgets, elapsed, spent, wake>>

\* 57014 and 55P03 fall due.  An operator's own 57014 is a Raise.
StatementTimer == phase = "locking" /\ elapsed = statement_ms
LockTimer      == phase = "locking" /\ waited = lock_ms

\* The delay leaves a complete acquisition timeout before the horizon.
DelayFits(delay) == delay <= retry_horizon_ms - now - acquisition_timeout_ms

AttemptsLeft == attempt < max_attempts

\* 55P03: rolled back, and tried again after a delay if one fits.
LockNotAvailable ==
    /\ LockTimer
    /\ _drop_open_transaction
    /\ \/ /\ AttemptsLeft
          /\ \E delay \in retry_delay_min_ms..retry_delay_max_ms :
                /\ DelayFits(delay)
                /\ wake' = now + delay
          /\ phase' = "sleeping"
       \/ /\ ~AttemptsLeft \/ ~DelayFits(retry_delay_min_ms)
          /\ phase' = "failed"
          /\ UNCHANGED wake
    /\ UNCHANGED <<now, attempt, busy, existing>>

\* time.sleep() returns and the loop starts the next attempt.
Wake ==
    /\ phase = "sleeping" /\ now >= wake
    /\ phase' = "verifying"
    /\ attempt' = attempt + 1
    /\ UNCHANGED <<clock, busy, existing, budgets, granted, wake>>

\* Swaps, refills and COMMIT.
Publish ==
    /\ phase = "locked"
    /\ phase' = "published"
    /\ granted' = 0
    /\ UNCHANGED <<clock, attempt, busy, existing, budgets, wake>>

-----------------------------------------------------------------------------
(* The outside world.                                                      *)

\* Another session takes or gives up a lock that conflicts; it cannot take one
\* that has been granted to us.
OthersMove ==
    /\ ~Terminated
    /\ \E t \in 1..MaxTargets :
          \/ t \in busy /\ busy' = busy \ {t}
          \/ t \notin busy /\ t > granted /\ busy' = busy \cup {t}
    /\ UNCHANGED <<clock, phase, attempt, existing, budgets, granted, wake>>

\* A millisecond passes, spent waiting for the next table or working.  Timers
\* that are due go off first.
Tick ==
    /\ now < EndOfTime
    /\ ~Terminated
    /\ ~StatementTimer
    /\ phase = "sleeping" => now < wake
    /\ now' = now + 1
    /\ IF phase = "locking"
       THEN /\ elapsed' = elapsed + 1
            /\ \/ /\ ~LockTimer
                  /\ waited' = waited + 1
                  /\ UNCHANGED spent
               \/ /\ spent < Overhead
                  /\ spent' = spent + 1
                  /\ UNCHANGED waited
       ELSE UNCHANGED <<elapsed, waited, spent>>
    /\ UNCHANGED <<phase, attempt, busy, existing, budgets, granted, wake>>

Next ==
    \/ RequestLocks \/ Grant \/ LockNotAvailable
    \/ Wake \/ Publish \/ Raise
    \/ OthersMove \/ Tick

Spec == Init /\ [][Next]_vars

\* The publisher is not stopped and time passes.
Fairness ==
    /\ WF_vars(RequestLocks) /\ WF_vars(Wake) /\ WF_vars(Publish)
    /\ WF_vars(LockNotAvailable)
    /\ WF_vars(Tick)
FairSpec == Spec /\ Fairness

-----------------------------------------------------------------------------
(* Properties.                                                             *)

\* Contention is always reported as 55P03, the retryable one: statement_timeout
\* never goes off first, on any attempt, however short its budget and however
\* many targets wait one after the other.
ContentionIsRetryable == ~StatementTimer

\* commit() never sleeps in order to give up: when it sleeps, the attempt it
\* sleeps for still has the complete acquisition timeout ahead of it.
SleepsForAFullAttempt ==
    phase = "sleeping" => wake + acquisition_timeout_ms <= retry_horizon_ms

\* The horizon bounds the completion of the lock phase: LOCK TABLE never runs
\* beyond it, on a final shortened attempt either, and no sleep uses up what the
\* attempt after it would need.
LockPhaseInHorizon ==
    /\ phase = "locking" => now <= retry_horizon_ms
    /\ SleepsForAFullAttempt

\* While LOCK TABLE waits for one target, the first one it was granted blocks
\* readers for less than the acquisition timeout; between attempts none does.
ReadersBlockedBriefly ==
    /\ granted > 0 => phase \in {"locking", "locked"}
    /\ phase = "locking" => elapsed < acquisition_timeout_ms

\* The inductive invariant behind them: the time LOCK TABLE has used is covered
\* by the waits already over, the current one, and the margin.
Accounting ==
    /\ phase \in {"verifying", "sleeping"} =>
          granted = 0 /\ waited = 0 /\ elapsed = 0 /\ spent = 0
    /\ granted > 0 => phase \in {"locking", "locked"}
    /\ phase = "sleeping" => AttemptsLeft
    /\ SleepsForAFullAttempt
    /\ phase = "locking" =>
          /\ granted < existing
          /\ lock_ms >= 1
          /\ existing * lock_ms + TIMEOUT_MARGIN_MS <= statement_ms
          /\ statement_ms <= acquisition_timeout_ms
          /\ now - elapsed + statement_ms <= retry_horizon_ms
          /\ waited <= lock_ms
          /\ spent <= Overhead
          /\ elapsed <= granted * lock_ms + waited + spent

RInv == TypeOK /\ Accounting

\* commit() returns or raises, whatever other sessions hold.
Terminates == <>Terminated

=============================================================================
