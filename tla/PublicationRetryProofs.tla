----------------------- MODULE PublicationRetryProofs -----------------------
(***************************************************************************)
(* What PublicationRetry guarantees for every publication lock policy the  *)
(* constructor accepts and any number of targets.                          *)
(***************************************************************************)
EXTENDS PublicationRetry, TLAPS

\* Integer division: n equal shares never exceed what is divided.
LEMMA ShareFits ==
  ASSUME NEW a \in Nat, NEW n \in Nat \ {0}
  PROVE  a \div n \in Nat /\ n * (a \div n) <= a
OBVIOUS

\* Products grow with their factors.
LEMMA Monotone ==
  ASSUME NEW x \in Nat, NEW y \in Nat, NEW z \in Nat, x <= y
  PROVE  z * x <= z * y /\ x * z <= y * z
OBVIOUS

\* At the start of a statement nothing has elapsed, so its budget fits.
LEMMA StartsInTime ==
  ASSUME NEW s \in Nat, NEW n \in Nat, NEW h \in Nat, s <= h - n
  PROVE  n - 0 + s <= h
OBVIOUS

LEMMA StartsUnused ==
  ASSUME NEW l \in Nat, NEW b \in Nat
  PROVE  0 <= l /\ 0 <= b /\ 0 <= 0 * l + 0 + 0
OBVIOUS

LEMMA NoTargets ==
  ASSUME NEW x \in Nat
  PROVE  0 * x = 0
OBVIOUS

\* attempt_budgets_ms() in general: whatever is left of the horizon, n waits and
\* the margin fit in the statement timeout, and the statement in what is left.
THEOREM BudgetsFit ==
  ASSUME NEW remaining \in Int, NEW n \in Nat \ {0}, HasBudget(remaining, n)
  PROVE  /\ LockBudget(remaining, n) \in Nat /\ StatementBudget(remaining) \in Nat
         /\ LockBudget(remaining, n) >= 1
         /\ n * LockBudget(remaining, n) + TIMEOUT_MARGIN_MS
              <= StatementBudget(remaining)
         /\ StatementBudget(remaining) <= remaining
         /\ StatementBudget(remaining) <= acquisition_timeout_ms
<1> DEFINE a == StatementBudget(remaining) - TIMEOUT_MARGIN_MS
           share == a \div n
<1>1. /\ StatementBudget(remaining) \in Nat
      /\ StatementBudget(remaining) <= remaining
      /\ StatementBudget(remaining) <= acquisition_timeout_ms
  BY PolicyAssumption DEF HasBudget, StatementBudget
<1>2. a \in Nat /\ a >= n
  BY <1>1, PolicyAssumption DEF HasBudget
<1>3. share \in Nat /\ n * share <= a
  BY <1>2, ShareFits
<1>4. share >= 1
  <2>1. a \in Nat /\ n \in Nat \ {0} /\ a >= n
    BY <1>2
  <2>2. QED
    BY <2>1
<1> HIDE DEF a, share
<1>5. LockBudget(remaining, n) \in 1..share
  <2>1. LockBudget(remaining, n)
          = IF lock_timeout_ms <= share THEN lock_timeout_ms ELSE share
    BY DEF LockBudget, share, a
  <2>2. QED
    BY <2>1, <1>3, <1>4, PolicyAssumption
<1>6. n * LockBudget(remaining, n) <= n * share
  BY <1>3, <1>5, Monotone
<1>7. n * LockBudget(remaining, n) \in Nat
  BY <1>3, <1>5
<1>8. n * LockBudget(remaining, n) <= a
  BY <1>3, <1>6, <1>7, <1>2
<1>9. QED
  BY <1>1, <1>3, <1>5, <1>7, <1>8, PolicyAssumption DEF a

\* Every step of commit() and of the other sessions keeps the accounts.
LEMMA RStep == RInv /\ [Next]_vars => RInv'
<1> SUFFICES ASSUME RInv, [Next]_vars PROVE RInv'
  OBVIOUS
<1> USE PolicyAssumption
        DEF RInv, TypeOK, Phases, Accounting, SleepsForAFullAttempt, clock,
            budgets, _drop_open_transaction, AttemptsLeft, LockTimer, StatementTimer, Terminated
<1>1. CASE RequestLocks
  <2>1. CASE existing = 0
    BY <1>1, <2>1 DEF RequestLocks
  <2>2. CASE existing > 0 /\ phase' = "locking"
    <3>1. \E left \in Int :
             /\ left = retry_horizon_ms - now
             /\ HasBudget(left, existing) /\ existing \in Nat \ {0}
             /\ statement_ms' = StatementBudget(left)
             /\ lock_ms' = LockBudget(left, existing)
      BY <1>1, <2>2 DEF RequestLocks, Exhausted
    <3>2. /\ lock_ms' \in Nat /\ statement_ms' \in Nat
          /\ lock_ms' >= 1
          /\ existing * lock_ms' + TIMEOUT_MARGIN_MS <= statement_ms'
          /\ statement_ms' <= acquisition_timeout_ms
          /\ statement_ms' <= retry_horizon_ms - now
      BY <3>1, BudgetsFit
    <3>3. /\ phase = "verifying"
          /\ UNCHANGED <<clock, attempt, busy, existing, granted, wake>>
      BY <1>1 DEF RequestLocks
    <3>4. granted' = 0 /\ granted' * lock_ms' = 0
      BY <3>2, <3>3, NoTargets
    <3>5. /\ granted = 0 /\ waited = 0 /\ elapsed = 0 /\ spent = 0
          /\ granted' = 0 /\ waited' = 0 /\ elapsed' = 0 /\ spent' = 0
          /\ now' = now /\ existing' = existing
      BY <3>3
    <3>6. TypeOK'
      BY <2>2, <3>2, <3>3
    <3>7. now' - elapsed' + statement_ms' <= retry_horizon_ms
      <4>1. /\ statement_ms' \in Nat /\ now \in Nat /\ retry_horizon_ms \in Nat
            /\ statement_ms' <= retry_horizon_ms - now
        BY <3>2
      <4>2. now - 0 + statement_ms' <= retry_horizon_ms
        BY <4>1, StartsInTime
      <4>3. QED
        BY <4>2, <3>5
    <3>8. Accounting'
      <4>1. /\ granted' < existing'
            /\ lock_ms' >= 1
            /\ existing' * lock_ms' + TIMEOUT_MARGIN_MS <= statement_ms'
            /\ statement_ms' <= acquisition_timeout_ms
        BY <2>2, <3>2, <3>5
      <4>2. /\ waited' <= lock_ms' /\ spent' <= Overhead
            /\ elapsed' <= granted' * lock_ms' + waited' + spent'
        <5>1. 0 <= lock_ms' /\ 0 <= Overhead /\ 0 <= 0 * lock_ms' + 0 + 0
          BY <3>2, StartsUnused
        <5>2. QED
          BY <5>1, <3>5
      <4>3. QED
        BY ONLY <2>2, <3>5, <3>7, <4>1, <4>2
           DEF Accounting, SleepsForAFullAttempt
    <3>9. QED
      BY <3>6, <3>8
  <2>3. CASE existing > 0 /\ phase' # "locking"
    BY <1>1, <2>3 DEF RequestLocks, Exhausted
  <2>4. QED
    BY <2>1, <2>2, <2>3
<1>2. CASE Grant
  <2>1. granted \in Nat /\ granted' = granted + 1 /\ lock_ms' = lock_ms
    BY <1>2 DEF Grant
  <2>2. (granted + 1) * lock_ms = granted * lock_ms + lock_ms
    BY <2>1
  <2>3. granted * lock_ms \in Nat /\ granted' * lock_ms' \in Nat
    BY <2>1
  <2>4. QED
    BY <1>2, <2>1, <2>2, <2>3 DEF Grant
<1>3. CASE LockNotAvailable
  BY <1>3 DEF LockNotAvailable, DelayFits
<1>4. CASE Wake
  BY <1>4 DEF Wake
<1>5. CASE Publish
  BY <1>5 DEF Publish
<1>6. CASE Raise
  BY <1>6 DEF Raise
<1>7. CASE OthersMove
  BY <1>7 DEF OthersMove
<1>8. CASE Tick
  BY <1>8 DEF Tick
<1>9. CASE UNCHANGED vars
  BY <1>9 DEF vars
<1>10. QED
  BY <1>1, <1>2, <1>3, <1>4, <1>5, <1>6, <1>7, <1>8, <1>9 DEF Next

\* The accounts are balanced in every execution.
THEOREM Accounted == Spec => []RInv
<1>1. Init => RInv
  BY PolicyAssumption
     DEF Init, RInv, TypeOK, Phases, Accounting, SleepsForAFullAttempt
<1>2. QED
  BY <1>1, RStep, PTL DEF Spec

\* Every variable of commit() keeps its type, whatever the policy.
THEOREM TypeCorrect == Spec => []TypeOK
<1>1. RInv => TypeOK
  BY DEF RInv
<1>2. QED
  BY <1>1, Accounted, PTL

\* What the accounts say of the statement that is waiting: the timer of the whole
\* statement has not fallen due, so neither has the acquisition timeout.
LEMMA BeforeTimeout ==
  ASSUME RInv, phase = "locking"
  PROVE  elapsed < statement_ms
<1> USE PolicyAssumption DEF RInv, TypeOK, Accounting
<1>1. granted + 1 <= existing /\ granted + 1 \in Nat /\ existing \in Nat
  OBVIOUS
<1>2. (granted + 1) * lock_ms <= existing * lock_ms
  BY <1>1, Monotone
<1>3. (granted + 1) * lock_ms = granted * lock_ms + lock_ms
  OBVIOUS
<1>4. granted * lock_ms \in Nat /\ existing * lock_ms \in Nat
  OBVIOUS
<1>5. QED
  BY <1>2, <1>3, <1>4

\* Contention is never reported as 57014, for any accepted policy, any number of
\* targets and any behaviour of the sessions that hold them.
THEOREM Retryable == Spec => []ContentionIsRetryable
<1>1. RInv => ContentionIsRetryable
  BY BeforeTimeout DEF RInv, TypeOK, ContentionIsRetryable, StatementTimer
<1>2. QED
  BY <1>1, Accounted, PTL

\* LOCK TABLE never runs beyond the horizon, and no sleep makes an attempt pointless.
THEOREM WithinHorizon == Spec => []LockPhaseInHorizon
<1>1. RInv => LockPhaseInHorizon
  BY BeforeTimeout, PolicyAssumption
     DEF RInv, TypeOK, Accounting, LockPhaseInHorizon, SleepsForAFullAttempt
<1>2. QED
  BY <1>1, Accounted, PTL

\* Readers wait behind an unfinished LOCK TABLE for less than the acquisition
\* timeout, and behind nothing between attempts.
THEOREM ReadersProtected == Spec => []ReadersBlockedBriefly
<1>1. RInv => ReadersBlockedBriefly
  BY BeforeTimeout, PolicyAssumption
     DEF RInv, TypeOK, Accounting, ReadersBlockedBriefly
<1>2. QED
  BY <1>1, Accounted, PTL

\* No sleep is followed by an attempt that could not use its full timeout.
THEOREM UsefulSleeps == Spec => []SleepsForAFullAttempt
<1>1. RInv => SleepsForAFullAttempt
  BY DEF RInv, Accounting
<1>2. QED
  BY <1>1, Accounted, PTL

=============================================================================
