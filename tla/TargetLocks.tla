---------------------------- MODULE TargetLocks ----------------------------
(***************************************************************************)
(* commit() of several tasks whose targets overlap, among readers that     *)
(* hold tables in any order.  A publication looks its targets up, creates  *)
(* the refill targets that do not exist, looks the others up again, locks  *)
(* them with one LOCK TABLE, and replaces or refills each in turn.         *)
(*                                                                         *)
(* Only LOCK TABLE waits under lock_timeout.  CREATE, DROP and RENAME wait *)
(* without one, for a lock or for the transaction that claimed a name.     *)
(* decisions/0016 keeps lock_timeout below the server's deadlock_timeout,  *)
(* so the deadlock detector ends only a cycle without a timed wait.        *)
(*                                                                         *)
(* Left out: the publication plan, which touches rows of its own task      *)
(* only, and time, which is the subject of PublicationRetry.               *)
(***************************************************************************)
EXTENDS Naturals

CONSTANTS
    Publishers,   \* one publication each, of different tasks
    Readers,
    Tables,       \* target names, as numbers in their sorted order
    Layouts,      \* who publishes what, how, over which existing tables
    Before,       \* author of the tables that exist already
    None,
    max_attempts  \* PublicationLockPolicy

Actors == Publishers \cup Readers

Layout == [targets : [Publishers -> SUBSET Tables],
           refill : [Publishers -> SUBSET Tables],
           existing : SUBSET Tables]

\* A relation: who created it, and whose rows it has.
Authors == Publishers \cup {Before}
Table   == [id : Authors, rows : Authors]

ASSUME LocksAssumption ==
    /\ Tables \subseteq Nat
    /\ Publishers \cap Readers = {}
    /\ Before \notin Publishers
    /\ None \notin Tables \cup Authors \cup Table
    /\ Layouts \subseteq Layout
    /\ max_attempts \in Nat \ {0}

VARIABLES
    layout,   \* chosen once
    \* PostgreSQL
    live,     \* committed relation of a name: which one it is, whose rows it has
    locks,    \* tables an actor has locked, exclusively if it is a publisher
    claims,   \* names under which a publication has an uncommitted relation
    \* DbPublisher.commit()
    pc,
    todo,     \* tables the current loop or statement has still to come to
    naming,   \* the name about to be created or renamed to
    checked,  \* relation that preflight validated
    created,  \* created_refill_targets
    found,    \* existing targets, as they were looked up
    attempt,
    outcome,
    \* readers
    wants     \* table a reader is asking for

server    == <<live, locks, claims>>
publisher == <<pc, todo, naming, checked, created, found, attempt, outcome>>
vars      == <<layout, server, publisher, wants>>

-----------------------------------------------------------------------------

Relations == Table \cup {None}

Phases   == {"preflight", "look", "lock", "swap", "done"}
Outcomes == {"running", "published", "busy", "conflict", "deadlock", "failed"}

TypeOK ==
    /\ layout \in Layouts
    /\ live \in [Tables -> Relations]
    /\ locks \in [Actors -> SUBSET Tables]
    /\ claims \in [Publishers -> SUBSET Tables]
    /\ pc \in [Publishers -> Phases]
    /\ todo \in [Publishers -> SUBSET Tables]
    /\ naming \in [Publishers -> Tables \cup {None}]
    /\ checked \in [Publishers -> [Tables -> Authors \cup {None}]]
    /\ created \in [Publishers -> SUBSET Tables]
    /\ found \in [Publishers -> SUBSET Tables]
    /\ attempt \in [Publishers -> 1..max_attempts]
    /\ outcome \in [Publishers -> Outcomes]
    /\ wants \in [Readers -> Tables \cup {None}]

Targets(p) == layout.targets[p]
Refill(p)  == layout.refill[p] \cap Targets(p)

Unchecked == [t \in Tables |-> None]

Init ==
    /\ layout \in Layouts
    /\ live = [t \in Tables |-> IF t \in layout.existing
                                THEN [id |-> Before, rows |-> Before] ELSE None]
    /\ locks = [a \in Actors |-> {}]
    /\ claims = [p \in Publishers |-> {}]
    /\ pc = [p \in Publishers |-> "preflight"]
    /\ todo = [p \in Publishers |-> Refill(p)]
    /\ naming = [p \in Publishers |-> None]
    /\ checked = [p \in Publishers |-> Unchecked]
    /\ created = [p \in Publishers |-> {}]
    /\ found = [p \in Publishers |-> {}]
    /\ attempt = [p \in Publishers |-> 1]
    /\ outcome = [p \in Publishers |-> "running"]
    /\ wants = [r \in Readers |-> None]

-----------------------------------------------------------------------------
(* Who waits for whom.                                                     *)

\* The loops and LOCK TABLE go through their tables in sorted order.
IsNext(p, t) ==
    /\ t \in todo[p]
    /\ \A u \in todo[p] : t <= u

\* Others that keep p from an exclusive lock on t.
Holders(p, t) == {a \in Actors \ {p} : t \in locks[a]}

\* Others whose uncommitted relation has the name t.
Claimants(p, t) == {q \in Publishers \ {p} : t \in claims[q]}

\* LOCK TABLE is at t.
Locking(p, t) == pc[p] = "lock" /\ IsNext(p, t)

\* DROP TABLE IF EXISTS meets a table that LOCK TABLE did not name.
Dropping(p, t) ==
    /\ pc[p] = "swap" /\ naming[p] = None
    /\ IsNext(p, t)
    /\ t \notin Refill(p)
    /\ live[t] # None /\ t \notin locks[p]

Blockers(a) ==
    IF a \in Readers
      THEN {q \in Publishers : wants[a] \in locks[q]}
      ELSE (UNION {Holders(a, t) : t \in {u \in Tables : Locking(a, u) \/ Dropping(a, u)}})
             \cup (IF naming[a] # None /\ live[naming[a]] = None
                     THEN Claimants(a, naming[a]) ELSE {})

\* Everyone in S waits for, and keeps waiting, someone in S.
Deadlock(S) ==
    /\ S # {}
    /\ \A a \in S : /\ Blockers(a) \cap S # {}
                    /\ \E b \in S : a \in Blockers(b)

Timed(a) == a \in Publishers /\ pc[a] = "lock"

-----------------------------------------------------------------------------
(* The end of an attempt.                                                  *)

\* _drop_open_transaction(): uncommitted relations and locks are gone.
RolledBack(p) ==
    /\ locks' = [locks EXCEPT ![p] = {}]
    /\ claims' = [claims EXCEPT ![p] = {}]
    /\ naming' = [naming EXCEPT ![p] = None]
    /\ created' = [created EXCEPT ![p] = {}]
    /\ checked' = [checked EXCEPT ![p] = Unchecked]
    /\ found' = [found EXCEPT ![p] = {}]
    /\ UNCHANGED <<layout, live, wants>>

Gives(p, result) ==
    /\ RolledBack(p)
    /\ pc' = [pc EXCEPT ![p] = "done"]
    /\ todo' = [todo EXCEPT ![p] = {}]
    /\ outcome' = [outcome EXCEPT ![p] = result]
    /\ UNCHANGED attempt

\* Mutant: the attempts are not counted.
TriesForEver(p) ==
    /\ \E t \in Tables : Locking(p, t) /\ Holders(p, t) # {}
    /\ RolledBack(p)
    /\ pc' = [pc EXCEPT ![p] = "preflight"]
    /\ todo' = [todo EXCEPT ![p] = Refill(p)]
    /\ UNCHANGED <<attempt, outcome>>

\* 55P03: another attempt, from the beginning, if one is left.
LockTimeout(p) ==
    /\ \E t \in Tables : Locking(p, t) /\ Holders(p, t) # {}
    /\ \/ /\ attempt[p] < max_attempts
          /\ RolledBack(p)
          /\ pc' = [pc EXCEPT ![p] = "preflight"]
          /\ todo' = [todo EXCEPT ![p] = Refill(p)]
          /\ attempt' = [attempt EXCEPT ![p] = @ + 1]
          /\ UNCHANGED outcome
       \/ attempt[p] = max_attempts /\ Gives(p, "busy")

\* The server's deadlock detector may choose a: no wait of the cycle ends itself.
Victim(a) ==
    \E S \in SUBSET Actors : /\ a \in S
                             /\ Deadlock(S)
                             /\ \A b \in S : ~Timed(b)

\* 40P01: never retried.
DeadlockDetected(p) ==
    /\ Victim(p)
    /\ Gives(p, "deadlock")

\* Any other exception.
Fails(p) ==
    /\ pc[p] # "done"
    /\ Gives(p, "failed")

-----------------------------------------------------------------------------
(* _prepare_declared_targets_before_lock().                                *)

\* _find_relation() and _verify_declared_target_compatibility().
Validate(p, t) ==
    /\ pc[p] = "preflight" /\ naming[p] = None /\ IsNext(p, t)
    /\ live[t] # None
    /\ checked' = [checked EXCEPT ![p][t] = live[t].id]
    /\ todo' = [todo EXCEPT ![p] = @ \ {t}]
    /\ UNCHANGED <<layout, server, pc, naming, created, found, attempt, outcome, wants>>

\* The target is not there: it is going to be created.
FindAbsent(p, t) ==
    /\ pc[p] = "preflight" /\ naming[p] = None /\ IsNext(p, t)
    /\ live[t] = None
    /\ naming' = [naming EXCEPT ![p] = t]
    /\ UNCHANGED <<layout, server, pc, todo, checked, created, found, attempt, outcome, wants>>

\* _create_and_fill_declared_target(), and RENAME in the swap.  A relation that
\* exists is an error; one that is not committed has to be waited for.
Claim(p) ==
    /\ naming[p] # None
    /\ \/ /\ live[naming[p]] = None \/ naming[p] \in locks[p]
          /\ Claimants(p, naming[p]) = {}
          /\ claims' = [claims EXCEPT ![p] = @ \cup {naming[p]}]
          /\ created' = [created EXCEPT ![p] =
                           IF pc[p] = "preflight" THEN @ \cup {naming[p]} ELSE @]
          /\ todo' = [todo EXCEPT ![p] = @ \ {naming[p]}]
          /\ naming' = [naming EXCEPT ![p] = None]
          /\ UNCHANGED <<layout, live, locks, pc, checked, found, attempt, outcome, wants>>
       \/ /\ live[naming[p]] # None /\ naming[p] \notin locks[p]
          /\ Gives(p, "conflict")

-----------------------------------------------------------------------------
(* _lock_publication_targets().                                            *)

\* Mutant: the first table is locked, each other by its own DROP.
FirstOnly(p) == {t \in Targets(p) \ created[p] : \A u \in Targets(p) : t <= u}

\* Those created a moment ago are excluded.
ToLookUp(p) == Targets(p) \ created[p]

BeginLookUp(p) ==
    /\ pc[p] = "preflight" /\ naming[p] = None /\ todo[p] = {}
    /\ pc' = [pc EXCEPT ![p] = "look"]
    /\ todo' = [todo EXCEPT ![p] = ToLookUp(p)]
    /\ UNCHANGED <<layout, server, naming, checked, created, found, attempt, outcome, wants>>

\* _find_relation(): a table that appears after its query is not locked.
LookUp(p, t) ==
    /\ pc[p] = "look" /\ IsNext(p, t)
    /\ todo' = [todo EXCEPT ![p] = @ \ {t}]
    /\ found' = [found EXCEPT ![p] = IF live[t] # None THEN @ \cup {t} ELSE @]
    /\ UNCHANGED <<layout, server, pc, naming, checked, created, attempt, outcome, wants>>

BeginLock(p) ==
    /\ pc[p] = "look" /\ todo[p] = {}
    /\ pc' = [pc EXCEPT ![p] = "lock"]
    /\ todo' = [todo EXCEPT ![p] = found[p]]
    /\ UNCHANGED <<layout, server, naming, checked, created, found, attempt, outcome, wants>>

\* The next lock of LOCK TABLE is granted.
LockGranted(p, t) ==
    /\ Locking(p, t)
    /\ Holders(p, t) = {}
    /\ locks' = [locks EXCEPT ![p] = @ \cup {t}]
    /\ todo' = [todo EXCEPT ![p] = @ \ {t}]
    /\ UNCHANGED <<layout, live, claims, pc, naming, checked, created, found, attempt, outcome, wants>>

\* Both timeouts are set to 0; then the loop over all pending targets begins.
BeginSwap(p) ==
    /\ pc[p] = "lock" /\ todo[p] = {}
    /\ pc' = [pc EXCEPT ![p] = "swap"]
    /\ todo' = [todo EXCEPT ![p] = Targets(p) \ created[p]]
    /\ UNCHANGED <<layout, server, naming, checked, created, found, attempt, outcome, wants>>

-----------------------------------------------------------------------------
(* The loop of _publish_once().                                            *)

\* _refill_declared_target(): TRUNCATE and INSERT, seen by nobody until COMMIT.
RefillTarget(p, t) ==
    /\ pc[p] = "swap" /\ naming[p] = None /\ IsNext(p, t)
    /\ t \in Refill(p)
    /\ todo' = [todo EXCEPT ![p] = @ \ {t}]
    /\ UNCHANGED <<layout, server, pc, naming, checked, created, found, attempt, outcome, wants>>

\* DROP TABLE IF EXISTS: of a locked table, of none, or of one that appeared.
Drop(p, t) ==
    /\ pc[p] = "swap" /\ naming[p] = None /\ IsNext(p, t)
    /\ t \notin Refill(p)
    /\ IF live[t] = None THEN UNCHANGED locks
       ELSE /\ Holders(p, t) = {}
            /\ locks' = [locks EXCEPT ![p] = @ \cup {t}]
    /\ naming' = [naming EXCEPT ![p] = t]
    /\ UNCHANGED <<layout, live, claims, pc, todo, checked, created, found, attempt, outcome, wants>>

\* Mutant: a refill target is replaced like any other.
AllReplaced(p) ==
    [t \in Tables |-> IF t \in Targets(p) THEN [id |-> p, rows |-> p] ELSE live[t]]

\* What COMMIT makes of the tables: new relations, or new rows in the old one.
Committed(p) ==
    [t \in Tables |->
        IF t \notin Targets(p) THEN live[t]
        ELSE IF t \in Refill(p) \ created[p]
          THEN [live[t] EXCEPT !.rows = p]
          ELSE [id |-> p, rows |-> p]]

Commit(p) ==
    /\ pc[p] = "swap" /\ todo[p] = {} /\ naming[p] = None
    /\ live' = Committed(p)
    /\ locks' = [locks EXCEPT ![p] = {}]
    /\ claims' = [claims EXCEPT ![p] = {}]
    /\ pc' = [pc EXCEPT ![p] = "done"]
    /\ outcome' = [outcome EXCEPT ![p] = "published"]
    /\ UNCHANGED <<layout, todo, naming, checked, created, found, attempt, wants>>

-----------------------------------------------------------------------------
(* Readers.                                                                *)

Ask(r, t) ==
    /\ wants[r] = None
    /\ t \notin locks[r] /\ live[t] # None
    /\ wants' = [wants EXCEPT ![r] = t]
    /\ UNCHANGED <<layout, server, publisher>>

Read(r) ==
    /\ wants[r] # None
    /\ Blockers(r) = {}
    /\ locks' = [locks EXCEPT ![r] = @ \cup {wants[r]}]
    /\ wants' = [wants EXCEPT ![r] = None]
    /\ UNCHANGED <<layout, live, claims, publisher>>

\* The reader's transaction ends; so it does as the victim of the detector.
EndRead(r) ==
    /\ (wants[r] = None /\ locks[r] # {}) \/ Victim(r)
    /\ locks' = [locks EXCEPT ![r] = {}]
    /\ wants' = [wants EXCEPT ![r] = None]
    /\ UNCHANGED <<layout, live, claims, publisher>>

-----------------------------------------------------------------------------

Statement(p) ==
    \/ \E t \in Tables : \/ Validate(p, t) \/ FindAbsent(p, t) \/ LookUp(p, t)
                         \/ LockGranted(p, t)
                         \/ RefillTarget(p, t) \/ Drop(p, t)
    \/ Claim(p) \/ BeginLookUp(p) \/ BeginLock(p) \/ BeginSwap(p)
    \/ Commit(p)
    \/ LockTimeout(p) \/ DeadlockDetected(p)

Next ==
    \/ \E p \in Publishers : Statement(p) \/ Fails(p)
    \/ \E r \in Readers : Read(r) \/ EndRead(r) \/ \E t \in Tables : Ask(r, t)

\* A publication goes on unless it waits; PostgreSQL queues lock requests, so that
\* a lock that is free again and again is granted; a reader gets its tables and ends.
Fairness ==
    /\ \A p \in Publishers : SF_vars(Statement(p))
    /\ \A r \in Readers : SF_vars(Read(r)) /\ SF_vars(EndRead(r))

Spec == Init /\ [][Next]_vars /\ Fairness

-----------------------------------------------------------------------------
(* Properties.                                                             *)

AllExisted == \A p \in Publishers : Targets(p) \subseteq layout.existing

\* Two publications never wait for each other: sorted order, and LOCK TABLE before
\* any exclusive lock.  A third makes it possible, and so does a table that one
\* replaces and one refills, while a target does not exist yet.
NoPublisherCycle == ~\E S \in SUBSET Publishers : Deadlock(S)

\* Sorted order prevents deadlock between publications.  Once every target exists, none
\* is the victim of a deadlock, with readers that lock in any order either, and
\* whoever keeps readers of a target out either waits under lock_timeout or not at
\* all: no outage lasts as long as somebody's query.
SortedOrderSuffices ==
    /\ NoPublisherCycle
    /\ AllExisted => \A p \in Publishers :
         /\ outcome[p] \notin {"deadlock", "conflict"}
         /\ locks[p] # {} /\ Blockers(p) # {} => Timed(p)

\* A refilled table keeps its identity, and it is the relation whose columns and
\* foreign keys preflight compared, whatever was published since.
RefilledAsValidated ==
    [][\A p \in Publishers, t \in Tables :
          outcome'[p] = "published" /\ outcome[p] = "running"
            /\ t \in Refill(p) /\ live[t] # None
            => live'[t].id = live[t].id /\ live[t].id = checked[p][t]]_vars

\* Every publication ends, against readers that come and go for ever.
EveryoneEnds == \A p \in Publishers : <>(pc[p] = "done")
=============================================================================
