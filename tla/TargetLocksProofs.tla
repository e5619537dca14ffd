------------------------- MODULE TargetLocksProofs -------------------------
(***************************************************************************)
(* Publications of overlapping targets, for any number of them and of      *)
(* readers: which relation a refill meets at its commit, and when nobody   *)
(* is a victim of the deadlock detector.                                   *)
(***************************************************************************)
EXTENDS TargetLocks, FiniteSetTheorems, WellFoundedInduction, TLAPS

-----------------------------------------------------------------------------
(* The inductive invariant.                                                *)

Running(p) == pc[p] # "done"

\* How far each loop has come, and what has been locked and claimed on the way: in
\* ascending order, the refill targets first.
LoopOf(p) ==
    /\ outcome[p] = "running" <=> Running(p)
    /\ ~Running(p) => locks[p] = {} /\ claims[p] = {} /\ naming[p] = None
    /\ Running(p) => created[p] \subseteq claims[p] /\ created[p] \subseteq Refill(p)
    /\ pc[p] \in {"preflight", "look"} => locks[p] = {}
    /\ pc[p] \in {"preflight", "look", "lock"} => claims[p] = created[p]
    /\ pc[p] \in {"look", "lock"} => naming[p] = None
    /\ pc[p] = "preflight" => todo[p] \subseteq Refill(p)
    /\ pc[p] \in {"look", "swap"} => todo[p] \subseteq Targets(p) \ created[p]
    /\ pc[p] = "lock" => found[p] \subseteq todo[p] \cup locks[p]
    /\ pc[p] = "swap" => found[p] \subseteq locks[p]
    /\ naming[p] # None => IsNext(p, naming[p])
    /\ pc[p] = "swap" => naming[p] \notin Refill(p)

Loops == \A p \in Publishers : LoopOf(p)

Ascending ==
    \A p \in Publishers : \A u \in todo[p] :
        /\ pc[p] = "preflight" => \A c \in created[p] : c < u
        /\ pc[p] = "lock" => \A l \in locks[p] : l < u
        /\ pc[p] = "swap" => \A c \in claims[p] \ created[p] : c < u

\* A refill target is validated or created before anything is locked.
Prepared ==
    \A p \in Publishers : Running(p) =>
        \A t \in Tables :
            /\ checked[p][t] # None => t \in Refill(p) /\ live[t] # None
            /\ t \in Refill(p) =>
                  \/ pc[p] = "preflight" /\ t \in todo[p]
                  \/ checked[p][t] # None
                  \/ t \in created[p]

\* A table that existed is never created, and is found by every look-up.
Finds(p) ==
    \A t \in Tables : t \in layout.existing =>
        /\ t \notin created[p]
        /\ pc[p] = "preflight" => naming[p] # t
        /\ pc[p] = "look" /\ t \in Targets(p) => t \in todo[p] \cup found[p]
        /\ pc[p] \in {"lock", "swap"} /\ t \in Targets(p) => t \in found[p]

Found == \A p \in Publishers : Running(p) => Finds(p)

\* A table that existed stays.
Existing == \A t \in Tables \cap layout.existing : live[t] # None

\* Another table comes with a publication.
Appearing ==
    (\A q \in Publishers : outcome[q] # "published") =>
        \A t \in Tables : live[t] # None => t \in layout.existing

\* An uncommitted relation has its name for itself.
Exclusive == \A p, q \in Publishers : claims[p] \cap claims[q] # {} => p = q

LInv == TypeOK /\ Loops /\ Ascending /\ Prepared /\ Existing /\ Appearing /\ Found
        /\ Exclusive

-----------------------------------------------------------------------------
(* What depends on the tasks, or on their number.                          *)

\* All tasks publish a table in the same way: as a replacement, or by a refill.
Agreed ==
    \A l \in Layouts : \A p, q \in Publishers :
        \A t \in l.targets[p] \cap l.targets[q] : t \in l.refill[p] <=> t \in l.refill[q]

\* The validated relation is still the one, and a created one is nobody's but its creator's.
SameRelation ==
    \A p \in Publishers : Running(p) =>
        \A t \in Tables :
            /\ checked[p][t] # None => live[t].id = checked[p][t]
            /\ t \in created[p] => live[t] = None

NoVictims == AllExisted => \A p \in Publishers : outcome[p] \notin {"deadlock", "conflict"}

\* With every target in place, sorted order is enough for any number of publications.
ExistingTargetsSuffice ==
    AllExisted =>
        /\ NoPublisherCycle
        /\ \A p \in Publishers : /\ outcome[p] \notin {"deadlock", "conflict"}
                                 /\ locks[p] # {} /\ Blockers(p) # {} => Timed(p)

\* A non-empty finite set of numbers has a greatest member.
LEMMA FiniteHasMax ==
    ASSUME NEW S \in SUBSET Nat, IsFiniteSet(S), S # {}
    PROVE  \E m \in S : \A n \in S : n <= m
<1> DEFINE Unbounded ==
             {U \in FiniteSubsetsOf(S) : U # {} /\ ~ \E m \in U : \A n \in U : n <= m}
<1> SUFFICES ASSUME Unbounded # {} PROVE FALSE
  BY DEF FiniteSubsetsOf
<1>1. PICK U \in Unbounded : \A V \in Unbounded : <<V, U>> \notin StrictSubsetOrdering(S)
  <2>1. Unbounded \subseteq FiniteSubsetsOf(S)
    OBVIOUS
  <2>2. IsWellFoundedOn(StrictSubsetOrdering(S), FiniteSubsetsOf(S))
    BY FS_StrictSubsetOrderingWellFounded
  <2> HIDE DEF Unbounded
  <2>3. QED
    BY <2>1, <2>2, WFMin
<1>2. PICK x \in U : TRUE
  OBVIOUS
<1>3. IsFiniteSet(U \ {x}) /\ U \ {x} \subseteq S /\ U \subseteq Nat
  BY <1>2, FS_RemoveElement DEF FiniteSubsetsOf
<1>4. U \ {x} \notin Unbounded
  BY <1>1, <1>2, <1>3 DEF StrictSubsetOrdering, FiniteSubsetsOf
<1>5. U \ {x} # {}
  BY <1>2, <1>3
<1>6. PICK m \in U \ {x} : \A n \in U \ {x} : n <= m
  BY <1>3, <1>4, <1>5 DEF FiniteSubsetsOf
<1>7. (IF x <= m THEN m ELSE x) \in U /\ \A n \in U : n <= (IF x <= m THEN m ELSE x)
  BY <1>2, <1>3, <1>6
<1>8. QED
  BY <1>7

-----------------------------------------------------------------------------
(* The parts of two actions, and facts about the parameters.               *)

Failures == {"busy", "conflict", "deadlock", "failed"}

\* Claim() that creates or renames.
Claimed(p) ==
    /\ naming[p] # None
    /\ live[naming[p]] = None \/ naming[p] \in locks[p]
    /\ Claimants(p, naming[p]) = {}
    /\ claims' = [claims EXCEPT ![p] = @ \cup {naming[p]}]
    /\ created' = [created EXCEPT ![p] =
           IF pc[p] = "preflight" THEN @ \cup {naming[p]} ELSE @]
    /\ todo' = [todo EXCEPT ![p] = @ \ {naming[p]}]
    /\ naming' = [naming EXCEPT ![p] = None]
    /\ UNCHANGED <<layout, live, locks, pc, checked, found, attempt, outcome, wants>>

\* LockTimeout() that is retried.
Again(p) ==
    /\ pc[p] = "lock" /\ attempt[p] < max_attempts
    /\ RolledBack(p)
    /\ pc' = [pc EXCEPT ![p] = "preflight"]
    /\ todo' = [todo EXCEPT ![p] = Refill(p)]
    /\ attempt' = [attempt EXCEPT ![p] = @ + 1]
    /\ UNCHANGED outcome

\* The targets of a publication are tables.
LEMMA TargetsAreTables ==
    ASSUME TypeOK, NEW p \in Publishers
    PROVE  /\ layout.targets[p] \subseteq Tables
           /\ Refill(p) \subseteq Targets(p) /\ Targets(p) \subseteq Tables
<1>1. layout \in Layout
  BY LocksAssumption DEF TypeOK
<1>2. QED
  BY <1>1 DEF Layout, Targets, Refill

\* Who waits has not ended; so it is with the victims of the deadlock detector.
LEMMA VictimsRun ==
    ASSUME TypeOK, Loops, NEW p \in Publishers
    PROVE  /\ Blockers(p) # {} => Running(p)
           /\ Victim(p) => Blockers(p) # {}
<1>1. p \notin Readers
  BY LocksAssumption
<1>2. Blockers(p) # {} => Running(p)
  BY <1>1 DEF Blockers, Locking, Dropping, Loops, LoopOf, Running
<1>3. Victim(p) => Blockers(p) # {}
  BY DEF Victim, Deadlock
<1>4. QED
  BY <1>2, <1>3

\* The tables a publication refills at its commit are there.
LEMMA RefilledAreTables ==
    ASSUME TypeOK, Prepared, NEW p \in Publishers, pc[p] = "swap", todo[p] = {}
    PROVE  \A t \in Refill(p) \ created[p] : live[t] # None /\ live[t] \in Table
<1>1. \A t \in Refill(p) \ created[p] : live[t] # None
  BY TargetsAreTables DEF Prepared, Running
<1>2. QED
  BY <1>1, TargetsAreTables DEF TypeOK, Relations

\* Every step keeps the types.
LEMMA TypeStep == TypeOK /\ Loops /\ Prepared /\ [Next]_vars => TypeOK'
<1> SUFFICES ASSUME TypeOK, Loops, Prepared, [Next]_vars PROVE TypeOK'
  OBVIOUS
<1> USE LocksAssumption DEF server, publisher, vars, RolledBack, TypeOK, Phases,
        Outcomes, Actors, Unchecked, IsNext, Locking, Targets, Refill, ToLookUp
<1>1. ASSUME NEW p \in Publishers, Running(p), NEW o \in Failures, Gives(p, o)
      PROVE  TypeOK'
  BY <1>1 DEF Gives, Failures
<1>2. ASSUME NEW p \in Publishers, Claim(p) PROVE TypeOK'
  <2>1. CASE Gives(p, "conflict")
    BY <1>1, <1>2, <2>1 DEF Failures, Claim, Loops, LoopOf
  <2>2. CASE Claimed(p)
    BY <2>2 DEF Claimed
  <2>3. QED
    BY <1>2, <2>1, <2>2 DEF Claim, Claimed
<1>3. ASSUME NEW p \in Publishers, LockTimeout(p) PROVE TypeOK'
  <2>1. CASE Gives(p, "busy")
    BY <1>1, <1>3, <2>1 DEF Failures, LockTimeout, Locking, Running
  <2>2. CASE Again(p)
    BY <2>2, TargetsAreTables DEF Again, RolledBack
  <2>3. QED
    BY <1>3, <2>1, <2>2 DEF LockTimeout, Again
<1>4. ASSUME NEW p \in Publishers, DeadlockDetected(p) PROVE TypeOK'
  BY <1>1, <1>4, VictimsRun DEF DeadlockDetected, Failures
<1>5. ASSUME NEW p \in Publishers, Fails(p) PROVE TypeOK'
  BY <1>1, <1>5 DEF Fails, Failures, Running
<1>6. ASSUME NEW p \in Publishers, NEW t \in Tables, Validate(p, t) PROVE TypeOK'
  <2>1. live[t] \in Table /\ live[t].id \in Authors
    BY <1>6 DEF Validate, Relations, Table
  <2>2. checked' \in [Publishers -> [Tables -> Authors \cup {None}]]
    BY <1>6, <2>1 DEF Validate
  <2>3. QED
    BY <1>6, <2>2 DEF Validate
<1>7. ASSUME NEW p \in Publishers, NEW t \in Tables, FindAbsent(p, t) PROVE TypeOK'
  BY <1>7 DEF FindAbsent
<1>8. ASSUME NEW p \in Publishers, NEW t \in Tables, LookUp(p, t) PROVE TypeOK'
  BY <1>8 DEF LookUp
<1>9. ASSUME NEW p \in Publishers, NEW t \in Tables, LockGranted(p, t) PROVE TypeOK'
  BY <1>9 DEF LockGranted
<1>10. ASSUME NEW p \in Publishers, NEW t \in Tables, RefillTarget(p, t) PROVE TypeOK'
  BY <1>10 DEF RefillTarget
<1>11. ASSUME NEW p \in Publishers, NEW t \in Tables, Drop(p, t) PROVE TypeOK'
  <2>1. p \in Actors
    OBVIOUS
  <2>2. UNCHANGED locks \/ locks' = [locks EXCEPT ![p] = @ \cup {t}]
    BY <1>11 DEF Drop
  <2>2a. locks' \in [Actors -> SUBSET Tables]
    <3>1. CASE UNCHANGED locks
      BY <3>1
    <3>2. CASE locks' = [locks EXCEPT ![p] = @ \cup {t}]
      BY <2>1, <3>2
    <3>3. QED
      BY <2>2, <3>1, <3>2
  <2>3. naming' \in [Publishers -> Tables \cup {None}]
    BY <1>11 DEF Drop
  <2>4. QED
    BY <1>11, <2>2, <2>3 DEF Drop
<1>12. ASSUME NEW p \in Publishers, BeginLookUp(p) PROVE TypeOK'
  BY <1>12, TargetsAreTables DEF BeginLookUp
<1>13. ASSUME NEW p \in Publishers, BeginLock(p) PROVE TypeOK'
  BY <1>13 DEF BeginLock
<1>14. ASSUME NEW p \in Publishers, BeginSwap(p) PROVE TypeOK'
  BY <1>14, TargetsAreTables DEF BeginSwap
<1>15. ASSUME NEW p \in Publishers, Commit(p) PROVE TypeOK'
  <2>1. \A t \in Refill(p) \ created[p] : live[t] \in Table
    BY <1>15, RefilledAreTables DEF Commit
  <2>2. \A t \in Tables : Committed(p)[t] \in Relations
    BY <2>1 DEF Committed, Relations, Table, Authors
  <2>3. live' \in [Tables -> Relations]
    BY <1>15, <2>2 DEF Commit, Committed
  <2>4. QED
    BY <1>15, <2>3 DEF Commit
<1>16. ASSUME NEW r \in Readers, Read(r) PROVE TypeOK'
  BY <1>16 DEF Read
<1>17. ASSUME NEW r \in Readers, EndRead(r) PROVE TypeOK'
  BY <1>17 DEF EndRead
<1>18. ASSUME NEW r \in Readers, NEW t \in Tables, Ask(r, t) PROVE TypeOK'
  BY <1>18 DEF Ask
<1>19. CASE UNCHANGED vars  BY <1>19 DEF server, publisher, vars
<1>20. QED
  BY <1>2, <1>3, <1>4, <1>5, <1>6, <1>7, <1>8, <1>9, <1>10, <1>11, <1>12, <1>13, <1>14,
     <1>15, <1>16, <1>17, <1>18, <1>19 DEF Next, Statement

\* Every loop has done what its phase says.
LEMMA LoopsStep == TypeOK /\ Loops /\ [Next]_vars => Loops'
<1> SUFFICES ASSUME TypeOK, Loops, [Next]_vars PROVE Loops'
  OBVIOUS
<1> USE LocksAssumption DEF server, publisher, vars, RolledBack, TypeOK, Phases,
        Outcomes, Actors, Unchecked, IsNext, Locking, Targets, Refill, ToLookUp, Loops,
        LoopOf, Running
<1>1. ASSUME NEW p \in Publishers, Running(p), NEW o \in Failures, Gives(p, o)
      PROVE  Loops'
  <2>1. \A q \in Publishers \ {p} :
          /\ pc'[q] = pc[q] /\ outcome'[q] = outcome[q] /\ todo'[q] = todo[q]
          /\ locks'[q] = locks[q] /\ claims'[q] = claims[q] /\ naming'[q] = naming[q]
          /\ created'[q] = created[q] /\ found'[q] = found[q]
    BY <1>1 DEF Gives
  <2>2. /\ pc'[p] = "done" /\ outcome'[p] # "running"
        /\ locks'[p] = {} /\ claims'[p] = {} /\ naming'[p] = None
    BY <1>1 DEF Gives, Failures
  <2>3. layout' = layout
    BY <1>1 DEF Gives
  <2>4. LoopOf(p)'
    BY <2>2, <2>3
  <2>5. ASSUME NEW q \in Publishers \ {p} PROVE LoopOf(q)'
    BY <2>1, <2>3, LoopOf(q), ZenonT(30)
  <2>6. QED
    BY <2>4, <2>5
<1>2. ASSUME NEW p \in Publishers, Claim(p) PROVE Loops'
  <2>1. CASE Gives(p, "conflict")
    BY <1>1, <1>2, <2>1 DEF Failures, Claim, Loops, LoopOf
  <2>2. CASE Claimed(p)
    <3>1. \A q \in Publishers \ {p} :
            /\ claims'[q] = claims[q] /\ created'[q] = created[q]
            /\ todo'[q] = todo[q] /\ naming'[q] = naming[q]
      BY <2>2 DEF Claimed
    <3>2. /\ claims'[p] = claims[p] \cup {naming[p]}
          /\ created'[p] =
                 IF pc[p] = "preflight" THEN created[p] \cup {naming[p]} ELSE created[p]
          /\ todo'[p] = todo[p] \ {naming[p]} /\ naming'[p] = None
      BY <2>2 DEF Claimed
    <3>3. /\ naming[p] # None /\ IsNext(p, naming[p])
          /\ UNCHANGED <<layout, locks, pc, found, outcome>>
      BY <2>2 DEF Claimed
    <3>4. LoopOf(p)'
      <4>1. pc[p] \in {"preflight", "swap"} /\ naming[p] \in todo[p]
        BY <3>3
      <4>2. pc[p] = "preflight" => naming[p] \in Refill(p)
        BY <4>1
      <4>3. CASE pc[p] = "preflight"
        BY <3>2, <3>3, <4>1, <4>2, <4>3, LoopOf(p), TargetsAreTables
      <4>4. CASE pc[p] = "swap"
        BY <3>2, <3>3, <4>1, <4>4, LoopOf(p), TargetsAreTables
      <4>5. QED
        BY <4>1, <4>3, <4>4
    <3>5. ASSUME NEW q \in Publishers \ {p} PROVE LoopOf(q)'
      BY <3>1, <3>3, LoopOf(q)
    <3>6. QED
      BY <3>4, <3>5
  <2>3. QED
    BY <1>2, <2>1, <2>2 DEF Claim, Claimed
<1>3. ASSUME NEW p \in Publishers, LockTimeout(p) PROVE Loops'
  <2>1. CASE Gives(p, "busy")
    BY <1>1, <1>3, <2>1 DEF Failures, LockTimeout, Locking, Running
  <2>2. CASE Again(p)
    BY <2>2 DEF Again
  <2>3. QED
    BY <1>3, <2>1, <2>2 DEF LockTimeout, Again
<1>4. ASSUME NEW p \in Publishers, DeadlockDetected(p) PROVE Loops'
  BY <1>1, <1>4, VictimsRun DEF DeadlockDetected, Failures
<1>5. ASSUME NEW p \in Publishers, Fails(p) PROVE Loops'
  BY <1>1, <1>5 DEF Fails, Failures, Running
<1>6. ASSUME NEW p \in Publishers, NEW t \in Tables, Validate(p, t) PROVE Loops'
  BY <1>6 DEF Validate
<1>7. ASSUME NEW p \in Publishers, NEW t \in Tables, FindAbsent(p, t) PROVE Loops'
  BY <1>7 DEF FindAbsent
<1>8. ASSUME NEW p \in Publishers, NEW t \in Tables, LookUp(p, t) PROVE Loops'
  BY <1>8 DEF LookUp
<1>9. ASSUME NEW p \in Publishers, NEW t \in Tables, LockGranted(p, t) PROVE Loops'
  BY <1>9 DEF LockGranted
<1>10. ASSUME NEW p \in Publishers, NEW t \in Tables, RefillTarget(p, t) PROVE Loops'
  BY <1>10 DEF RefillTarget
<1>11. ASSUME NEW p \in Publishers, NEW t \in Tables, Drop(p, t) PROVE Loops'
  BY <1>11 DEF Drop
<1>12. ASSUME NEW p \in Publishers, BeginLookUp(p) PROVE Loops'
  BY <1>12, TargetsAreTables DEF BeginLookUp
<1>13. ASSUME NEW p \in Publishers, BeginLock(p) PROVE Loops'
  BY <1>13 DEF BeginLock
<1>14. ASSUME NEW p \in Publishers, BeginSwap(p) PROVE Loops'
  BY <1>14, TargetsAreTables DEF BeginSwap
<1>15. ASSUME NEW p \in Publishers, Commit(p) PROVE Loops'
  BY <1>15 DEF Commit
<1>16. ASSUME NEW r \in Readers, Read(r) PROVE Loops'
  BY <1>16 DEF Read
<1>17. ASSUME NEW r \in Readers, EndRead(r) PROVE Loops'
  BY <1>17 DEF EndRead
<1>18. ASSUME NEW r \in Readers, NEW t \in Tables, Ask(r, t) PROVE Loops'
  BY <1>18 DEF Ask
<1>19. CASE UNCHANGED vars  BY <1>19 DEF server, publisher, vars
<1>20. QED
  BY <1>2, <1>3, <1>4, <1>5, <1>6, <1>7, <1>8, <1>9, <1>10, <1>11, <1>12, <1>13, <1>14,
     <1>15, <1>16, <1>17, <1>18, <1>19 DEF Next, Statement

\* The loops go upwards.
LEMMA AscendingStep == TypeOK /\ Loops /\ Ascending /\ [Next]_vars => Ascending'
<1> SUFFICES ASSUME TypeOK, Loops, Ascending, [Next]_vars PROVE Ascending'
  OBVIOUS
<1> USE LocksAssumption DEF server, publisher, vars, RolledBack, TypeOK, Phases,
        Outcomes, Actors, Unchecked, IsNext, Locking, Targets, Refill, ToLookUp,
        Ascending, Running
<1>1. ASSUME NEW p \in Publishers, Running(p), NEW o \in Failures, Gives(p, o)
      PROVE  Ascending'
  BY <1>1 DEF Gives, Failures
<1>2. ASSUME NEW p \in Publishers, Claim(p) PROVE Ascending'
  <2>1. CASE Gives(p, "conflict")
    BY <1>1, <1>2, <2>1 DEF Failures, Claim, Loops, LoopOf
  <2>2. CASE Claimed(p)
    <3>1. \A q \in Publishers \ {p} :
            claims'[q] = claims[q] /\ created'[q] = created[q] /\ todo'[q] = todo[q]
      BY <2>2 DEF Claimed
    <3>2. /\ claims'[p] = claims[p] \cup {naming[p]}
          /\ created'[p] =
                 IF pc[p] = "preflight" THEN created[p] \cup {naming[p]} ELSE created[p]
          /\ todo'[p] = todo[p] \ {naming[p]}
          /\ UNCHANGED <<pc, locks>>
      BY <2>2 DEF Claimed
    <3>3. naming[p] \in Nat /\ \A u \in todo[p] : u \in Nat /\ naming[p] <= u
      BY <2>2 DEF Claimed, Loops, LoopOf
    <3>4. \A u \in todo'[p] : naming[p] < u
      <4>1. \A u \in todo'[p] : u \in todo[p] /\ u # naming[p]
        BY <3>2
      <4>2. \A u \in todo'[p] : u \in Nat /\ naming[p] <= u /\ u # naming[p]
        BY <3>3, <4>1
      <4>3. \A m, u \in Nat : m <= u /\ u # m => m < u
        OBVIOUS
      <4>4. QED
        BY <3>3, <4>2, <4>3
    <3>5. pc[p] \in {"preflight", "look", "lock"} => claims[p] = created[p]
      BY DEF Loops, LoopOf
    <3>6. /\ pc[p] = "preflight" => \A c \in created'[p], u \in todo'[p] : c < u
          /\ pc[p] = "lock" => \A l \in locks[p], u \in todo'[p] : l < u
          /\ pc[p] = "swap" => \A c \in claims'[p] \ created'[p], u \in todo'[p] : c < u
      <4>1. CASE pc[p] = "preflight"
        <5>1. created'[p] = created[p] \cup {naming[p]} /\ todo'[p] \subseteq todo[p]
          BY <3>2, <4>1
        <5>2. \A c \in created[p], u \in todo[p] : c < u
          BY <4>1
        <5>3. ASSUME NEW c \in created'[p], NEW u \in todo'[p] PROVE c < u
          <6>1. CASE c = naming[p]
            BY <3>4, <6>1
          <6>2. CASE c \in created[p]
            BY <5>1, <5>2, <6>2
          <6>3. QED
            BY <5>1, <6>1, <6>2
        <5>4. QED
          BY <4>1, <5>3
      <4>2. CASE pc[p] = "lock"
        BY <3>2, <4>2
      <4>3. CASE pc[p] = "swap"
        BY <3>2, <3>4, <4>3, ZenonT(30)
      <4>4. QED
        BY <4>1, <4>2, <4>3
    <3>7. QED
      BY <3>1, <3>2, <3>6
  <2>3. QED
    BY <1>2, <2>1, <2>2 DEF Claim, Claimed
<1>3. ASSUME NEW p \in Publishers, LockTimeout(p) PROVE Ascending'
  <2>1. CASE Gives(p, "busy")
    BY <1>1, <1>3, <2>1 DEF Failures, LockTimeout, Locking, Running
  <2>2. CASE Again(p)
    BY <2>2 DEF Again
  <2>3. QED
    BY <1>3, <2>1, <2>2 DEF LockTimeout, Again
<1>4. ASSUME NEW p \in Publishers, DeadlockDetected(p) PROVE Ascending'
  BY <1>1, <1>4, VictimsRun DEF DeadlockDetected, Failures
<1>5. ASSUME NEW p \in Publishers, Fails(p) PROVE Ascending'
  BY <1>1, <1>5 DEF Fails, Failures, Running
<1>6. ASSUME NEW p \in Publishers, NEW t \in Tables, Validate(p, t) PROVE Ascending'
  BY <1>6 DEF Validate
<1>7. ASSUME NEW p \in Publishers, NEW t \in Tables, FindAbsent(p, t) PROVE Ascending'
  BY <1>7 DEF FindAbsent
<1>8. ASSUME NEW p \in Publishers, NEW t \in Tables, LookUp(p, t) PROVE Ascending'
  BY <1>8 DEF LookUp
<1>9. ASSUME NEW p \in Publishers, NEW t \in Tables, LockGranted(p, t) PROVE Ascending'
  BY <1>9 DEF LockGranted
<1>10. ASSUME NEW p \in Publishers, NEW t \in Tables, RefillTarget(p, t) PROVE Ascending'
  BY <1>10 DEF RefillTarget
<1>11. ASSUME NEW p \in Publishers, NEW t \in Tables, Drop(p, t) PROVE Ascending'
  BY <1>11 DEF Drop
<1>12. ASSUME NEW p \in Publishers, BeginLookUp(p) PROVE Ascending'
  BY <1>12 DEF BeginLookUp
<1>13. ASSUME NEW p \in Publishers, BeginLock(p) PROVE Ascending'
  BY <1>13 DEF BeginLock, Loops, LoopOf
<1>14. ASSUME NEW p \in Publishers, BeginSwap(p) PROVE Ascending'
  <2>1. claims[p] = created[p]
    BY <1>14 DEF BeginSwap, Loops, LoopOf
  <2>2. \A q \in Publishers \ {p} : pc'[q] = pc[q] /\ todo'[q] = todo[q]
    BY <1>14 DEF BeginSwap
  <2>3. pc'[p] = "swap" /\ UNCHANGED <<created, claims, locks>>
    BY <1>14 DEF BeginSwap
  <2>4. QED
    BY <2>1, <2>2, <2>3
<1>15. ASSUME NEW p \in Publishers, Commit(p) PROVE Ascending'
  BY <1>15 DEF Commit
<1>16. ASSUME NEW r \in Readers, Read(r) PROVE Ascending'
  BY <1>16 DEF Read
<1>17. ASSUME NEW r \in Readers, EndRead(r) PROVE Ascending'
  BY <1>17 DEF EndRead
<1>18. ASSUME NEW r \in Readers, NEW t \in Tables, Ask(r, t) PROVE Ascending'
  BY <1>18 DEF Ask
<1>19. CASE UNCHANGED vars  BY <1>19 DEF server, publisher, vars
<1>20. QED
  BY <1>2, <1>3, <1>4, <1>5, <1>6, <1>7, <1>8, <1>9, <1>10, <1>11, <1>12, <1>13, <1>14,
     <1>15, <1>16, <1>17, <1>18, <1>19 DEF Next, Statement

\* A name is claimed once.
LEMMA ExclusiveStep == TypeOK /\ Loops /\ Exclusive /\ [Next]_vars => Exclusive'
<1> SUFFICES ASSUME TypeOK, Loops, Exclusive, [Next]_vars PROVE Exclusive'
  OBVIOUS
<1> USE LocksAssumption DEF server, publisher, vars, RolledBack, TypeOK, Phases,
        Outcomes, Actors, Unchecked, IsNext, Locking, Targets, Refill, ToLookUp,
        Exclusive, Claimants, Running
<1>1. ASSUME NEW p \in Publishers, Running(p), NEW o \in Failures, Gives(p, o)
      PROVE  Exclusive'
  BY <1>1 DEF Gives, Failures
<1>2. ASSUME NEW p \in Publishers, Claim(p) PROVE Exclusive'
  <2>1. CASE Gives(p, "conflict")
    BY <1>1, <1>2, <2>1 DEF Failures, Claim, Loops, LoopOf
  <2>2. CASE Claimed(p)
    BY <2>2 DEF Claimed
  <2>3. QED
    BY <1>2, <2>1, <2>2 DEF Claim, Claimed
<1>3. ASSUME NEW p \in Publishers, LockTimeout(p) PROVE Exclusive'
  <2>1. CASE Gives(p, "busy")
    BY <1>1, <1>3, <2>1 DEF Failures, LockTimeout, Locking, Running
  <2>2. CASE Again(p)
    BY <2>2 DEF Again
  <2>3. QED
    BY <1>3, <2>1, <2>2 DEF LockTimeout, Again
<1>4. ASSUME NEW p \in Publishers, DeadlockDetected(p) PROVE Exclusive'
  BY <1>1, <1>4, VictimsRun DEF DeadlockDetected, Failures
<1>5. ASSUME NEW p \in Publishers, Fails(p) PROVE Exclusive'
  BY <1>1, <1>5 DEF Fails, Failures, Running
<1>6. ASSUME NEW p \in Publishers, NEW t \in Tables, Validate(p, t) PROVE Exclusive'
  BY <1>6 DEF Validate
<1>7. ASSUME NEW p \in Publishers, NEW t \in Tables, FindAbsent(p, t) PROVE Exclusive'
  BY <1>7 DEF FindAbsent
<1>8. ASSUME NEW p \in Publishers, NEW t \in Tables, LookUp(p, t) PROVE Exclusive'
  BY <1>8 DEF LookUp
<1>9. ASSUME NEW p \in Publishers, NEW t \in Tables, LockGranted(p, t) PROVE Exclusive'
  BY <1>9 DEF LockGranted
<1>10. ASSUME NEW p \in Publishers, NEW t \in Tables, RefillTarget(p, t) PROVE Exclusive'
  BY <1>10 DEF RefillTarget
<1>11. ASSUME NEW p \in Publishers, NEW t \in Tables, Drop(p, t) PROVE Exclusive'
  BY <1>11 DEF Drop
<1>12. ASSUME NEW p \in Publishers, BeginLookUp(p) PROVE Exclusive'
  BY <1>12 DEF BeginLookUp
<1>13. ASSUME NEW p \in Publishers, BeginLock(p) PROVE Exclusive'
  BY <1>13 DEF BeginLock
<1>14. ASSUME NEW p \in Publishers, BeginSwap(p) PROVE Exclusive'
  BY <1>14 DEF BeginSwap
<1>15. ASSUME NEW p \in Publishers, Commit(p) PROVE Exclusive'
  BY <1>15 DEF Commit
<1>16. ASSUME NEW r \in Readers, Read(r) PROVE Exclusive'
  BY <1>16 DEF Read
<1>17. ASSUME NEW r \in Readers, EndRead(r) PROVE Exclusive'
  BY <1>17 DEF EndRead
<1>18. ASSUME NEW r \in Readers, NEW t \in Tables, Ask(r, t) PROVE Exclusive'
  BY <1>18 DEF Ask
<1>19. CASE UNCHANGED vars  BY <1>19 DEF server, publisher, vars
<1>20. QED
  BY <1>2, <1>3, <1>4, <1>5, <1>6, <1>7, <1>8, <1>9, <1>10, <1>11, <1>12, <1>13, <1>14,
     <1>15, <1>16, <1>17, <1>18, <1>19 DEF Next, Statement

\* A commit leaves a relation where one was, and makes one for its targets only.
LEMMA CommitKeeps ==
    ASSUME TypeOK, Prepared, NEW p \in Publishers, Commit(p), NEW t \in Tables
    PROVE  /\ live[t] # None => live'[t] # None
           /\ t \notin Targets(p) => live'[t] = live[t]
<1> USE DEF Commit
<1>1. live'[t] = Committed(p)[t]
  OBVIOUS
<1>2. CASE t \notin Targets(p)
  BY <1>1, <1>2 DEF Committed
<1>3. CASE t \in Refill(p) \ created[p]
  <2>1. live[t] \in Table
    BY <1>3, RefilledAreTables
  <2>2. live'[t] = [live[t] EXCEPT !.rows = p] /\ t \in Targets(p)
    BY <1>1, <1>3, TargetsAreTables DEF Committed
  <2>3. live'[t] \in Table
    BY <2>1, <2>2 DEF Table, Authors
  <2>4. QED
    BY <2>2, <2>3, LocksAssumption
<1>4. CASE t \in Targets(p) /\ t \notin Refill(p) \ created[p]
  <2>1. live'[t] = [id |-> p, rows |-> p]
    BY <1>1, <1>4 DEF Committed
  <2>2. live'[t] \in Table
    BY <2>1 DEF Table, Authors
  <2>3. QED
    BY <1>4, <2>2, LocksAssumption
<1>5. QED
  BY <1>2, <1>3, <1>4

\* What is validated or created before the locks.
LEMMA PreparedStep == TypeOK /\ Loops /\ Prepared /\ [Next]_vars => Prepared'
<1> SUFFICES ASSUME TypeOK, Loops, Prepared, [Next]_vars PROVE Prepared'
  OBVIOUS
<1> USE LocksAssumption DEF server, publisher, vars, RolledBack, TypeOK, Phases,
        Outcomes, Actors, Unchecked, IsNext, Locking, Targets, Refill, ToLookUp,
        Prepared, Running
<1>1. ASSUME NEW p \in Publishers, Running(p), NEW o \in Failures, Gives(p, o)
      PROVE  Prepared'
  BY <1>1 DEF Gives, Failures
<1>2. ASSUME NEW p \in Publishers, Claim(p) PROVE Prepared'
  <2>1. CASE Gives(p, "conflict")
    BY <1>1, <1>2, <2>1 DEF Failures, Claim, Loops, LoopOf
  <2>2. CASE Claimed(p)
    BY <2>2 DEF Claimed
  <2>3. QED
    BY <1>2, <2>1, <2>2 DEF Claim, Claimed
<1>3. ASSUME NEW p \in Publishers, LockTimeout(p) PROVE Prepared'
  <2>1. CASE Gives(p, "busy")
    BY <1>1, <1>3, <2>1 DEF Failures, LockTimeout, Locking, Running
  <2>2. CASE Again(p)
    BY <2>2 DEF Again
  <2>3. QED
    BY <1>3, <2>1, <2>2 DEF LockTimeout, Again
<1>4. ASSUME NEW p \in Publishers, DeadlockDetected(p) PROVE Prepared'
  BY <1>1, <1>4, VictimsRun DEF DeadlockDetected, Failures
<1>5. ASSUME NEW p \in Publishers, Fails(p) PROVE Prepared'
  BY <1>1, <1>5 DEF Fails, Failures, Running
<1>6. ASSUME NEW p \in Publishers, NEW t \in Tables, Validate(p, t) PROVE Prepared'
  <2>1. /\ live[t] # None /\ t \in todo[p] /\ t \in Refill(p)
        /\ pc[p] = "preflight"
    BY <1>6 DEF Validate, Loops, LoopOf
  <2>2. live[t].id # None
    <3>1. live[t] \in Table
      BY <2>1 DEF Relations
    <3>2. live[t].id \in Authors
      BY <3>1 DEF Table
    <3>3. QED
      BY <3>2
  <2>3. /\ \A q \in Publishers \ {p} : checked'[q] = checked[q] /\ todo'[q] = todo[q]
        /\ \A u \in Tables \ {t} : checked'[p][u] = checked[p][u]
        /\ checked'[p][t] = live[t].id
        /\ todo'[p] = todo[p] \ {t}
    BY <1>6 DEF Validate
  <2>4. UNCHANGED <<layout, live, pc, created>>
    BY <1>6 DEF Validate
  <2>5. ASSUME NEW q \in Publishers, Running(q), NEW u \in Tables
        PROVE  /\ checked'[q][u] # None => u \in Refill(q) /\ live[u] # None
               /\ u \in Refill(q) => \/ pc[q] = "preflight" /\ u \in todo'[q]
                                     \/ checked'[q][u] # None
                                     \/ u \in created[q]
    <3>1. CASE q = p /\ u = t
      BY <2>1, <2>2, <2>3, <3>1
    <3>2. CASE q = p /\ u # t
      BY <2>3, <2>5, <3>2
    <3>3. CASE q # p
      BY <2>3, <2>5, <3>3
    <3>4. QED
      BY <3>1, <3>2, <3>3
  <2>6. QED
    BY <2>4, <2>5
<1>7. ASSUME NEW p \in Publishers, NEW t \in Tables, FindAbsent(p, t) PROVE Prepared'
  BY <1>7 DEF FindAbsent
<1>8. ASSUME NEW p \in Publishers, NEW t \in Tables, LookUp(p, t) PROVE Prepared'
  BY <1>8 DEF LookUp
<1>9. ASSUME NEW p \in Publishers, NEW t \in Tables, LockGranted(p, t) PROVE Prepared'
  BY <1>9 DEF LockGranted
<1>10. ASSUME NEW p \in Publishers, NEW t \in Tables, RefillTarget(p, t) PROVE Prepared'
  BY <1>10 DEF RefillTarget
<1>11. ASSUME NEW p \in Publishers, NEW t \in Tables, Drop(p, t) PROVE Prepared'
  BY <1>11 DEF Drop
<1>12. ASSUME NEW p \in Publishers, BeginLookUp(p) PROVE Prepared'
  BY <1>12 DEF BeginLookUp
<1>13. ASSUME NEW p \in Publishers, BeginLock(p) PROVE Prepared'
  BY <1>13 DEF BeginLock
<1>14. ASSUME NEW p \in Publishers, BeginSwap(p) PROVE Prepared'
  BY <1>14 DEF BeginSwap
<1>15. ASSUME NEW p \in Publishers, Commit(p) PROVE Prepared'
  <2>1. \A t \in Tables : live[t] # None => live'[t] # None
    BY <1>15, CommitKeeps
  <2>2. /\ pc' = [pc EXCEPT ![p] = "done"]
        /\ UNCHANGED <<layout, todo, checked, created>>
    BY <1>15 DEF Commit
  <2>3. QED
    BY <2>1, <2>2
<1>16. ASSUME NEW r \in Readers, Read(r) PROVE Prepared'
  BY <1>16 DEF Read
<1>17. ASSUME NEW r \in Readers, EndRead(r) PROVE Prepared'
  BY <1>17 DEF EndRead
<1>18. ASSUME NEW r \in Readers, NEW t \in Tables, Ask(r, t) PROVE Prepared'
  BY <1>18 DEF Ask
<1>19. CASE UNCHANGED vars  BY <1>19 DEF server, publisher, vars
<1>20. QED
  BY <1>2, <1>3, <1>4, <1>5, <1>6, <1>7, <1>8, <1>9, <1>10, <1>11, <1>12, <1>13, <1>14,
     <1>15, <1>16, <1>17, <1>18, <1>19 DEF Next, Statement

\* Tables stay.
LEMMA ExistingStep == TypeOK /\ Loops /\ Prepared /\ Existing /\ [Next]_vars => Existing'
<1> SUFFICES ASSUME TypeOK, Loops, Prepared, Existing, [Next]_vars PROVE Existing'
  OBVIOUS
<1> USE LocksAssumption DEF server, publisher, vars, RolledBack, TypeOK, Phases,
        Outcomes, Actors, Unchecked, IsNext, Locking, Targets, Refill, ToLookUp,
        Existing, Running
<1>1. ASSUME NEW p \in Publishers, Running(p), NEW o \in Failures, Gives(p, o)
      PROVE  Existing'
  BY <1>1 DEF Gives, Failures
<1>2. ASSUME NEW p \in Publishers, Claim(p) PROVE Existing'
  <2>1. CASE Gives(p, "conflict")
    BY <1>1, <1>2, <2>1 DEF Failures, Claim, Loops, LoopOf
  <2>2. CASE Claimed(p)
    BY <2>2 DEF Claimed
  <2>3. QED
    BY <1>2, <2>1, <2>2 DEF Claim, Claimed
<1>3. ASSUME NEW p \in Publishers, LockTimeout(p) PROVE Existing'
  <2>1. CASE Gives(p, "busy")
    BY <1>1, <1>3, <2>1 DEF Failures, LockTimeout, Locking, Running
  <2>2. CASE Again(p)
    BY <2>2 DEF Again
  <2>3. QED
    BY <1>3, <2>1, <2>2 DEF LockTimeout, Again
<1>4. ASSUME NEW p \in Publishers, DeadlockDetected(p) PROVE Existing'
  BY <1>1, <1>4, VictimsRun DEF DeadlockDetected, Failures
<1>5. ASSUME NEW p \in Publishers, Fails(p) PROVE Existing'
  BY <1>1, <1>5 DEF Fails, Failures, Running
<1>6. ASSUME NEW p \in Publishers, NEW t \in Tables, Validate(p, t) PROVE Existing'
  BY <1>6 DEF Validate
<1>7. ASSUME NEW p \in Publishers, NEW t \in Tables, FindAbsent(p, t) PROVE Existing'
  BY <1>7 DEF FindAbsent
<1>8. ASSUME NEW p \in Publishers, NEW t \in Tables, LookUp(p, t) PROVE Existing'
  BY <1>8 DEF LookUp
<1>9. ASSUME NEW p \in Publishers, NEW t \in Tables, LockGranted(p, t) PROVE Existing'
  BY <1>9 DEF LockGranted
<1>10. ASSUME NEW p \in Publishers, NEW t \in Tables, RefillTarget(p, t) PROVE Existing'
  BY <1>10 DEF RefillTarget
<1>11. ASSUME NEW p \in Publishers, NEW t \in Tables, Drop(p, t) PROVE Existing'
  BY <1>11 DEF Drop
<1>12. ASSUME NEW p \in Publishers, BeginLookUp(p) PROVE Existing'
  BY <1>12 DEF BeginLookUp
<1>13. ASSUME NEW p \in Publishers, BeginLock(p) PROVE Existing'
  BY <1>13 DEF BeginLock
<1>14. ASSUME NEW p \in Publishers, BeginSwap(p) PROVE Existing'
  BY <1>14 DEF BeginSwap
<1>15. ASSUME NEW p \in Publishers, Commit(p) PROVE Existing'
  <2>1. \A t \in Tables : live[t] # None => live'[t] # None
    BY <1>15, CommitKeeps
  <2>2. QED
    BY <1>15, <2>1 DEF Commit
<1>16. ASSUME NEW r \in Readers, Read(r) PROVE Existing'
  BY <1>16 DEF Read
<1>17. ASSUME NEW r \in Readers, EndRead(r) PROVE Existing'
  BY <1>17 DEF EndRead
<1>18. ASSUME NEW r \in Readers, NEW t \in Tables, Ask(r, t) PROVE Existing'
  BY <1>18 DEF Ask
<1>19. CASE UNCHANGED vars  BY <1>19 DEF server, publisher, vars
<1>20. QED
  BY <1>2, <1>3, <1>4, <1>5, <1>6, <1>7, <1>8, <1>9, <1>10, <1>11, <1>12, <1>13, <1>14,
     <1>15, <1>16, <1>17, <1>18, <1>19 DEF Next, Statement

\* A table that appears has been published.
LEMMA AppearingStep == TypeOK /\ Loops /\ Appearing /\ [Next]_vars => Appearing'
<1> SUFFICES ASSUME TypeOK, Loops, Appearing, [Next]_vars PROVE Appearing'
  OBVIOUS
<1> USE LocksAssumption DEF server, publisher, vars, RolledBack, TypeOK, Phases,
        Outcomes, Actors, Unchecked, IsNext, Locking, Targets, Refill, ToLookUp,
        Appearing, Running
<1>1. ASSUME NEW p \in Publishers, Running(p), NEW o \in Failures, Gives(p, o)
      PROVE  Appearing'
  <2>1. outcome[p] = "running"
    BY <1>1 DEF Loops, LoopOf
  <2>2. \A q \in Publishers : outcome'[q] # "published" => outcome[q] # "published"
    BY <1>1, <2>1 DEF Gives
  <2>3. UNCHANGED <<layout, live>>
    BY <1>1 DEF Gives
  <2>4. QED
    BY <2>2, <2>3
<1>2. ASSUME NEW p \in Publishers, Claim(p) PROVE Appearing'
  <2>1. CASE Gives(p, "conflict")
    BY <1>1, <1>2, <2>1 DEF Failures, Claim, Loops, LoopOf
  <2>2. CASE Claimed(p)
    BY <2>2 DEF Claimed
  <2>3. QED
    BY <1>2, <2>1, <2>2 DEF Claim, Claimed
<1>3. ASSUME NEW p \in Publishers, LockTimeout(p) PROVE Appearing'
  <2>1. CASE Gives(p, "busy")
    BY <1>1, <1>3, <2>1 DEF Failures, LockTimeout, Locking, Running
  <2>2. CASE Again(p)
    BY <2>2 DEF Again
  <2>3. QED
    BY <1>3, <2>1, <2>2 DEF LockTimeout, Again
<1>4. ASSUME NEW p \in Publishers, DeadlockDetected(p) PROVE Appearing'
  BY <1>1, <1>4, VictimsRun DEF DeadlockDetected, Failures
<1>5. ASSUME NEW p \in Publishers, Fails(p) PROVE Appearing'
  BY <1>1, <1>5 DEF Fails, Failures, Running
<1>6. ASSUME NEW p \in Publishers, NEW t \in Tables, Validate(p, t) PROVE Appearing'
  BY <1>6 DEF Validate
<1>7. ASSUME NEW p \in Publishers, NEW t \in Tables, FindAbsent(p, t) PROVE Appearing'
  BY <1>7 DEF FindAbsent
<1>8. ASSUME NEW p \in Publishers, NEW t \in Tables, LookUp(p, t) PROVE Appearing'
  BY <1>8 DEF LookUp
<1>9. ASSUME NEW p \in Publishers, NEW t \in Tables, LockGranted(p, t) PROVE Appearing'
  BY <1>9 DEF LockGranted
<1>10. ASSUME NEW p \in Publishers, NEW t \in Tables, RefillTarget(p, t) PROVE Appearing'
  BY <1>10 DEF RefillTarget
<1>11. ASSUME NEW p \in Publishers, NEW t \in Tables, Drop(p, t) PROVE Appearing'
  BY <1>11 DEF Drop
<1>12. ASSUME NEW p \in Publishers, BeginLookUp(p) PROVE Appearing'
  BY <1>12 DEF BeginLookUp
<1>13. ASSUME NEW p \in Publishers, BeginLock(p) PROVE Appearing'
  BY <1>13 DEF BeginLock
<1>14. ASSUME NEW p \in Publishers, BeginSwap(p) PROVE Appearing'
  BY <1>14 DEF BeginSwap
<1>15. ASSUME NEW p \in Publishers, Commit(p) PROVE Appearing'
  <2>1. outcome'[p] = "published"
    BY <1>15 DEF Commit
  <2>2. QED
    BY <2>1
<1>16. ASSUME NEW r \in Readers, Read(r) PROVE Appearing'
  BY <1>16 DEF Read
<1>17. ASSUME NEW r \in Readers, EndRead(r) PROVE Appearing'
  BY <1>17 DEF EndRead
<1>18. ASSUME NEW r \in Readers, NEW t \in Tables, Ask(r, t) PROVE Appearing'
  BY <1>18 DEF Ask
<1>19. CASE UNCHANGED vars  BY <1>19 DEF server, publisher, vars
<1>20. QED
  BY <1>2, <1>3, <1>4, <1>5, <1>6, <1>7, <1>8, <1>9, <1>10, <1>11, <1>12, <1>13, <1>14,
     <1>15, <1>16, <1>17, <1>18, <1>19 DEF Next, Statement

\* Existing tables are found.
LEMMA FoundStep == TypeOK /\ Loops /\ Existing /\ Found /\ [Next]_vars => Found'
<1> SUFFICES ASSUME TypeOK, Loops, Existing, Found, [Next]_vars PROVE Found'
  OBVIOUS
<1> USE LocksAssumption DEF server, publisher, vars, RolledBack, TypeOK, Phases,
        Outcomes, Actors, Unchecked, IsNext, Locking, Targets, Refill, ToLookUp, Found,
        Finds, Running
<1>1. ASSUME NEW p \in Publishers, Running(p), NEW o \in Failures, Gives(p, o)
      PROVE  Found'
  <2>1. \A q \in Publishers \ {p} :
          /\ pc'[q] = pc[q] /\ todo'[q] = todo[q] /\ created'[q] = created[q]
          /\ naming'[q] = naming[q] /\ found'[q] = found[q]
    BY <1>1 DEF Gives
  <2>2. pc'[p] = "done" /\ UNCHANGED layout
    BY <1>1 DEF Gives
  <2>3. ASSUME NEW q \in Publishers \ {p}, Running(q) PROVE Finds(q)'
    BY <2>1, <2>2, <2>3, Finds(q)
  <2>4. \A q \in Publishers \ {p} : Running(q)' => Running(q)
    BY <2>1
  <2>5. QED
    BY <2>2, <2>3, <2>4
<1>2. ASSUME NEW p \in Publishers, Claim(p) PROVE Found'
  <2>1. CASE Gives(p, "conflict")
    BY <1>1, <1>2, <2>1 DEF Failures, Claim, Loops, LoopOf
  <2>2. CASE Claimed(p)
    <3>1. \A q \in Publishers \ {p} :
            created'[q] = created[q] /\ todo'[q] = todo[q] /\ naming'[q] = naming[q]
      BY <2>2 DEF Claimed
    <3>2. /\ created'[p] =
           IF pc[p] = "preflight" THEN created[p] \cup {naming[p]} ELSE created[p]
          /\ todo'[p] = todo[p] \ {naming[p]} /\ naming'[p] = None
          /\ UNCHANGED <<layout, live, pc, outcome, found>>
      BY <2>2 DEF Claimed
    <3>3. naming[p] # None /\ naming[p] \in Tables
      BY <2>2 DEF Claimed
    <3>4. pc[p] \notin {"look", "lock"}
      BY <3>3 DEF Loops, LoopOf
    <3>5. pc[p] = "preflight" => naming[p] \notin layout.existing
      BY <3>3
    <3>6. ASSUME Running(p) PROVE Finds(p)'
      BY <3>2, <3>3, <3>4, <3>5, <3>6, Finds(p)
    <3>7. ASSUME NEW q \in Publishers \ {p}, Running(q) PROVE Finds(q)'
      BY <3>1, <3>2, <3>7, Finds(q)
    <3>8. QED
      BY <3>2, <3>6, <3>7
  <2>3. QED
    BY <1>2, <2>1, <2>2 DEF Claim, Claimed
<1>3. ASSUME NEW p \in Publishers, LockTimeout(p) PROVE Found'
  <2>1. CASE Gives(p, "busy")
    BY <1>1, <1>3, <2>1 DEF Failures, LockTimeout, Locking, Running
  <2>2. CASE Again(p)
    <3>1. \A q \in Publishers \ {p} :
            /\ pc'[q] = pc[q] /\ todo'[q] = todo[q] /\ created'[q] = created[q]
            /\ naming'[q] = naming[q] /\ found'[q] = found[q]
      BY <2>2 DEF Again
    <3>2. pc'[p] = "preflight" /\ created'[p] = {} /\ naming'[p] = None
      BY <2>2 DEF Again
    <3>3. UNCHANGED layout
      BY <2>2 DEF Again
    <3>4. Finds(p)'
      BY <2>2, <3>2, <3>3 DEF Existing
    <3>5. ASSUME NEW q \in Publishers \ {p}, Running(q) PROVE Finds(q)'
      BY <3>1, <3>3, <3>5, Finds(q)
    <3>6. \A q \in Publishers \ {p} : Running(q)' => Running(q)
      BY <3>1
    <3>7. QED
      BY <3>4, <3>5, <3>6
  <2>3. QED
    BY <1>3, <2>1, <2>2 DEF LockTimeout, Again
<1>4. ASSUME NEW p \in Publishers, DeadlockDetected(p) PROVE Found'
  BY <1>1, <1>4, VictimsRun DEF DeadlockDetected, Failures
<1>5. ASSUME NEW p \in Publishers, Fails(p) PROVE Found'
  BY <1>1, <1>5 DEF Fails, Failures, Running
<1>6. ASSUME NEW p \in Publishers, NEW t \in Tables, Validate(p, t) PROVE Found'
  BY <1>6 DEF Validate
<1>7. ASSUME NEW p \in Publishers, NEW t \in Tables, FindAbsent(p, t) PROVE Found'
  <2>1. t \notin layout.existing
    BY <1>7 DEF FindAbsent, Existing
  <2>2. \A q \in Publishers \ {p} : naming'[q] = naming[q]
    BY <1>7 DEF FindAbsent
  <2>3. naming'[p] = t /\ UNCHANGED <<layout, pc, todo, created, found>>
    BY <1>7 DEF FindAbsent
  <2>4. QED
    BY <2>1, <2>2, <2>3
<1>8. ASSUME NEW p \in Publishers, NEW t \in Tables, LookUp(p, t) PROVE Found'
  BY <1>8 DEF LookUp, Existing
<1>9. ASSUME NEW p \in Publishers, NEW t \in Tables, LockGranted(p, t) PROVE Found'
  BY <1>9 DEF LockGranted
<1>10. ASSUME NEW p \in Publishers, NEW t \in Tables, RefillTarget(p, t) PROVE Found'
  BY <1>10 DEF RefillTarget
<1>11. ASSUME NEW p \in Publishers, NEW t \in Tables, Drop(p, t) PROVE Found'
  BY <1>11 DEF Drop
<1>12. ASSUME NEW p \in Publishers, BeginLookUp(p) PROVE Found'
  BY <1>12 DEF BeginLookUp
<1>13. ASSUME NEW p \in Publishers, BeginLock(p) PROVE Found'
  BY <1>13 DEF BeginLock
<1>14. ASSUME NEW p \in Publishers, BeginSwap(p) PROVE Found'
  BY <1>14 DEF BeginSwap
<1>15. ASSUME NEW p \in Publishers, Commit(p) PROVE Found'
  <2>1. /\ pc' = [pc EXCEPT ![p] = "done"]
        /\ UNCHANGED <<layout, todo, naming, created, found>>
    BY <1>15 DEF Commit
  <2>2. QED
    BY <2>1
<1>16. ASSUME NEW r \in Readers, Read(r) PROVE Found'
  BY <1>16 DEF Read
<1>17. ASSUME NEW r \in Readers, EndRead(r) PROVE Found'
  BY <1>17 DEF EndRead
<1>18. ASSUME NEW r \in Readers, NEW t \in Tables, Ask(r, t) PROVE Found'
  BY <1>18 DEF Ask
<1>19. CASE UNCHANGED vars  BY <1>19 DEF server, publisher, vars
<1>20. QED
  BY <1>2, <1>3, <1>4, <1>5, <1>6, <1>7, <1>8, <1>9, <1>10, <1>11, <1>12, <1>13, <1>14,
     <1>15, <1>16, <1>17, <1>18, <1>19 DEF Next, Statement

\* Publications that agree refill the same of their common targets.
LEMMA AgreedTargets ==
    ASSUME Agreed, TypeOK, NEW p \in Publishers, NEW q \in Publishers,
           NEW t \in Refill(p), t \in Targets(q)
    PROVE  t \in Refill(q)
<1>1. layout \in Layouts
  BY DEF TypeOK
<1>2. QED
  BY <1>1 DEF Agreed, Refill, Targets

\* Nobody else replaces or creates what a publication is about to refill.
LEMMA SameRelationStep ==
    Agreed /\ TypeOK /\ Loops /\ Prepared /\ Exclusive /\ SameRelation /\ [Next]_vars
        => SameRelation'
<1> SUFFICES ASSUME Agreed, TypeOK, Loops, Prepared, Exclusive, SameRelation, [Next]_vars
    PROVE  SameRelation'
  OBVIOUS
<1> USE LocksAssumption DEF server, publisher, vars, RolledBack, TypeOK, Phases,
        Outcomes, Actors, Unchecked, IsNext, Locking, Targets, Refill, ToLookUp,
        SameRelation, Running
<1>1. ASSUME NEW p \in Publishers, Running(p), NEW o \in Failures, Gives(p, o)
      PROVE  SameRelation'
  <2>1. \A q \in Publishers \ {p} :
          pc'[q] = pc[q] /\ checked'[q] = checked[q] /\ created'[q] = created[q]
    BY <1>1 DEF Gives
  <2>2. pc'[p] = "done" /\ UNCHANGED live
    BY <1>1 DEF Gives
  <2>3. ASSUME NEW q \in Publishers, Running(q)', NEW t \in Tables
        PROVE  /\ checked'[q][t] # None => live[t].id = checked'[q][t]
               /\ t \in created'[q] => live[t] = None
    <3>1. q # p /\ Running(q)
      BY <2>1, <2>2, <2>3
    <3>2. QED
      BY <2>1, <3>1
  <2>4. QED
    BY <2>2, <2>3
<1>2. ASSUME NEW p \in Publishers, Claim(p) PROVE SameRelation'
  <2>1. CASE Gives(p, "conflict")
    BY <1>1, <1>2, <2>1 DEF Failures, Claim, Loops, LoopOf
  <2>2. CASE Claimed(p)
    <3>1. \A q \in Publishers \ {p} : created'[q] = created[q]
      BY <2>2 DEF Claimed
    <3>2. created'[p] =
        IF pc[p] = "preflight" THEN created[p] \cup {naming[p]} ELSE created[p]
      BY <2>2 DEF Claimed
    <3>3. pc[p] = "preflight" => live[naming[p]] = None
      BY <2>2 DEF Claimed, Loops, LoopOf
    <3>4. UNCHANGED <<live, pc, checked>>
      BY <2>2 DEF Claimed
    <3>5. ASSUME NEW t \in created'[p], Running(p) PROVE live[t] = None
      <4>1. CASE t \in created[p]
        BY <3>5, <4>1
      <4>2. CASE pc[p] = "preflight" /\ t = naming[p]
        BY <3>3, <4>2
      <4>3. QED
        BY <3>2, <3>5, <4>1, <4>2
    <3>6. QED
      BY <3>1, <3>4, <3>5
  <2>3. QED
    BY <1>2, <2>1, <2>2 DEF Claim, Claimed
<1>3. ASSUME NEW p \in Publishers, LockTimeout(p) PROVE SameRelation'
  <2>1. CASE Gives(p, "busy")
    BY <1>1, <1>3, <2>1 DEF Failures, LockTimeout, Locking, Running
  <2>2. CASE Again(p)
    BY <2>2 DEF Again
  <2>3. QED
    BY <1>3, <2>1, <2>2 DEF LockTimeout, Again
<1>4. ASSUME NEW p \in Publishers, DeadlockDetected(p) PROVE SameRelation'
  BY <1>1, <1>4, VictimsRun DEF DeadlockDetected, Failures
<1>5. ASSUME NEW p \in Publishers, Fails(p) PROVE SameRelation'
  BY <1>1, <1>5 DEF Fails, Failures, Running
<1>6. ASSUME NEW p \in Publishers, NEW t \in Tables, Validate(p, t) PROVE SameRelation'
  <2>1. \A q \in Publishers \ {p} : checked'[q] = checked[q]
    BY <1>6 DEF Validate
  <2>2. /\ \A u \in Tables \ {t} : checked'[p][u] = checked[p][u]
        /\ checked'[p][t] = live[t].id
    BY <1>6 DEF Validate
  <2>3. UNCHANGED <<live, pc, created>>
    BY <1>6 DEF Validate
  <2>4. ASSUME NEW q \in Publishers, Running(q), NEW u \in Tables, checked'[q][u] # None
        PROVE  live[u].id = checked'[q][u]
    <3>1. CASE q = p /\ u = t
      BY <2>2, <3>1
    <3>2. CASE ~(q = p /\ u = t)
      BY <2>1, <2>2, <2>4, <3>2
    <3>3. QED
      BY <3>1, <3>2
  <2>5. QED
    BY <2>3, <2>4
<1>7. ASSUME NEW p \in Publishers, NEW t \in Tables, FindAbsent(p, t) PROVE SameRelation'
  BY <1>7 DEF FindAbsent
<1>8. ASSUME NEW p \in Publishers, NEW t \in Tables, LookUp(p, t) PROVE SameRelation'
  BY <1>8 DEF LookUp
<1>9. ASSUME NEW p \in Publishers, NEW t \in Tables, LockGranted(p, t) PROVE SameRelation'
  BY <1>9 DEF LockGranted
<1>10. ASSUME NEW p \in Publishers, NEW t \in Tables, RefillTarget(p, t)
       PROVE  SameRelation'
  BY <1>10 DEF RefillTarget
<1>11. ASSUME NEW p \in Publishers, NEW t \in Tables, Drop(p, t) PROVE SameRelation'
  BY <1>11 DEF Drop
<1>12. ASSUME NEW p \in Publishers, BeginLookUp(p) PROVE SameRelation'
  BY <1>12 DEF BeginLookUp
<1>13. ASSUME NEW p \in Publishers, BeginLock(p) PROVE SameRelation'
  BY <1>13 DEF BeginLock
<1>14. ASSUME NEW p \in Publishers, BeginSwap(p) PROVE SameRelation'
  BY <1>14 DEF BeginSwap
<1>15. ASSUME NEW p \in Publishers, Commit(p) PROVE SameRelation'
  <2>1. /\ UNCHANGED <<checked, created>>
        /\ \A q \in Publishers : Running(q)' => Running(q) /\ q # p
    BY <1>15 DEF Commit
  <2>2. ASSUME NEW q \in Publishers, q # p, Running(q), NEW t \in Tables
        PROVE  /\ checked[q][t] # None => live'[t].id = checked[q][t]
               /\ t \in created[q] => live'[t] = None
    <3>1. CASE t \notin Targets(p)
      <4>1. live'[t] = live[t]
        BY <1>15, <3>1, CommitKeeps
      <4>2. QED
        BY <2>2, <4>1
    <3>2. CASE t \in Refill(p) \ created[p]
      <4>1. live[t] # None /\ live[t] \in Table
        BY <1>15, <3>2, RefilledAreTables DEF Commit
      <4>2. live'[t] = [live[t] EXCEPT !.rows = p]
        BY <1>15, <3>2, TargetsAreTables DEF Commit, Committed
      <4>3. live'[t].id = live[t].id
        BY <4>1, <4>2 DEF Table
      <4>4. QED
        BY <2>2, <4>1, <4>3
    <3>3. CASE t \in Targets(p) /\ t \notin Refill(p) \ created[p]
      <4>1. t \in Refill(q) => t \in created[p]
        BY <3>3, AgreedTargets
      <4>2. created[p] \subseteq claims[p] /\ Running(p)
        BY <1>15 DEF Commit, Loops, LoopOf
      <4>3. checked[q][t] # None => t \in Refill(q) /\ live[t] # None
        BY <2>2 DEF Prepared
      <4>4. t \in created[p] => live[t] = None
        BY <4>2
      <4>5. t \in created[q] => t \in Refill(q) /\ t \in claims[q]
        BY <2>2 DEF Loops, LoopOf
      <4>6. t \notin claims[q] \/ t \notin claims[p]
        BY <2>2 DEF Exclusive
      <4>7. QED
        BY <4>1, <4>2, <4>3, <4>4, <4>5, <4>6
    <3>4. QED
      BY <3>1, <3>2, <3>3
  <2>3. QED
    BY <2>1, <2>2
<1>16. ASSUME NEW r \in Readers, Read(r) PROVE SameRelation'
  BY <1>16 DEF Read
<1>17. ASSUME NEW r \in Readers, EndRead(r) PROVE SameRelation'
  BY <1>17 DEF EndRead
<1>18. ASSUME NEW r \in Readers, NEW t \in Tables, Ask(r, t) PROVE SameRelation'
  BY <1>18 DEF Ask
<1>19. CASE UNCHANGED vars  BY <1>19 DEF server, publisher, vars
<1>20. QED
  BY <1>2, <1>3, <1>4, <1>5, <1>6, <1>7, <1>8, <1>9, <1>10, <1>11, <1>12, <1>13, <1>14,
     <1>15, <1>16, <1>17, <1>18, <1>19 DEF Next, Statement

\* The invariant holds at the start, and so does what depends on agreement.
LEMMA InitLInv == Init => LInv /\ SameRelation
<1> SUFFICES ASSUME Init PROVE LInv /\ SameRelation
  OBVIOUS
<1> USE LocksAssumption DEF Init
<1>1. layout \in Layout
  OBVIOUS
<1>2. \A p \in Publishers : Refill(p) \in SUBSET Tables
  BY <1>1 DEF Refill, Targets, Layout
<1>3. TypeOK
  <2>1. 1 \in 1..max_attempts
    OBVIOUS
  <2>2. live \in [Tables -> Relations]
    BY DEF Relations, Table, Authors
  <2>3. todo \in [Publishers -> SUBSET Tables]
    BY <1>2
  <2>4. QED
    BY <2>1, <2>2, <2>3 DEF TypeOK, Phases, Outcomes, Actors, Unchecked
<1>4. Loops
  <2>1. ASSUME NEW p \in Publishers PROVE LoopOf(p)
    <3>1. p \in Actors
      BY DEF Actors
    <3>2. /\ outcome[p] = "running" /\ pc[p] = "preflight" /\ todo[p] = Refill(p)
          /\ locks[p] = {} /\ claims[p] = {} /\ created[p] = {} /\ naming[p] = None
      BY <3>1
    <3>3. QED
      BY <3>2 DEF LoopOf, Running
  <2>2. QED
    BY <2>1 DEF Loops
<1>5. Ascending
  BY DEF Ascending
<1>6. Prepared /\ SameRelation
  BY DEF Prepared, SameRelation, Unchecked
<1>7. Existing /\ Appearing
  <2>1. [id |-> Before, rows |-> Before] \in Table
    BY DEF Table, Authors
  <2>2. [id |-> Before, rows |-> Before] # None
    BY <2>1
  <2>3. QED
    BY <2>2 DEF Existing, Appearing
<1>8. Found
  BY DEF Found, Finds
<1>9. Exclusive
  BY DEF Exclusive
<1>10. QED
  BY <1>3, <1>4, <1>5, <1>6, <1>7, <1>8, <1>9 DEF LInv

\* Every step keeps the invariant.
LEMMA LInvStep == LInv /\ [Next]_vars => LInv'
BY TypeStep, LoopsStep, AscendingStep, PreparedStep, ExistingStep, AppearingStep,
   FoundStep, ExclusiveStep DEF LInv

-----------------------------------------------------------------------------
(* How a publication ends.                                                 *)

\* An outcome is given by COMMIT, by the detector, by a name that is taken, or it is one of
\* the two failures that a publication has by itself.
LEMMA HowItEnds ==
    ASSUME TypeOK, [Next]_vars, NEW p \in Publishers, outcome'[p] # outcome[p]
    PROVE  \/ Commit(p) /\ outcome'[p] = "published"
           \/ Victim(p) /\ outcome'[p] = "deadlock"
           \/ /\ naming[p] # None /\ live[naming[p]] # None /\ naming[p] \notin locks[p]
              /\ outcome'[p] = "conflict"
           \/ outcome'[p] \in {"busy", "failed"}
<1> USE DEF TypeOK, RolledBack
<1>1. ASSUME NEW q \in Publishers, NEW o, Gives(q, o), outcome'[p] # outcome[p]
      PROVE  q = p /\ outcome'[p] = o
  BY <1>1 DEF Gives
<1>2. ASSUME NEW q \in Publishers, Commit(q)
      PROVE  q = p /\ outcome'[p] = "published"
  BY <1>2 DEF Commit
<1>3. CASE \E q \in Publishers : Statement(q) \/ Fails(q)
  <2>1. PICK q \in Publishers : Statement(q) \/ Fails(q)
    BY <1>3
  <2>2. CASE Commit(q)
    BY <1>2, <2>2
  <2>3. CASE Fails(q)
    BY <1>1, <2>3 DEF Fails
  <2>4. CASE DeadlockDetected(q)
    BY <1>1, <2>4 DEF DeadlockDetected
  <2>5. CASE LockTimeout(q)
    BY <1>1, <2>5 DEF LockTimeout
  <2>6. CASE Claim(q)
    BY <1>1, <2>6 DEF Claim
  <2>7. QED
    BY <2>1, <2>2, <2>3, <2>4, <2>5, <2>6 DEF Statement, Validate, FindAbsent, LookUp,
       LockGranted, RefillTarget, Drop, BeginLookUp, BeginLock, BeginSwap
<1>4. CASE \E r \in Readers : Read(r) \/ EndRead(r) \/ \E t \in Tables : Ask(r, t)
  BY <1>4 DEF Read, EndRead, Ask, publisher
<1>5. CASE UNCHANGED vars
  BY <1>5 DEF vars, publisher
<1>6. QED
  BY <1>3, <1>4, <1>5 DEF Next

\* The tasks and their tables stay what they were.
LEMMA SameLayout == [Next]_vars => UNCHANGED layout
BY DEF Next, Statement, Fails, Claim, LockTimeout, DeadlockDetected, Gives, RolledBack,
   Validate, FindAbsent, LookUp, LockGranted, RefillTarget, Drop, BeginLookUp,
   BeginLock, BeginSwap, Commit, Read, EndRead, Ask, vars

-----------------------------------------------------------------------------
(* Refills.                                                                *)

\* A commit finds every relation it refills as preflight validated it, and leaves it that
\* relation.
LEMMA RefillStep ==
    ASSUME Agreed, LInv, SameRelation, [Next]_vars,
           NEW p \in Publishers, NEW t \in Tables,
           outcome'[p] = "published", outcome[p] = "running",
           t \in Refill(p), live[t] # None
    PROVE  live'[t].id = live[t].id /\ live[t].id = checked[p][t]
<1>1. Commit(p)
  BY HowItEnds DEF LInv
<1>2. Running(p) /\ pc[p] = "swap" /\ todo[p] = {}
  BY <1>1 DEF Commit, Running
<1>3. t \notin created[p]
  BY <1>2 DEF SameRelation
<1>4. checked[p][t] # None
  BY <1>2, <1>3 DEF LInv, Prepared
<1>5. live[t].id = checked[p][t]
  BY <1>2, <1>4 DEF SameRelation
<1>6. live[t] \in Table
  BY <1>2, <1>3, RefilledAreTables DEF LInv
<1>7. live'[t] = [live[t] EXCEPT !.rows = p]
  BY <1>1, <1>3, TargetsAreTables DEF Commit, Committed, LInv
<1>8. live'[t].id = live[t].id
  BY <1>6, <1>7 DEF Table
<1>9. QED
  BY <1>5, <1>8

-----------------------------------------------------------------------------
(* Waits.                                                                  *)

\* DROP TABLE waits for no table that existed: LOCK TABLE has named it.
LEMMA NoDropWaits ==
    ASSUME LInv, NEW p \in Publishers, NEW t \in Tables \cap layout.existing
    PROVE  ~Dropping(p, t)
<1> SUFFICES ASSUME Dropping(p, t) PROVE FALSE
  OBVIOUS
<1>1. pc[p] = "swap" /\ t \in todo[p] /\ t \notin locks[p]
  BY DEF Dropping, IsNext
<1>2. t \in Targets(p) /\ found[p] \subseteq locks[p]
  BY <1>1 DEF LInv, Loops, LoopOf
<1>3. t \in found[p]
  BY <1>1, <1>2 DEF LInv, Found, Finds, Running
<1>4. QED
  BY <1>1, <1>2, <1>3

\* The waits of a publication, one by one.
LEMMA Waits ==
    ASSUME NEW p \in Publishers, NEW q, q \in Blockers(p)
    PROVE  \/ \E t \in Tables : (Locking(p, t) \/ Dropping(p, t)) /\ q \in Holders(p, t)
           \/ naming[p] # None /\ live[naming[p]] = None /\ q \in Claimants(p, naming[p])
<1> DEFINE At == {u \in Tables : Locking(p, u) \/ Dropping(p, u)}
           ForTables == UNION {Holders(p, t) : t \in At}
           ForNames == IF naming[p] # None /\ live[naming[p]] = None
                         THEN Claimants(p, naming[p]) ELSE {}
<1>1. p \notin Readers
  BY LocksAssumption
<1>2. q \in ForTables \cup ForNames
  BY <1>1 DEF Blockers
<1>3. CASE q \in ForTables
  BY <1>3
<1>4. CASE q \in ForNames
  BY <1>4
<1> HIDE DEF ForTables, ForNames
<1>5. QED
  BY <1>2, <1>3, <1>4

\* While every table is one that existed, there are two ways to wait for a publication.
LEMMA WaysToWait ==
    ASSUME LInv, \A t \in Tables : live[t] # None => t \in layout.existing,
           NEW p \in Publishers, NEW q, q \in Blockers(p)
    PROVE  \/ \E t \in Tables : Locking(p, t) /\ t \in locks[q]
           \/ /\ naming[p] # None /\ live[naming[p]] = None
              /\ q \in Publishers /\ naming[p] \in claims[q]
<1>1. \A t \in Tables : ~Dropping(p, t)
  BY NoDropWaits DEF Dropping
<1>2. QED
  BY <1>1, Waits DEF Holders, Claimants

\* What a publication creates or renames to is one of its targets, in its loop.
LEMMA NamesTargets ==
    ASSUME LInv, NEW p \in Publishers, naming[p] # None
    PROVE  /\ pc[p] \in {"preflight", "swap"}
           /\ naming[p] \in todo[p] /\ naming[p] \in Targets(p) /\ naming[p] \in Tables
           /\ pc[p] = "preflight" => naming[p] \in Refill(p)
           /\ pc[p] = "swap" => naming[p] \notin Refill(p)
<1>1. naming[p] \in todo[p] /\ pc[p] \in {"preflight", "swap"}
  BY DEF LInv, TypeOK, Phases, Loops, LoopOf, Running, IsNext
<1>2. QED
  BY <1>1, TargetsAreTables DEF LInv, TypeOK, Loops, LoopOf

\* With every target in place, the only wait of a publication is the timed one.
LEMMA OnlyTimedWaits ==
    ASSUME LInv, AllExisted, NEW p \in Publishers
    PROVE  /\ Blockers(p) # {} => Timed(p) /\ naming[p] = None
           /\ naming[p] # None => naming[p] \in locks[p] /\ live[naming[p]] # None
<1>1. Targets(p) \subseteq layout.existing
  BY DEF AllExisted
<1>2. ASSUME naming[p] # None
      PROVE  naming[p] \in locks[p] /\ live[naming[p]] # None
  <2>1. /\ naming[p] \in Tables \cap layout.existing
        /\ naming[p] \in Targets(p) /\ pc[p] \in {"preflight", "swap"}
    BY <1>1, <1>2, NamesTargets
  <2>2. naming[p] \in found[p] /\ pc[p] = "swap"
    BY <2>1 DEF LInv, Found, Finds, Running
  <2>3. QED
    BY <2>1, <2>2 DEF LInv, Existing, Loops, LoopOf
<1>3. ASSUME NEW t \in Tables PROVE ~Dropping(p, t)
  <2>1. Dropping(p, t) => t \in layout.existing
    BY <1>1 DEF Dropping, IsNext, LInv, Loops, LoopOf
  <2>2. QED
    BY <2>1, NoDropWaits
<1>4. p \notin Readers
  BY LocksAssumption
<1>5. Blockers(p) # {} => \E t \in Tables : Locking(p, t)
  BY <1>2, <1>3, <1>4 DEF Blockers
<1>6. Blockers(p) # {} => Timed(p) /\ naming[p] = None
  BY <1>5 DEF Locking, Timed, LInv, Loops, LoopOf
<1>7. QED
  BY <1>2, <1>6

\* So the detector has nobody to choose, and no name is taken.
LEMMA NoVictimsStep == LInv /\ NoVictims /\ [Next]_vars => NoVictims'
<1> SUFFICES ASSUME LInv, NoVictims, [Next]_vars, AllExisted', NEW p \in Publishers,
                    outcome'[p] \in {"deadlock", "conflict"}
             PROVE  FALSE
  BY DEF NoVictims
<1>1. AllExisted
  BY SameLayout DEF AllExisted, Targets
<1>2. outcome'[p] # outcome[p]
  BY <1>1 DEF NoVictims
<1>3. ~Victim(p)
  <2>1. Victim(p) => ~Timed(p)
    BY DEF Victim
  <2>2. QED
    BY <1>1, <2>1, OnlyTimedWaits, VictimsRun DEF LInv
<1>4. QED
  BY <1>1, <1>2, <1>3, HowItEnds, OnlyTimedWaits DEF LInv

-----------------------------------------------------------------------------
(* No cycle of publications.                                               *)

\* With every target in place: whoever waits for the highest table has locked nothing
\* above it, and whoever has locked it waits for a higher one.
LEMMA NoCycleOfMany ==
    ASSUME LInv, AllExisted, IsFiniteSet(Tables)
    PROVE  NoPublisherCycle
<1> SUFFICES ASSUME NEW S \in SUBSET Publishers, Deadlock(S) PROVE FALSE
  BY DEF NoPublisherCycle
<1> DEFINE Waited == {t \in Tables : \E a \in S : Locking(a, t)}
<1>1. ASSUME NEW a \in S
      PROVE  \E b \in S, t \in Tables : Locking(a, t) /\ t \in locks[b]
  <2>1. PICK b \in S : b \in Blockers(a)
    BY <1>1 DEF Deadlock
  <2>2. a \notin Readers
    BY <1>1, LocksAssumption
  <2>3. Timed(a) /\ naming[a] = None
    BY <1>1, <2>1, OnlyTimedWaits
  <2>4. QED
    BY <2>1, <2>2, <2>3 DEF Timed, Blockers, Dropping, Holders
<1>2. Waited # {}
  BY <1>1 DEF Deadlock
<1>3. IsFiniteSet(Waited) /\ Waited \subseteq Nat
  BY FS_Subset, LocksAssumption
<1> HIDE DEF Waited
<1>4. PICK high \in Waited : \A t \in Waited : t <= high
  BY <1>2, <1>3, FiniteHasMax
<1>5. PICK a \in S : Locking(a, high)
  BY DEF Waited
<1>6. PICK b \in S, t \in Tables : Locking(a, t) /\ t \in locks[b]
  BY <1>1
<1>7. t = high
  BY <1>3, <1>5, <1>6, LocksAssumption DEF Locking, IsNext, LInv, TypeOK
<1>8. PICK u \in Tables : Locking(b, u)
  BY <1>1
<1>9. high < u
  BY <1>6, <1>7, <1>8 DEF Locking, IsNext, LInv, Ascending
<1>10. u \in Waited
  BY <1>8 DEF Waited
<1>11. QED
  BY <1>3, <1>4, <1>9, <1>10

\* Two publications that agree on their common targets: each pair of waits would need a
\* table above itself, or one that is replaced and refilled.
LEMMA NoCycleOfTwo ==
    ASSUME LInv, Agreed, NEW p \in Publishers, NEW q \in Publishers,
           \A t \in Tables : live[t] # None => t \in layout.existing,
           q \in Blockers(p), p \in Blockers(q)
    PROVE  FALSE
<1> DEFINE Locks(a, b) == \E t \in Tables : Locking(a, t) /\ t \in locks[b]
           Names(a, b) == naming[a] # None /\ naming[a] \in claims[b]
<1>1. /\ Locks(p, q) \/ Names(p, q)
      /\ Locks(q, p) \/ Names(q, p)
  BY WaysToWait
<1>2. CASE Locks(p, q) /\ Locks(q, p)
  <2>1. PICK t \in Tables : Locking(p, t) /\ t \in locks[q]
    BY <1>2
  <2>2. PICK u \in Tables : Locking(q, u) /\ u \in locks[p]
    BY <1>2
  <2>3. t < u /\ u < t
    BY <2>1, <2>2 DEF Locking, IsNext, LInv, Ascending
  <2>4. QED
    BY <2>3, LocksAssumption
<1>3. ASSUME NEW a \in Publishers, NEW b \in Publishers, Locks(a, b), Names(b, a)
      PROVE  FALSE
  <2>1. pc[a] = "lock" /\ locks[b] # {}
    BY <1>3 DEF Locking
  <2>2. pc[b] = "swap"
    BY <1>3, <2>1, NamesTargets DEF LInv, Loops, LoopOf
  <2>3. naming[b] \in Refill(a)
    BY <1>3, <2>1 DEF LInv, Loops, LoopOf, Running
  <2>4. QED
    BY <1>3, <2>2, <2>3, NamesTargets, AgreedTargets DEF LInv
<1>4. ASSUME NEW a \in Publishers, NEW b \in Publishers, Names(a, b), Names(b, a)
      PROVE  FALSE
  <2>1. ASSUME NEW c \in Publishers, NEW d \in Publishers, Names(c, d), pc[c] = "swap"
        PROVE  naming[c] \notin created[d]
    <3>1. naming[c] \in Targets(c) /\ naming[c] \notin Refill(c)
      BY <2>1, NamesTargets
    <3>2. created[d] \subseteq Refill(d)
      BY <2>1 DEF LInv, Loops, LoopOf
    <3>3. QED
      BY <3>1, <3>2, AgreedTargets DEF LInv
  <2>2. ASSUME NEW c \in Publishers, NEW d \in Publishers, Names(c, d), Names(d, c)
        PROVE  pc[c] = "swap" => pc[d] = "swap"
    BY <2>1, <2>2, NamesTargets DEF LInv, Loops, LoopOf
  <2>3. ASSUME NEW c \in Publishers, NEW d \in Publishers, Names(c, d), Names(d, c)
        PROVE  naming[c] < naming[d]
    <3>1. naming[d] \in todo[d]
      BY <2>3, NamesTargets
    <3>2. CASE pc[d] = "swap"
      <4>1. naming[c] \in claims[d] \ created[d]
        BY <2>1, <2>2, <2>3, <3>2
      <4>2. QED
        BY <3>1, <3>2, <4>1 DEF LInv, Ascending
    <3>3. CASE pc[d] = "preflight"
      <4>1. naming[c] \in created[d]
        BY <2>3, <3>3 DEF LInv, Loops, LoopOf
      <4>2. QED
        BY <3>1, <3>3, <4>1 DEF LInv, Ascending
    <3>4. QED
      BY <2>3, <3>2, <3>3, NamesTargets
  <2>4. naming[a] \in Nat /\ naming[b] \in Nat
    BY <1>4, NamesTargets, LocksAssumption
  <2>5. naming[a] < naming[b] /\ naming[b] < naming[a]
    BY <1>4, <2>3
  <2>6. QED
    BY <2>4, <2>5
<1>5. QED
  BY <1>1, <1>2, <1>3, <1>4

-----------------------------------------------------------------------------
(* The theorems.                                                           *)

AtMostTwo == \A p, q, r \in Publishers : p = q \/ q = r \/ p = r

\* Two publications that agree on their common targets never wait for each other.
LEMMA NoCycleOfAgreed ==
    ASSUME LInv, Agreed, AtMostTwo
    PROVE  NoPublisherCycle
<1> SUFFICES ASSUME NEW S \in SUBSET Publishers, Deadlock(S) PROVE FALSE
  BY DEF NoPublisherCycle
<1>1. ASSUME NEW a \in Publishers, NEW b \in Publishers, b \in Blockers(a) PROVE a # b
  BY <1>1, Waits DEF Holders, Claimants
<1>2. PICK p \in S : TRUE
  BY DEF Deadlock
<1>3. PICK q \in S : q \in Blockers(p)
  BY DEF Deadlock
<1>4. PICK r \in S : r \in Blockers(q)
  BY DEF Deadlock
<1>5. p # q /\ q # r
  BY <1>1, <1>3, <1>4
<1>6. p = r
  BY <1>5 DEF AtMostTwo
<1>7. \A a \in Publishers : a = p \/ a = q
  BY <1>5 DEF AtMostTwo
<1>8. Running(p) /\ Running(q)
  BY <1>3, <1>4, VictimsRun DEF LInv
<1>9. \A a \in Publishers : outcome[a] # "published"
  BY <1>7, <1>8 DEF LInv, Loops, LoopOf
<1>10. \A t \in Tables : live[t] # None => t \in layout.existing
  BY <1>9 DEF LInv, Appearing
<1>11. QED
  BY <1>3, <1>4, <1>6, <1>10, NoCycleOfTwo

\* The inductive invariant.
THEOREM Inductive == Spec => []LInv
<1>1. Init => LInv
  BY InitLInv
<1>2. QED
  BY <1>1, LInvStep, PTL DEF Spec

\* Every variable has its type.
THEOREM TypeCorrect == Spec => []TypeOK
<1>1. LInv => TypeOK
  BY DEF LInv
<1>2. QED
  BY <1>1, Inductive, PTL

\* A refilled table keeps its identity, and it is the relation preflight validated, for any
\* number of tasks that agree on how their common targets are published.
THEOREM RefillMeetsItsTable == ASSUME Agreed PROVE Spec => RefilledAsValidated
<1>1. Init => LInv /\ SameRelation
  BY InitLInv
<1>2. (LInv /\ SameRelation) /\ [Next]_vars => (LInv /\ SameRelation)'
  BY Agreed, LInvStep, SameRelationStep DEF LInv
<1>3. (LInv /\ SameRelation) /\ [Next]_vars =>
        [\A p \in Publishers, t \in Tables :
            outcome'[p] = "published" /\ outcome[p] = "running"
              /\ t \in Refill(p) /\ live[t] # None
              => live'[t].id = live[t].id /\ live[t].id = checked[p][t]]_vars
  BY Agreed, RefillStep
<1>4. QED
  BY <1>1, <1>2, <1>3, PTL DEF Spec, RefilledAsValidated

\* Nobody is the victim of a deadlock or finds a name taken while every target exists.
LEMMA NoVictimsEver == Spec => [](LInv /\ NoVictims)
<1>1. Init => LInv /\ NoVictims
  BY InitLInv DEF Init, NoVictims
<1>2. (LInv /\ NoVictims) /\ [Next]_vars => (LInv /\ NoVictims)'
  BY LInvStep, NoVictimsStep
<1>3. QED
  BY <1>1, <1>2, PTL DEF Spec

\* Once every target exists, sorted order prevents deadlock between any number of
\* publications among any readers, and what a publication waits for with locks in hand is
\* a lock under lock_timeout.
THEOREM ExistingTargetsNeverDeadlock ==
    ASSUME IsFiniteSet(Tables)
    PROVE  Spec => []ExistingTargetsSuffice
<1>1. LInv /\ NoVictims => ExistingTargetsSuffice
  BY IsFiniteSet(Tables), NoCycleOfMany, OnlyTimedWaits DEF ExistingTargetsSuffice,
     NoVictims
<1>2. QED
  BY <1>1, NoVictimsEver, PTL

\* Two publications never wait for each other, existing targets or not, if they agree on how
\* a common target is published.
THEOREM SortedOrderSufficesForTwo ==
    ASSUME Agreed, AtMostTwo
    PROVE  Spec => []SortedOrderSuffices
<1>1. LInv /\ NoVictims => SortedOrderSuffices
  BY Agreed, AtMostTwo, NoCycleOfAgreed, OnlyTimedWaits DEF SortedOrderSuffices, NoVictims
<1>2. QED
  BY <1>1, NoVictimsEver, PTL

=============================================================================
