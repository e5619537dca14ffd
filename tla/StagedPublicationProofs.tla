----------------------- MODULE StagedPublicationProofs -----------------------
(***************************************************************************)
(* What StagedPublication guarantees for any set of runs and targets, any  *)
(* number of faults, source changes and attempts.                          *)
(***************************************************************************)
EXTENDS StagedPublication, TLAPS

\* Writing one field of a write set leaves a write set.
LEMMA TxUpdate ==
  ASSUME NEW x \in Tx, NEW ts \in SUBSET Targets, NEW b \in BOOLEAN
  PROVE  /\ [x EXCEPT !.created = ts] \in Tx
         /\ [x EXCEPT !.swapped = ts] \in Tx
         /\ [x EXCEPT !.state = b] \in Tx
BY DEF Tx

\* Every step keeps every variable in its type: in particular commit() never
\* counts more than max_attempts, and nothing invents a version.
LEMMA TypeStep == TypeOK /\ [Next]_vars => TypeOK'
<1> SUFFICES ASSUME TypeOK, [Next]_vars PROVE TypeOK'
  OBVIOUS
<1> USE StagedAssumption
        DEF TypeOK, Versions, PC, InTry, Tx, NoTx, Goto, Own, LockWithout,
            world, server, client, Forget
<1>1. ASSUME NEW r \in Runs, Start(r) PROVE TypeOK'
  BY <1>1 DEF Start
<1>2. ASSUME NEW r \in Runs, StartDirectly(r) PROVE TypeOK'
  BY <1>2 DEF StartDirectly
<1>3. ASSUME NEW r \in Runs, TryAcquire(r) PROVE TypeOK'
  BY <1>3 DEF TryAcquire
<1>4. ASSUME NEW r \in Runs, CleanupPredecessors(r) PROVE TypeOK'
  BY <1>4 DEF CleanupPredecessors
<1>5. ASSUME NEW r \in Runs, CollectFingerprints(r) PROVE TypeOK'
  BY <1>5 DEF CollectFingerprints
<1>6. ASSUME NEW r \in Runs, CompareSources(r) PROVE TypeOK'
  BY <1>6 DEF CompareSources
<1>7. ASSUME NEW r \in Runs, NEW t \in Targets, Prepare(r, t) PROVE TypeOK'
  <2>1. PICK v \in fingerprint[r]..version : rows' = [rows EXCEPT ![r][t] = v]
    BY <1>7 DEF Prepare
  <2>2. fingerprint[r] \in Nat /\ version \in Nat /\ v \in 0..MaxVersion
    OBVIOUS
  <2>3. rows' \in [Runs -> [Targets -> Versions]]
    BY <2>1, <2>2
  <2>4. [tx[r] EXCEPT !.created = {t}] \in Tx
    <3>1. tx[r] \in Tx
      OBVIOUS
    <3>2. {t} \in SUBSET Targets
      OBVIOUS
    <3>3. QED
      BY <3>1, <3>2, TxUpdate
  <2>5. tx' = [tx EXCEPT ![r] = [tx[r] EXCEPT !.created = {t}]]
    BY <1>7 DEF Prepare
  <2>6. tx' \in [Runs -> Tx]
    BY <2>4, <2>5
  <2>7. QED
    BY <1>7, <2>3, <2>6 DEF Prepare
<1>8. ASSUME NEW r \in Runs, CommitPreparation(r) PROVE TypeOK'
  BY <1>8 DEF CommitPreparation
<1>9. ASSUME NEW r \in Runs, RecordPrepared(r) PROVE TypeOK'
  BY <1>9 DEF RecordPrepared
<1>10. ASSUME NEW r \in Runs, BeginPublication(r) PROVE TypeOK'
  BY <1>10 DEF BeginPublication
<1>11. ASSUME NEW r \in Runs, VerifyAndPlan(r) PROVE TypeOK'
  <2>1. [tx[r] EXCEPT !.state = TRUE] \in Tx
    <3>1. tx[r] \in Tx
      OBVIOUS
    <3>2. TRUE \in BOOLEAN
      OBVIOUS
    <3>3. QED
      BY <3>1, <3>2, TxUpdate
  <2>2. tx' = [tx EXCEPT ![r] = [tx[r] EXCEPT !.state = TRUE]]
    BY <1>11 DEF VerifyAndPlan
  <2>3. tx' \in [Runs -> Tx]
    BY <2>1, <2>2
  <2>4. QED
    BY <1>11, <2>3 DEF VerifyAndPlan
<1>12. ASSUME NEW r \in Runs, LockTargets(r) PROVE TypeOK'
  BY <1>12 DEF LockTargets
<1>13. ASSUME NEW r \in Runs, LockUnavailable(r) PROVE TypeOK'
  BY <1>13 DEF LockUnavailable
<1>14. ASSUME NEW r \in Runs, NEW t \in Targets, Swap(r, t) PROVE TypeOK'
  <2>1. [tx[r] EXCEPT !.swapped = @ \cup {t}] \in Tx
    <3>1. tx[r] \in Tx
      OBVIOUS
    <3>2. tx[r].swapped \cup {t} \in SUBSET Targets
      OBVIOUS
    <3>3. QED
      BY <3>1, <3>2, TxUpdate
  <2>2. tx' = [tx EXCEPT ![r] = [tx[r] EXCEPT !.swapped = @ \cup {t}]]
    BY <1>14 DEF Swap
  <2>3. tx' \in [Runs -> Tx]
    BY <2>1, <2>2
  <2>4. QED
    BY <1>14, <2>3 DEF Swap
<1>15. ASSUME NEW r \in Runs, CommitPublication(r) PROVE TypeOK'
  BY <1>15 DEF CommitPublication
<1>16. ASSUME NEW r \in Runs, Finish(r) PROVE TypeOK'
  BY <1>16 DEF Finish
<1>17. ASSUME NEW r \in Runs, Fail(r) PROVE TypeOK'
  BY <1>17 DEF Fail
<1>18. ASSUME NEW r \in Runs, Interrupt(r) PROVE TypeOK'
  BY <1>18 DEF Interrupt
<1>19. ASSUME NEW r \in Runs, Rollback(r) PROVE TypeOK'
  <2>1. staging' \subseteq Runs \X Targets
    BY <1>19 DEF Rollback
  <2>2. faults' \in 0..MaxFaults
    BY <1>19 DEF Rollback
  <2>3. held' \in [Runs -> BOOLEAN]
    BY <1>19 DEF Rollback
  <2>4. QED
    BY <1>19, <2>1, <2>2, <2>3 DEF Rollback
<1>20. ASSUME NEW r \in Runs, Close(r) PROVE TypeOK'
  BY <1>20 DEF Close
<1>21. ASSUME NEW r \in Runs, Crash(r) PROVE TypeOK'
  BY <1>21 DEF Crash
<1>22. ASSUME NEW r \in Runs, SessionEnds(r) PROVE TypeOK'
  BY <1>22 DEF SessionEnds
<1>23. ASSUME NEW r \in Runs, Recycle(r) PROVE TypeOK'
  BY <1>23 DEF Recycle
<1>24. CASE SourceChanges
  BY <1>24 DEF SourceChanges
<1>25. CASE UNCHANGED vars
  BY <1>25 DEF vars
<1>26. QED
  BY <1>1, <1>2, <1>3, <1>4, <1>5, <1>6, <1>7, <1>8, <1>9, <1>10, <1>11, <1>12, <1>13, <1>14, <1>15, <1>16, <1>17, <1>18, <1>19, <1>20, <1>21, <1>22, <1>23, <1>24, <1>25
     DEF Next, Step, Schedule, Environment

\* Type correctness: every execution stays inside the declared types.
THEOREM TypeCorrect == Spec => []TypeOK
<1>1. Init => TypeOK
  BY StagedAssumption
     DEF Init, TypeOK, Versions, PC, InTry, Tx, NoTx
<1>2. QED
  BY <1>1, TypeStep, PTL DEF Spec

\* The inductive step: every action preserves the inductive invariant.
LEMMA InvStep == IInv /\ [Next]_vars => IInv'
<1> SUFFICES ASSUME IInv, [Next]_vars PROVE IInv'
  OBVIOUS
<1>0. TypeOK /\ TypeOK'
  BY TypeStep DEF IInv
<1> USE StagedAssumption, <1>0
        DEF IInv, ExclusiveOwner, CleanForOwner, PreparedSurvives,
            ChangeNeverMissed, LockPhases, PlanPhases, ReadOrder, Owning,
            TypeOK, Versions, Tx, NoTx, InTry, Goto, Own, world, server,
            client, ensure_connection, require_task_lock
<1>1. ASSUME NEW r \in Runs, Start(r) PROVE IInv'
  BY <1>1 DEF Start
<1>2. ASSUME NEW r \in Runs, StartDirectly(r) PROVE IInv'
  BY <1>2 DEF StartDirectly
<1>3. ASSUME NEW r \in Runs, TryAcquire(r) PROVE IInv'
  <2>1. ExclusiveOwner'
    BY <1>3 DEF TryAcquire
  <2>2. CleanForOwner'
    BY <1>3 DEF TryAcquire
  <2>3. ChangeNeverMissed' /\ LockPhases'
    BY <1>3 DEF TryAcquire
  <2>4. ReadOrder'
    BY <1>3 DEF TryAcquire
  <2>5. PreparedSurvives'
    <3>1. UNCHANGED <<session, pending, staging>>
      BY <1>3 DEF TryAcquire
    <3>2. \A q \in Runs : pc'[q] \in InTry \ {"published"}
                             => pc[q] \in InTry \ {"published"}
      BY <1>3 DEF TryAcquire
    <3>3. QED
      BY <3>1, <3>2
  <2>6. PlanPhases'
    <3>1. UNCHANGED <<session, pending, staging, tx>>
      BY <1>3 DEF TryAcquire
    <3>2. \A q \in Runs :
             pc'[q] \in {"prepared", "publishing", "planned", "swapping"}
                => pc[q] = pc'[q]
      BY <1>3 DEF TryAcquire
    <3>3. QED
      BY <3>1, <3>2
  <2>7. QED
    BY <2>1, <2>2, <2>5, <2>6, <2>3, <2>4
<1>4. ASSUME NEW r \in Runs, CleanupPredecessors(r) PROVE IInv'
  <2>1. ExclusiveOwner' /\ CleanForOwner' /\ PreparedSurvives'
    BY <1>4 DEF CleanupPredecessors
  <2>2. ChangeNeverMissed' /\ LockPhases' /\ ReadOrder'
    BY <1>4 DEF CleanupPredecessors
  <2>3. PlanPhases'
    <3>1. UNCHANGED <<session, pending, tx, held>> /\ staging' = staging \cap Own(r)
      BY <1>4 DEF CleanupPredecessors
    <3>2. \A q \in Runs :
             pc'[q] \in {"prepared", "publishing", "planned", "swapping"}
                => q # r /\ pc[q] = pc'[q]
      BY <1>4 DEF CleanupPredecessors
    <3>3. \A q \in Runs : q # r => ~(session[q] = "open" /\ pc[q] = "prepared")
      BY <1>4 DEF CleanupPredecessors
    <3>4. QED
      BY <3>1, <3>2, <3>3
  <2>4. QED
    BY <2>1, <2>2, <2>3
<1>5. ASSUME NEW r \in Runs, CollectFingerprints(r) PROVE IInv'
  BY <1>5 DEF CollectFingerprints
<1>6. ASSUME NEW r \in Runs, CompareSources(r) PROVE IInv'
  <2>1. ExclusiveOwner' /\ CleanForOwner' /\ ChangeNeverMissed'
    BY <1>6 DEF CompareSources
  <2>2. LockPhases' /\ ReadOrder'
    BY <1>6 DEF CompareSources
  <2>3. PreparedSurvives'
    <3>1. UNCHANGED <<session, pending, staging>>
      BY <1>6 DEF CompareSources
    <3>2. \A q \in Runs : pc'[q] \in InTry \ {"published"}
                             => pc[q] \in InTry \ {"published"}
      BY <1>6 DEF CompareSources
    <3>3. QED
      BY <3>1, <3>2
  <2>4. PlanPhases'
    <3>1. UNCHANGED <<session, pending, staging, tx>>
      BY <1>6 DEF CompareSources
    <3>2. \A q \in Runs :
             pc'[q] \in {"prepared", "publishing", "planned", "swapping"}
                => pc[q] = pc'[q]
      BY <1>6 DEF CompareSources
    <3>3. QED
      BY <3>1, <3>2
  <2>5. QED
    BY <2>1, <2>2, <2>3, <2>4
<1>7. ASSUME NEW r \in Runs, NEW t \in Targets, Prepare(r, t) PROVE IInv'
  BY <1>7 DEF Prepare
<1>8. ASSUME NEW r \in Runs, CommitPreparation(r) PROVE IInv'
  <2>1. ExclusiveOwner' /\ PreparedSurvives' /\ ChangeNeverMissed'
    BY <1>8 DEF CommitPreparation
  <2>2. LockPhases' /\ PlanPhases' /\ ReadOrder'
    BY <1>8 DEF CommitPreparation
  <2>3. CleanForOwner'
    <3>1. Owning(r) /\ tx[r].created \subseteq Targets /\ staging \subseteq Own(r)
      BY <1>8 DEF CommitPreparation
    <3>2. UNCHANGED <<session, held>> /\ staging' = staging \cup ({r} \X tx[r].created)
      BY <1>8 DEF CommitPreparation
    <3>3. \A q \in Runs : Owning(q)' => q = r
      BY <3>1, <3>2
    <3>4. staging' \subseteq Own(r)
      BY <3>1, <3>2
    <3>5. QED
      BY <3>3, <3>4
  <2>4. QED
    BY <2>1, <2>2, <2>3
<1>9. ASSUME NEW r \in Runs, RecordPrepared(r) PROVE IInv'
  BY <1>9 DEF RecordPrepared
<1>10. ASSUME NEW r \in Runs, BeginPublication(r) PROVE IInv'
  BY <1>10 DEF BeginPublication
<1>11. ASSUME NEW r \in Runs, VerifyAndPlan(r) PROVE IInv'
  <2>1. ReadOrder' /\ PlanPhases'
    BY <1>11 DEF VerifyAndPlan
  <2>2. ExclusiveOwner' /\ CleanForOwner' /\ ChangeNeverMissed'
    BY <1>11 DEF VerifyAndPlan
  <2>3. PreparedSurvives' /\ LockPhases'
    BY <1>11 DEF VerifyAndPlan
  <2>4. QED
    BY <2>1, <2>2, <2>3
<1>12. ASSUME NEW r \in Runs, LockTargets(r) PROVE IInv'
  BY <1>12 DEF LockTargets
<1>13. ASSUME NEW r \in Runs, LockUnavailable(r) PROVE IInv'
  BY <1>13 DEF LockUnavailable
<1>14. ASSUME NEW r \in Runs, NEW t \in Targets, Swap(r, t) PROVE IInv'
  <2>1. ReadOrder' /\ PlanPhases'
    BY <1>14 DEF Swap
  <2>2. ExclusiveOwner' /\ CleanForOwner' /\ ChangeNeverMissed'
    BY <1>14 DEF Swap
  <2>3. PreparedSurvives' /\ LockPhases'
    BY <1>14 DEF Swap
  <2>4. QED
    BY <2>1, <2>2, <2>3
<1>15. ASSUME NEW r \in Runs, CommitPublication(r) PROVE IInv'
  <2>1. ExclusiveOwner' /\ CleanForOwner' /\ PreparedSurvives'
    BY <1>15 DEF CommitPublication
  <2>2. ChangeNeverMissed' /\ LockPhases' /\ PlanPhases'
    BY <1>15 DEF CommitPublication
  <2>3. ReadOrder'
    <3>1. /\ UNCHANGED <<version, session, held, fingerprint, rows, pending>>
          /\ stored' = fingerprint[r]
          /\ pc' = [pc EXCEPT ![r] = "published"] /\ pc[r] = "swapping"
          /\ tx' = [tx EXCEPT ![r] = NoTx]
      BY <1>15 DEF CommitPublication
    <3>2. \A q \in Runs : q # r => ~Owning(q)
      BY <1>15 DEF CommitPublication
    <3>3. stored' <= version'
      BY <3>1
    <3>4. \A q \in Runs : q # r => pc'[q] = pc[q] /\ tx'[q] = tx[q]
      BY <3>1 DEF TypeOK
    <3>5. pc'[r] = "published"
      BY <3>1 DEF TypeOK
    <3>6. QED
      BY <3>1, <3>2, <3>3, <3>4, <3>5
  <2>4. QED
    BY <2>1, <2>2, <2>3
<1>16. ASSUME NEW r \in Runs, Finish(r) PROVE IInv'
  BY <1>16 DEF Finish
<1>17. ASSUME NEW r \in Runs, Fail(r) PROVE IInv'
  BY <1>17 DEF Fail
<1>18. ASSUME NEW r \in Runs, Interrupt(r) PROVE IInv'
  BY <1>18 DEF Interrupt
<1>19. ASSUME NEW r \in Runs, Rollback(r) PROVE IInv'
  BY <1>19 DEF Rollback
<1>20. ASSUME NEW r \in Runs, Close(r) PROVE IInv'
  BY <1>20 DEF Close, LockWithout, Forget
<1>21. ASSUME NEW r \in Runs, Crash(r) PROVE IInv'
  BY <1>21 DEF Crash, Forget
<1>22. ASSUME NEW r \in Runs, SessionEnds(r) PROVE IInv'
  BY <1>22 DEF SessionEnds, LockWithout
<1>23. ASSUME NEW r \in Runs, Recycle(r) PROVE IInv'
  BY <1>23 DEF Recycle
<1>24. CASE SourceChanges
  BY <1>24 DEF SourceChanges
<1>25. CASE UNCHANGED vars
  BY <1>25 DEF vars
<1>26. QED
  BY <1>1, <1>2, <1>3, <1>4, <1>5, <1>6, <1>7, <1>8, <1>9, <1>10, <1>11, <1>12, <1>13, <1>14, <1>15, <1>16, <1>17, <1>18, <1>19, <1>20, <1>21, <1>22, <1>23, <1>24, <1>25
     DEF Next, Step, Schedule, Environment

LEMMA InvInit == Init => IInv
BY StagedAssumption
   DEF Init, IInv, TypeOK, Versions, PC, InTry, Tx, NoTx, ExclusiveOwner,
       CleanForOwner, PreparedSurvives, ChangeNeverMissed, LockPhases,
       PlanPhases, ReadOrder, Owning

\* The inductive invariant holds of every execution.
THEOREM Inductive == Spec => []IInv
BY InvInit, InvStep, PTL DEF Spec

\* However runs overlap, crash or lose their sessions, at most one of them owns
\* the task on a live session, and the advisory lock is its own.
THEOREM OneOwner == Spec => []ExclusiveOwner
<1>1. IInv => ExclusiveOwner
  BY DEF IInv
<1>2. QED
  BY <1>1, Inductive, PTL

\* The owner never shares the schema with another run's staging tables.
THEOREM OwnerIsClean == Spec => []CleanForOwner
<1>1. IInv => CleanForOwner
  BY DEF IInv
<1>2. QED
  BY <1>1, Inductive, PTL

\* No cleanup destroys what a run with a live session is about to publish.
THEOREM PreparedIsKept == Spec => []PreparedSurvives
<1>1. IInv => PreparedSurvives
  BY DEF IInv
<1>2. QED
  BY <1>1, Inductive, PTL

\* The stored fingerprint never vouches for data older than itself.
THEOREM NoMissedChange == Spec => []ChangeNeverMissed
<1>1. IInv => ChangeNeverMissed
  BY DEF IInv
<1>2. QED
  BY <1>1, Inductive, PTL

\* A publication commit is one abstract publication: every table at once, from
\* data no older than its fingerprint, which is no older than the one stored.
LEMMA CommitPublishes ==
  ASSUME IInv, NEW r \in Runs, CommitPublication(r)
  PROVE  Abstract!Publish(r)
<1>1. /\ ensure_connection(r) /\ pc[r] = "swapping"
      /\ tx[r].swapped = pending[r]
      /\ UNCHANGED <<version, held, rows>>
  BY DEF CommitPublication, Goto, world
<1>2. tx[r].swapped = Targets /\ tx[r].state /\ Owning(r)
  BY <1>1 DEF IInv, PlanPhases, LockPhases, ensure_connection, Owning, InTry
<1>3. /\ live' = [t \in Targets |-> [run |-> r, version |-> rows[r][t]]]
      /\ stored' = fingerprint[r]
  BY <1>2 DEF CommitPublication
<1>4. fingerprint[r] \in stored..version
  <2>1. stored <= fingerprint[r] /\ fingerprint[r] <= version
    BY <1>1, <1>2 DEF IInv, ReadOrder, InTry
  <2>2. QED
    BY <2>1, StagedAssumption DEF IInv, TypeOK, Versions
<1>5. rows[r] \in [Targets -> fingerprint[r]..version]
  <2>1. \A t \in Targets : rows[r][t] \in fingerprint[r]..version
    BY <1>1, <1>2 DEF IInv, ReadOrder, InTry
  <2>2. rows[r] \in [Targets -> Versions]
    BY DEF IInv, TypeOK
  <2>3. QED
    BY <2>1, <2>2
<1>6. QED
  BY <1>1, <1>3, <1>4, <1>5 DEF Abstract!Publish

LEMMA AbstractStep ==
  IInv /\ [Next]_vars => [Abstract!Next]_(Abstract!vars)
<1> SUFFICES ASSUME IInv, [Next]_vars
             PROVE  [Abstract!Next]_(Abstract!vars)
  OBVIOUS
<1> USE DEF Abstract!vars, world, server, client
<1>1. ASSUME NEW r \in Runs, Start(r) PROVE UNCHANGED Abstract!vars
  BY <1>1 DEF Start
<1>2. ASSUME NEW r \in Runs, StartDirectly(r) PROVE UNCHANGED Abstract!vars
  BY <1>2 DEF StartDirectly
<1>3. ASSUME NEW r \in Runs, TryAcquire(r) PROVE UNCHANGED Abstract!vars
  BY <1>3 DEF TryAcquire
<1>4. ASSUME NEW r \in Runs, CleanupPredecessors(r) PROVE UNCHANGED Abstract!vars
  BY <1>4 DEF CleanupPredecessors
<1>5. ASSUME NEW r \in Runs, CollectFingerprints(r) PROVE UNCHANGED Abstract!vars
  BY <1>5 DEF CollectFingerprints
<1>6. ASSUME NEW r \in Runs, CompareSources(r) PROVE UNCHANGED Abstract!vars
  BY <1>6 DEF CompareSources
<1>7. ASSUME NEW r \in Runs, NEW t \in Targets, Prepare(r, t) PROVE UNCHANGED Abstract!vars
  BY <1>7 DEF Prepare
<1>8. ASSUME NEW r \in Runs, CommitPreparation(r) PROVE UNCHANGED Abstract!vars
  BY <1>8 DEF CommitPreparation
<1>9. ASSUME NEW r \in Runs, RecordPrepared(r) PROVE UNCHANGED Abstract!vars
  BY <1>9 DEF RecordPrepared
<1>10. ASSUME NEW r \in Runs, BeginPublication(r) PROVE UNCHANGED Abstract!vars
  BY <1>10 DEF BeginPublication
<1>11. ASSUME NEW r \in Runs, VerifyAndPlan(r) PROVE UNCHANGED Abstract!vars
  BY <1>11 DEF VerifyAndPlan
<1>12. ASSUME NEW r \in Runs, LockTargets(r) PROVE UNCHANGED Abstract!vars
  BY <1>12 DEF LockTargets
<1>13. ASSUME NEW r \in Runs, LockUnavailable(r) PROVE UNCHANGED Abstract!vars
  BY <1>13 DEF LockUnavailable
<1>14. ASSUME NEW r \in Runs, NEW t \in Targets, Swap(r, t) PROVE UNCHANGED Abstract!vars
  BY <1>14 DEF Swap
<1>15. ASSUME NEW r \in Runs, CommitPublication(r) PROVE Abstract!Next
  BY <1>15, CommitPublishes DEF Abstract!Next
<1>16. ASSUME NEW r \in Runs, Finish(r) PROVE UNCHANGED Abstract!vars
  BY <1>16 DEF Finish
<1>17. ASSUME NEW r \in Runs, Fail(r) PROVE UNCHANGED Abstract!vars
  BY <1>17 DEF Fail
<1>18. ASSUME NEW r \in Runs, Interrupt(r) PROVE UNCHANGED Abstract!vars
  BY <1>18 DEF Interrupt
<1>19. ASSUME NEW r \in Runs, Rollback(r) PROVE UNCHANGED Abstract!vars
  BY <1>19 DEF Rollback
<1>20. ASSUME NEW r \in Runs, Close(r) PROVE UNCHANGED Abstract!vars
  BY <1>20 DEF Close
<1>21. ASSUME NEW r \in Runs, Crash(r) PROVE UNCHANGED Abstract!vars
  BY <1>21 DEF Crash
<1>22. ASSUME NEW r \in Runs, SessionEnds(r) PROVE UNCHANGED Abstract!vars
  BY <1>22 DEF SessionEnds
<1>23. ASSUME NEW r \in Runs, Recycle(r) PROVE UNCHANGED Abstract!vars
  BY <1>23 DEF Recycle
<1>24. CASE SourceChanges
  BY <1>24 DEF SourceChanges, Abstract!Next, Abstract!SourceChanges
<1>25. CASE UNCHANGED vars
  BY <1>25 DEF vars
<1>26. QED
  BY <1>1, <1>2, <1>3, <1>4, <1>5, <1>6, <1>7, <1>8, <1>9, <1>10, <1>11, <1>12, <1>13, <1>14, <1>15, <1>16, <1>17, <1>18, <1>19, <1>20, <1>21, <1>22, <1>23, <1>24, <1>25
     DEF Next, Step, Schedule, Environment

\* The protocol implements the abstract output: every step of every execution
\* is an atomic publication, a change of the sources, or invisible to readers.
THEOREM Refinement == Spec => AtomicPublication
<1>1. Init => Abstract!Init
  BY DEF Init, Abstract!Init
<1>2. QED
  BY <1>1, Inductive, AbstractStep, PTL
     DEF Spec, AtomicPublication, Abstract!Spec

=============================================================================
