----------------------- MODULE PublisherSessionProofs -----------------------
(***************************************************************************)
(* What one session guarantees for any set of targets, any number of       *)
(* attempts and any number of errors.                                      *)
(***************************************************************************)
EXTENDS PublisherSession, FiniteSetTheorems, TLAPS

-----------------------------------------------------------------------------
(* The inductive invariant.                                                *)

\* Nothing is prepared yet, the publication has begun, the run is being cleaned up.
Early  == {"limit", "trylock", "acquired", "spools", "fingerprint"} \cup Beginning \cup Reading
Late   == Committing \cup {"attempt", "retry", "discard", "reset"}
Ending == {"rollback", "drop", "unlock", "disconnect", "done"}

\* A transaction that commit() was interrupted in rolling back.
Undone == InterruptedAt({"retry", "discard"})

\* Where a transaction can be open, and what can be in it.
Transactions ==
    /\ pc \in {"fingerprint", "read", "pipeline", "record", "attempt", "reset"}
          => txn = "idle" /\ ~explicit
    /\ pc = "rollback" /\ attempt > 0 => (txn = "idle" /\ ~explicit) \/ Undone
    /\ pc = "drop" => txn = "idle"
    /\ swapped # {} => \/ pc \in {"swap", "commit", "discard"}
                       \/ pc = "rollback" /\ InterruptedAt({"discard"})
                       \/ pc \in {"unlock", "disconnect", "done"} /\ LeftOpen
    /\ attempt > 0 => pc \in Late \cup Ending

\* The two lists of the publisher agree, and what is swapped is all of them.
Bookkeeping ==
    /\ pc \notin Ending => pending = generated
    /\ pc \in Early => generated = {} /\ staging = {}
    /\ pc \in Early \cup {"pipeline", "drop"} \cup Late => made = {}
    /\ pc \in Late => generated = Targets
    /\ pc = "commit" => swapped = pending
    /\ pc = "reset" => staging = {}

\* The lock is held from its acquisition to the end of what it protects.
Protection ==
    /\ session = "open" /\ pc \notin {"limit", "trylock"} \cup Ending => lock
    /\ session = "open" /\ staging # {} =>
          lock \/ (pc \in {"disconnect", "done"} /\ InterruptedAt({"record", "rollback", "drop"}))
    /\ session = "open" /\ pc \notin Ending =>
          staging \subseteq generated \cup (IF pc = "record" THEN made ELSE {})
            \/ InterruptedAt({"record"})
    /\ session = "open" /\ pc \in {"rollback", "drop"} =>
          staging \subseteq generated \/ InterruptedAt({"record"})
    /\ pc = "unlock" /\ session = "open" /\ txn # "aborted" =>
          (staging = {} /\ made = {}) \/ InterruptedAt({"record", "rollback", "drop"})
    /\ session = "closed" => pc = "done"
    /\ session # "open" => ~lock
    /\ pc = "done" /\ lock => InterruptedAt({"unlock", "disconnect"})

\* What can have been published, and what the caller is told.
Evidence ==
    \/ LeftOpen
    \/ <<"commit", "lost">> \in errors
    \/ \E e \in errors : e[1] \in AfterCommit /\ e[2] # "sql"

Truth ==
    /\ published \in {{}, Targets} \/ LeftOpen
    /\ published # {} => \/ pc = "reset"
                         \/ outcome = "succeeded"
                         \/ Evidence /\ pc \in {"discard"} \cup Ending
    /\ pc = "reset" => published = Targets
    /\ outcome # "running" => pc \in Ending
    /\ outcome = "succeeded" => published = Targets /\ pc \in {"unlock", "disconnect", "done"}
    /\ outcome = "skipped" => published = {} /\ swapped = {}

\* No session was lost, and no interrupt came before the bookkeeping.
Clean == \A e \in errors : e[2] # "lost" /\ e # <<"record", "interrupt">>

Two == \E d, e \in errors : d # e

\* What is left behind has a reason.
Reasons ==
    /\ IsFiniteSet(errors)
    /\ \A e \in errors : e[1] = "rollback" => pc \in {"unlock", "disconnect", "done"}
    /\ \A e \in errors : e[1] = "drop" => pc \in {"unlock", "disconnect", "done"}
    /\ txn = "aborted" => errors # {} \/ pc = "retry"
    /\ session = "lost" => ~Clean
    /\ pc = "discard" => errors # {}
    /\ pc \in {"rollback", "drop"} => errors # {} \/ (generated = {} /\ staging = {} /\ made = {})
    /\ Clean /\ pc \notin {"unlock", "disconnect", "done"} =>
          staging \subseteq generated \cup (IF pc = "record" THEN made ELSE {})
    /\ pc \in {"unlock", "disconnect", "done"} /\ Clean => (staging = {} /\ made = {}) \/ Two

IInv == TypeOK /\ Transactions /\ Bookkeeping /\ Protection /\ Truth /\ Reasons

-----------------------------------------------------------------------------
\* A set with one element more.
LEMMA OneMore ==
  ASSUME NEW S, NEW T, NEW e, IsFiniteSet(S), T = S \/ T = S \cup {e}
  PROVE  IsFiniteSet(T) /\ S \subseteq T
BY FS_AddElement

\* Every step keeps every variable in its type: commit() never counts beyond
\* max_attempts, and what is made, swapped or dropped is a target of the task.
LEMMA TypeStep == TypeOK /\ [Next]_vars => TypeOK'
<1> SUFFICES ASSUME TypeOK, [Next]_vars PROVE TypeOK'
  OBVIOUS
<1> USE SessionAssumption DEF PC, Statements, Beginning, Reading, Preparing, Committing, Long, CleaningUp,
        Executes, Commits, server, client, report, vars,
        Handler, Escape, Caught, Raised, Hit, Sends, ServerForgets, _drop_open_transaction, AttemptsLeft, TypeOK
<1>1. CASE ReadIdentifierLimit  BY <1>1 DEF ReadIdentifierLimit
<1>2. CASE TryAcquire  BY <1>2 DEF TryAcquire
<1>3. CASE NoteLock  BY <1>3 DEF NoteLock
<1>4. CASE Diagnose  BY <1>4 DEF Diagnose
<1>5. CASE CleanSpools  BY <1>5 DEF CleanSpools
<1>6. CASE ScanPredecessors  BY <1>6 DEF ScanPredecessors
<1>7. CASE EndScan  BY <1>7 DEF EndScan
<1>8. CASE CollectFingerprints  BY <1>8 DEF CollectFingerprints
<1>9. CASE ReadState  BY <1>9 DEF ReadState
<1>10. CASE EndRead  BY <1>10 DEF EndRead
<1>11. CASE RunPipeline  BY <1>11 DEF RunPipeline
<1>12. CASE CreateStaging  BY <1>12 DEF CreateStaging
<1>13. CASE LoadStaging  BY <1>13 DEF LoadStaging
<1>14. CASE CommitStaging  BY <1>14 DEF CommitStaging
<1>15. CASE Record  BY <1>15 DEF Record
<1>16. CASE BeginCommit  BY <1>16 DEF BeginCommit
<1>17. CASE BeginAttempt  BY <1>17 DEF BeginAttempt
<1>18. CASE VerifyArtifacts  BY <1>18 DEF VerifyArtifacts
<1>19. CASE RunPlan  BY <1>19 DEF RunPlan
<1>20. CASE LockTargets  BY <1>20 DEF LockTargets
<1>21. CASE LocksUnavailable  BY <1>21 DEF LocksUnavailable
<1>22. CASE Retry
  <2>1. <<"locks", "busy">> \in PC \X {"sql", "lost", "interrupt", "busy"}
    OBVIOUS
  <2>2. errors' \subseteq PC \X {"sql", "lost", "interrupt", "busy"}
    BY <1>22, <2>1 DEF Retry
  <2>3. attempt' \in 0..max_attempts /\ pc' \in PC
    BY <1>22 DEF Retry
  <2>4. QED
    BY <1>22, <2>2, <2>3 DEF Retry
<1>23. CASE Discard  BY <1>23 DEF Discard
<1>24. CASE Swap  BY <1>24 DEF Swap
<1>25. CASE CommitSwaps  BY <1>25 DEF CommitSwaps
<1>26. CASE Reset  BY <1>26 DEF Reset
<1>27. CASE Rollback  BY <1>27 DEF Rollback
<1>28. CASE DropStaging  BY <1>28 DEF DropStaging
<1>29. CASE DropsDone  BY <1>29 DEF DropsDone
<1>30. CASE Unlock  BY <1>30 DEF Unlock
<1>31. CASE Disconnect  BY <1>31 DEF Disconnect
<1>32. CASE StatementFails  BY <1>32 DEF StatementFails
<1>33. CASE SessionLost
  <2>1. <<pc, "lost">> \in PC \X {"sql", "lost", "interrupt", "busy"}
    OBVIOUS
  <2>2. errors' \subseteq PC \X {"sql", "lost", "interrupt", "busy"}
    BY <1>33, <2>1 DEF SessionLost
  <2>3. pc' \in PC
    BY <1>33 DEF SessionLost
  <2>4. staging' \subseteq Targets /\ published' \subseteq Targets
    BY <1>33 DEF SessionLost
  <2>5. QED
    BY <1>33, <2>2, <2>3, <2>4 DEF SessionLost
<1>34. CASE Interrupted  BY <1>34 DEF Interrupted
<1>35. CASE UNCHANGED vars  BY <1>35 DEF vars
<1>36. QED
  BY <1>1, <1>2, <1>3, <1>4, <1>5, <1>6, <1>7, <1>8, <1>9, <1>10, <1>11, <1>12, 
     <1>13, <1>14, <1>15, <1>16, <1>17, <1>18, <1>19, <1>20, <1>21, <1>22, <1>23, 
     <1>24, <1>25, <1>26, <1>27, <1>28, <1>29, <1>30, <1>31, <1>32, <1>33, <1>34, 
     <1>35 DEF Next

\* Every phase ends the transaction it is in: each COMMIT and each handler of an
\* exception; the swaps of a failed attempt survive it only where an interrupt keeps
\* the handler from its work, and reach close() only if another does the same there.
LEMMA TransactionsStep == TypeOK /\ Transactions /\ [Next]_vars => Transactions'
<1> SUFFICES ASSUME TypeOK, Transactions, [Next]_vars PROVE Transactions'
  OBVIOUS
<1> USE DEF PC, Statements, Beginning, Reading, Preparing, Committing, Long, CleaningUp,
        Executes, Commits, server, client, report, vars,
        Handler, Escape, Caught, Raised, Hit, Sends, ServerForgets, _drop_open_transaction, AttemptsLeft, Early, Late, Ending, Undone, LeftOpen, InterruptedAt, TypeOK, Transactions
<1>1. CASE ReadIdentifierLimit  BY <1>1 DEF ReadIdentifierLimit
<1>2. CASE TryAcquire  BY <1>2 DEF TryAcquire
<1>3. CASE NoteLock  BY <1>3 DEF NoteLock
<1>4. CASE Diagnose  BY <1>4 DEF Diagnose
<1>5. CASE CleanSpools  BY <1>5 DEF CleanSpools
<1>6. CASE ScanPredecessors  BY <1>6 DEF ScanPredecessors
<1>7. CASE EndScan  BY <1>7 DEF EndScan
<1>8. CASE CollectFingerprints  BY <1>8 DEF CollectFingerprints
<1>9. CASE ReadState  BY <1>9 DEF ReadState
<1>10. CASE EndRead  BY <1>10 DEF EndRead
<1>11. CASE RunPipeline  BY <1>11 DEF RunPipeline
<1>12. CASE CreateStaging  BY <1>12 DEF CreateStaging
<1>13. CASE LoadStaging  BY <1>13 DEF LoadStaging
<1>14. CASE CommitStaging  BY <1>14 DEF CommitStaging
<1>15. CASE Record  BY <1>15 DEF Record
<1>16. CASE BeginCommit  BY <1>16 DEF BeginCommit
<1>17. CASE BeginAttempt  BY <1>17 DEF BeginAttempt
<1>18. CASE VerifyArtifacts  BY <1>18 DEF VerifyArtifacts
<1>19. CASE RunPlan  BY <1>19 DEF RunPlan
<1>20. CASE LockTargets  BY <1>20 DEF LockTargets
<1>21. CASE LocksUnavailable  BY <1>21 DEF LocksUnavailable
<1>22. CASE Retry  BY <1>22 DEF Retry
<1>23. CASE Discard  BY <1>23 DEF Discard
<1>24. CASE Swap  BY <1>24 DEF Swap
<1>25. CASE CommitSwaps  BY <1>25 DEF CommitSwaps
<1>26. CASE Reset  BY <1>26 DEF Reset
<1>27. CASE Rollback  BY <1>27 DEF Rollback
<1>28. CASE DropStaging  BY <1>28 DEF DropStaging
<1>29. CASE DropsDone  BY <1>29 DEF DropsDone
<1>30. CASE Unlock  BY <1>30 DEF Unlock
<1>31. CASE Disconnect  BY <1>31 DEF Disconnect
<1>32. CASE StatementFails  BY <1>32 DEF StatementFails
<1>33. CASE SessionLost  BY <1>33 DEF SessionLost
<1>34. CASE Interrupted  BY <1>34 DEF Interrupted
<1>35. CASE UNCHANGED vars  BY <1>35 DEF vars
<1>36. QED
  BY <1>1, <1>2, <1>3, <1>4, <1>5, <1>6, <1>7, <1>8, <1>9, <1>10, <1>11, <1>12, 
     <1>13, <1>14, <1>15, <1>16, <1>17, <1>18, <1>19, <1>20, <1>21, <1>22, <1>23, 
     <1>24, <1>25, <1>26, <1>27, <1>28, <1>29, <1>30, <1>31, <1>32, <1>33, <1>34, 
     <1>35 DEF Next

\* _generated_names and _pending_swaps agree until the run is cleaned up, and COMMIT
\* is sent when every pending table is swapped.
LEMMA BookkeepingStep == TypeOK /\ Transactions /\ Bookkeeping /\ [Next]_vars => Bookkeeping'
<1> SUFFICES ASSUME TypeOK, Transactions, Bookkeeping, [Next]_vars PROVE Bookkeeping'
  OBVIOUS
<1> USE DEF PC, Statements, Beginning, Reading, Preparing, Committing, Long, CleaningUp,
        Executes, Commits, server, client, report, vars,
        Handler, Escape, Caught, Raised, Hit, Sends, ServerForgets, _drop_open_transaction, AttemptsLeft, Early, Late, Ending, TypeOK, Transactions, Bookkeeping
<1>1. CASE ReadIdentifierLimit  BY <1>1 DEF ReadIdentifierLimit
<1>2. CASE TryAcquire  BY <1>2 DEF TryAcquire
<1>3. CASE NoteLock  BY <1>3 DEF NoteLock
<1>4. CASE Diagnose  BY <1>4 DEF Diagnose
<1>5. CASE CleanSpools  BY <1>5 DEF CleanSpools
<1>6. CASE ScanPredecessors  BY <1>6 DEF ScanPredecessors
<1>7. CASE EndScan  BY <1>7 DEF EndScan
<1>8. CASE CollectFingerprints  BY <1>8 DEF CollectFingerprints
<1>9. CASE ReadState  BY <1>9 DEF ReadState
<1>10. CASE EndRead  BY <1>10 DEF EndRead
<1>11. CASE RunPipeline  BY <1>11 DEF RunPipeline
<1>12. CASE CreateStaging  BY <1>12 DEF CreateStaging
<1>13. CASE LoadStaging  BY <1>13 DEF LoadStaging
<1>14. CASE CommitStaging  BY <1>14 DEF CommitStaging
<1>15. CASE Record  BY <1>15 DEF Record
<1>16. CASE BeginCommit  BY <1>16 DEF BeginCommit
<1>17. CASE BeginAttempt  BY <1>17 DEF BeginAttempt
<1>18. CASE VerifyArtifacts  BY <1>18 DEF VerifyArtifacts
<1>19. CASE RunPlan  BY <1>19 DEF RunPlan
<1>20. CASE LockTargets  BY <1>20 DEF LockTargets
<1>21. CASE LocksUnavailable  BY <1>21 DEF LocksUnavailable
<1>22. CASE Retry  BY <1>22 DEF Retry
<1>23. CASE Discard  BY <1>23 DEF Discard
<1>24. CASE Swap  BY <1>24 DEF Swap
<1>25. CASE CommitSwaps  BY <1>25 DEF CommitSwaps
<1>26. CASE Reset  BY <1>26 DEF Reset
<1>27. CASE Rollback  BY <1>27 DEF Rollback
<1>28. CASE DropStaging  BY <1>28 DEF DropStaging
<1>29. CASE DropsDone  BY <1>29 DEF DropsDone
<1>30. CASE Unlock  BY <1>30 DEF Unlock
<1>31. CASE Disconnect  BY <1>31 DEF Disconnect
<1>32. CASE StatementFails  BY <1>32 DEF StatementFails
<1>33. CASE SessionLost  BY <1>33 DEF SessionLost
<1>34. CASE Interrupted  BY <1>34 DEF Interrupted
<1>35. CASE UNCHANGED vars  BY <1>35 DEF vars
<1>36. QED
  BY <1>1, <1>2, <1>3, <1>4, <1>5, <1>6, <1>7, <1>8, <1>9, <1>10, <1>11, <1>12, 
     <1>13, <1>14, <1>15, <1>16, <1>17, <1>18, <1>19, <1>20, <1>21, <1>22, <1>23, 
     <1>24, <1>25, <1>26, <1>27, <1>28, <1>29, <1>30, <1>31, <1>32, <1>33, <1>34, 
     <1>35 DEF Next

\* The lock outlives the staging tables: release_task_lock() finds them dropped, or the
\* transaction aborted, in which it cannot release anything, or rollback() was cut short.
LEMMA ProtectionStep == TypeOK /\ Transactions /\ Bookkeeping /\ Protection /\ [Next]_vars => Protection'
<1> SUFFICES ASSUME TypeOK, Transactions, Bookkeeping, Protection, [Next]_vars PROVE Protection'
  OBVIOUS
<1> USE DEF PC, Statements, Beginning, Reading, Preparing, Committing, Long, CleaningUp,
        Executes, Commits, server, client, report, vars,
        Handler, Escape, Caught, Raised, Hit, Sends, ServerForgets, _drop_open_transaction, AttemptsLeft, Early, Late, Ending, InterruptedAt, TypeOK, Transactions, Bookkeeping, Protection
<1>1. CASE ReadIdentifierLimit  BY <1>1 DEF ReadIdentifierLimit
<1>2. CASE TryAcquire  BY <1>2 DEF TryAcquire
<1>3. CASE NoteLock  BY <1>3 DEF NoteLock
<1>4. CASE Diagnose  BY <1>4 DEF Diagnose
<1>5. CASE CleanSpools  BY <1>5 DEF CleanSpools
<1>6. CASE ScanPredecessors  BY <1>6 DEF ScanPredecessors
<1>7. CASE EndScan  BY <1>7 DEF EndScan
<1>8. CASE CollectFingerprints  BY <1>8 DEF CollectFingerprints
<1>9. CASE ReadState  BY <1>9 DEF ReadState
<1>10. CASE EndRead  BY <1>10 DEF EndRead
<1>11. CASE RunPipeline  BY <1>11 DEF RunPipeline
<1>12. CASE CreateStaging  BY <1>12 DEF CreateStaging
<1>13. CASE LoadStaging  BY <1>13 DEF LoadStaging
<1>14. CASE CommitStaging  BY <1>14 DEF CommitStaging
<1>15. CASE Record  BY <1>15 DEF Record
<1>16. CASE BeginCommit  BY <1>16 DEF BeginCommit
<1>17. CASE BeginAttempt  BY <1>17 DEF BeginAttempt
<1>18. CASE VerifyArtifacts  BY <1>18 DEF VerifyArtifacts
<1>19. CASE RunPlan  BY <1>19 DEF RunPlan
<1>20. CASE LockTargets  BY <1>20 DEF LockTargets
<1>21. CASE LocksUnavailable  BY <1>21 DEF LocksUnavailable
<1>22. CASE Retry  BY <1>22 DEF Retry
<1>23. CASE Discard  BY <1>23 DEF Discard
<1>24. CASE Swap  BY <1>24 DEF Swap
<1>25. CASE CommitSwaps  BY <1>25 DEF CommitSwaps
<1>26. CASE Reset  BY <1>26 DEF Reset
<1>27. CASE Rollback  BY <1>27 DEF Rollback
<1>28. CASE DropStaging  BY <1>28 DEF DropStaging
<1>29. CASE DropsDone  BY <1>29 DEF DropsDone
<1>30. CASE Unlock  BY <1>30 DEF Unlock
<1>31. CASE Disconnect  BY <1>31 DEF Disconnect
<1>32. CASE StatementFails  BY <1>32 DEF StatementFails
<1>33. CASE SessionLost  BY <1>33 DEF SessionLost
<1>34. CASE Interrupted  BY <1>34 DEF Interrupted
<1>35. CASE UNCHANGED vars  BY <1>35 DEF vars
<1>36. QED
  BY <1>1, <1>2, <1>3, <1>4, <1>5, <1>6, <1>7, <1>8, <1>9, <1>10, <1>11, <1>12, 
     <1>13, <1>14, <1>15, <1>16, <1>17, <1>18, <1>19, <1>20, <1>21, <1>22, <1>23, 
     <1>24, <1>25, <1>26, <1>27, <1>28, <1>29, <1>30, <1>31, <1>32, <1>33, <1>34, 
     <1>35 DEF Next

\* Whatever is published is known to the caller, or evidence says why it is not.
LEMMA TruthStep == TypeOK /\ Transactions /\ Bookkeeping /\ Truth /\ [Next]_vars => Truth'
<1> SUFFICES ASSUME TypeOK, Transactions, Bookkeeping, Truth, [Next]_vars PROVE Truth'
  OBVIOUS
<1> USE DEF PC, Statements, Beginning, Reading, Preparing, Committing, Long, CleaningUp,
        Executes, Commits, server, client, report, vars,
        Handler, Escape, Caught, Raised, Hit, Sends, ServerForgets, _drop_open_transaction, AttemptsLeft, Early, Late, Ending, TypeOK, Transactions, Bookkeeping, LeftOpen, InterruptedAt, AfterCommit, Evidence, Truth
<1>1. CASE ReadIdentifierLimit  BY <1>1 DEF ReadIdentifierLimit
<1>2. CASE TryAcquire  BY <1>2 DEF TryAcquire
<1>3. CASE NoteLock  BY <1>3 DEF NoteLock
<1>4. CASE Diagnose  BY <1>4 DEF Diagnose
<1>5. CASE CleanSpools  BY <1>5 DEF CleanSpools
<1>6. CASE ScanPredecessors  BY <1>6 DEF ScanPredecessors
<1>7. CASE EndScan  BY <1>7 DEF EndScan
<1>8. CASE CollectFingerprints  BY <1>8 DEF CollectFingerprints
<1>9. CASE ReadState  BY <1>9 DEF ReadState
<1>10. CASE EndRead  BY <1>10 DEF EndRead
<1>11. CASE RunPipeline  BY <1>11 DEF RunPipeline
<1>12. CASE CreateStaging  BY <1>12 DEF CreateStaging
<1>13. CASE LoadStaging  BY <1>13 DEF LoadStaging
<1>14. CASE CommitStaging  BY <1>14 DEF CommitStaging
<1>15. CASE Record  BY <1>15 DEF Record
<1>16. CASE BeginCommit  BY <1>16 DEF BeginCommit
<1>17. CASE BeginAttempt  BY <1>17 DEF BeginAttempt
<1>18. CASE VerifyArtifacts  BY <1>18 DEF VerifyArtifacts
<1>19. CASE RunPlan  BY <1>19 DEF RunPlan
<1>20. CASE LockTargets  BY <1>20 DEF LockTargets
<1>21. CASE LocksUnavailable  BY <1>21 DEF LocksUnavailable
<1>22. CASE Retry  BY <1>22 DEF Retry
<1>23. CASE Discard  BY <1>23 DEF Discard
<1>24. CASE Swap  BY <1>24 DEF Swap
<1>25. CASE CommitSwaps  BY <1>25 DEF CommitSwaps
<1>26. CASE Reset  BY <1>26 DEF Reset
<1>27. CASE Rollback  BY <1>27 DEF Rollback
<1>28. CASE DropStaging  BY <1>28 DEF DropStaging
<1>29. CASE DropsDone  BY <1>29 DEF DropsDone
<1>30. CASE Unlock  BY <1>30 DEF Unlock
<1>31. CASE Disconnect  BY <1>31 DEF Disconnect
<1>32. CASE StatementFails
  <2>1. errors \subseteq errors'
    BY <1>32 DEF StatementFails
  <2>2. (LeftOpen => LeftOpen') /\ (Evidence => Evidence')
    BY <2>1
  <2>3. QED
    BY <1>32, <2>2 DEF StatementFails
<1>33. CASE SessionLost
  <2>1. errors \subseteq errors' /\ <<pc, "lost">> \in errors'
    BY <1>33 DEF SessionLost
  <2>2. (LeftOpen => LeftOpen') /\ (Evidence => Evidence')
    BY <2>1
  <2>3. pc \in {"commit"} \cup AfterCommit => Evidence'
    BY <2>1
  <2> HIDE DEF Evidence, LeftOpen, InterruptedAt
  <2>4. published' \in {{}, Targets} \/ LeftOpen'
    BY <1>33, <2>2 DEF SessionLost
  <2>5. published' # {} => outcome' = "succeeded" \/ (Evidence' /\ pc' \in {"discard"} \cup Ending)
    BY <1>33, <2>2, <2>3 DEF SessionLost
  <2>6. QED
    BY <1>33, <2>4, <2>5 DEF SessionLost
<1>34. CASE Interrupted
  <2>1. errors \subseteq errors' /\ <<pc, "interrupt">> \in errors'
    BY <1>34 DEF Interrupted
  <2>2. (LeftOpen => LeftOpen') /\ (Evidence => Evidence')
    BY <2>1
  <2>3. pc \in AfterCommit => Evidence'
    BY <2>1
  <2> HIDE DEF Evidence, LeftOpen, InterruptedAt
  <2>4. QED
    BY <1>34, <2>2, <2>3 DEF Interrupted
<1>35. CASE UNCHANGED vars  BY <1>35 DEF vars
<1>36. QED
  BY <1>1, <1>2, <1>3, <1>4, <1>5, <1>6, <1>7, <1>8, <1>9, <1>10, <1>11, <1>12, 
     <1>13, <1>14, <1>15, <1>16, <1>17, <1>18, <1>19, <1>20, <1>21, <1>22, <1>23, 
     <1>24, <1>25, <1>26, <1>27, <1>28, <1>29, <1>30, <1>31, <1>32, <1>33, <1>34, 
     <1>35 DEF Next

\* A staging table that is left behind has two errors, a lost session or the
\* interrupt before the bookkeeping for a reason.
LEMMA ReasonsStep == TypeOK /\ Transactions /\ Bookkeeping /\ Protection /\ Reasons /\ [Next]_vars => Reasons'
<1> SUFFICES ASSUME TypeOK, Transactions, Bookkeeping, Protection, Reasons, [Next]_vars PROVE Reasons'
  OBVIOUS
<1> USE DEF PC, Statements, Beginning, Reading, Preparing, Committing, Long, CleaningUp,
        Executes, Commits, server, client, report, vars,
        Handler, Escape, Caught, Raised, Hit, Sends, ServerForgets, _drop_open_transaction, AttemptsLeft, Early, Late, Ending, TypeOK, Transactions, Bookkeeping, Protection, Clean, Two, Reasons
<1>1. CASE ReadIdentifierLimit  BY <1>1 DEF ReadIdentifierLimit
<1>2. CASE TryAcquire  BY <1>2 DEF TryAcquire
<1>3. CASE NoteLock  BY <1>3 DEF NoteLock
<1>4. CASE Diagnose  BY <1>4 DEF Diagnose
<1>5. CASE CleanSpools  BY <1>5 DEF CleanSpools
<1>6. CASE ScanPredecessors  BY <1>6 DEF ScanPredecessors
<1>7. CASE EndScan  BY <1>7 DEF EndScan
<1>8. CASE CollectFingerprints  BY <1>8 DEF CollectFingerprints
<1>9. CASE ReadState  BY <1>9 DEF ReadState
<1>10. CASE EndRead  BY <1>10 DEF EndRead
<1>11. CASE RunPipeline  BY <1>11 DEF RunPipeline
<1>12. CASE CreateStaging  BY <1>12 DEF CreateStaging
<1>13. CASE LoadStaging  BY <1>13 DEF LoadStaging
<1>14. CASE CommitStaging  BY <1>14 DEF CommitStaging
<1>15. CASE Record  BY <1>15 DEF Record
<1>16. CASE BeginCommit  BY <1>16 DEF BeginCommit
<1>17. CASE BeginAttempt  BY <1>17 DEF BeginAttempt
<1>18. CASE VerifyArtifacts  BY <1>18 DEF VerifyArtifacts
<1>19. CASE RunPlan  BY <1>19 DEF RunPlan
<1>20. CASE LockTargets  BY <1>20 DEF LockTargets
<1>21. CASE LocksUnavailable  BY <1>21 DEF LocksUnavailable
<1>22. CASE Retry
  <2>1. errors' = errors \/ errors' = errors \cup {<<"locks", "busy">>}
    BY <1>22 DEF Retry
  <2>2. IsFiniteSet(errors') /\ errors \subseteq errors'
    BY <2>1, OneMore DEF Reasons
  <2>3. Clean' => Clean
    BY <2>2 DEF Clean
  <2>4. Two => Two'
    BY <2>2 DEF Two
  <2>5. \A e \in errors' : e[1] \in {"rollback", "drop"} => pc' \in {"unlock", "disconnect", "done"}
    BY <1>22 DEF Retry
  <2>6. /\ txn' = "aborted" => errors' # {} \/ pc' = "retry"
        /\ pc' = "discard" => errors' # {}
        /\ pc' \in {"rollback", "drop"} => errors' # {} \/ (generated' = {} /\ staging' = {} /\ made' = {})
    BY <1>22 DEF Retry
  <2>7. session' = "lost" => ~Clean'
    BY <1>22, <2>3 DEF Retry
  <2>8. Clean' /\ pc' \notin {"unlock", "disconnect", "done"} => staging' \subseteq generated' \cup (IF pc' = "record" THEN made' ELSE {})
    BY <1>22, <2>3 DEF Retry
  <2>9. pc' \in {"unlock", "disconnect", "done"} /\ Clean' => (staging' = {} /\ made' = {}) \/ Two'
    BY <1>22, <2>3, <2>4 DEF Retry
  <2>10. QED
    BY <2>2, <2>5, <2>6, <2>7, <2>8, <2>9
<1>23. CASE Discard  BY <1>23 DEF Discard
<1>24. CASE Swap  BY <1>24 DEF Swap
<1>25. CASE CommitSwaps  BY <1>25 DEF CommitSwaps
<1>26. CASE Reset  BY <1>26 DEF Reset
<1>27. CASE Rollback  BY <1>27 DEF Rollback
<1>28. CASE DropStaging  BY <1>28 DEF DropStaging
<1>29. CASE DropsDone  BY <1>29 DEF DropsDone
<1>30. CASE Unlock  BY <1>30 DEF Unlock
<1>31. CASE Disconnect  BY <1>31 DEF Disconnect
<1>32. CASE StatementFails
  <2>1. errors' = errors \/ errors' = errors \cup {<<pc, "sql">>}
    BY <1>32 DEF StatementFails
  <2>2. IsFiniteSet(errors') /\ errors \subseteq errors'
    BY <2>1, OneMore DEF Reasons
  <2>3. Clean' => Clean
    BY <2>2 DEF Clean
  <2>4. Two => Two'
    BY <2>2 DEF Two
  <2>5. \A e \in errors' : e[1] \in {"rollback", "drop"} => pc' \in {"unlock", "disconnect", "done"}
    BY <1>32 DEF StatementFails
  <2>6. /\ txn' = "aborted" => errors' # {} \/ pc' = "retry"
        /\ pc' = "discard" => errors' # {}
        /\ pc' \in {"rollback", "drop"} => errors' # {} \/ (generated' = {} /\ staging' = {} /\ made' = {})
    BY <1>32 DEF StatementFails
  <2>7. session' = "lost" => ~Clean'
    BY <1>32, <2>3 DEF StatementFails
  <2>8. Clean' /\ pc' \notin {"unlock", "disconnect", "done"} => staging' \subseteq generated' \cup (IF pc' = "record" THEN made' ELSE {})
    BY <1>32, <2>3 DEF StatementFails
  <2>9. pc' \in {"unlock", "disconnect", "done"} /\ Clean' => (staging' = {} /\ made' = {}) \/ Two'
    <3>1. CASE pc = "drop"
      <4>1. PICK e \in errors : TRUE
        BY <1>32, <3>1 DEF StatementFails
      <4>2. e[1] # "drop"
        BY <3>1
      <4>3. <<"drop", "sql">> \in errors' /\ e \in errors'
        BY <1>32, <3>1, <2>2 DEF StatementFails
      <4>4. Two'
        BY <4>2, <4>3
      <4>5. QED
        BY <4>4
    <3>2. CASE pc = "unlock"
      BY <1>32, <3>2, <2>3, <2>4 DEF StatementFails
    <3>3. CASE pc \notin {"drop", "unlock"}
      BY <1>32, <3>3 DEF StatementFails
    <3>4. QED
      BY <3>1, <3>2, <3>3
  <2>10. QED
    BY <2>2, <2>5, <2>6, <2>7, <2>8, <2>9
<1>33. CASE SessionLost
  <2>1. errors' = errors \/ errors' = errors \cup {<<pc, "lost">>}
    BY <1>33 DEF SessionLost
  <2>2. IsFiniteSet(errors') /\ errors \subseteq errors'
    BY <2>1, OneMore DEF Reasons
  <2>3. Clean' => Clean
    BY <2>2 DEF Clean
  <2>4. Two => Two'
    BY <2>2 DEF Two
  <2>5. \A e \in errors' : e[1] \in {"rollback", "drop"} => pc' \in {"unlock", "disconnect", "done"}
    BY <1>33 DEF SessionLost
  <2>6. /\ txn' = "aborted" => errors' # {} \/ pc' = "retry"
        /\ pc' = "discard" => errors' # {}
        /\ pc' \in {"rollback", "drop"} => errors' # {} \/ (generated' = {} /\ staging' = {} /\ made' = {})
    BY <1>33 DEF SessionLost
  <2>7. session' = "lost" => ~Clean'
    <3>1. <<pc, "lost">> \in errors'
      BY <1>33 DEF SessionLost
    <3>2. ~Clean'
      BY <3>1
    <3>3. QED
      BY <3>2
  <2>8. Clean' /\ pc' \notin {"unlock", "disconnect", "done"} => staging' \subseteq generated' \cup (IF pc' = "record" THEN made' ELSE {})
    BY <1>33, <2>7 DEF SessionLost
  <2>9. pc' \in {"unlock", "disconnect", "done"} /\ Clean' => (staging' = {} /\ made' = {}) \/ Two'
    BY <1>33, <2>7 DEF SessionLost
  <2>10. QED
    BY <2>2, <2>5, <2>6, <2>7, <2>8, <2>9
<1>34. CASE Interrupted
  <2>1. errors' = errors \/ errors' = errors \cup {<<pc, "interrupt">>}
    BY <1>34 DEF Interrupted
  <2>2. IsFiniteSet(errors') /\ errors \subseteq errors'
    BY <2>1, OneMore DEF Reasons
  <2>3. Clean' => Clean
    BY <2>2 DEF Clean
  <2>4. Two => Two'
    BY <2>2 DEF Two
  <2>5. \A e \in errors' : e[1] \in {"rollback", "drop"} => pc' \in {"unlock", "disconnect", "done"}
    BY <1>34 DEF Interrupted
  <2>6. /\ txn' = "aborted" => errors' # {} \/ pc' = "retry"
        /\ pc' = "discard" => errors' # {}
        /\ pc' \in {"rollback", "drop"} => errors' # {} \/ (generated' = {} /\ staging' = {} /\ made' = {})
    BY <1>34 DEF Interrupted
  <2>7. session' = "lost" => ~Clean'
    BY <1>34, <2>3 DEF Interrupted
  <2>8. Clean' /\ pc' \notin {"unlock", "disconnect", "done"} => staging' \subseteq generated' \cup (IF pc' = "record" THEN made' ELSE {})
    <3>1. CASE pc = "record"
      <4>1. <<"record", "interrupt">> \in errors'
        BY <1>34, <3>1 DEF Interrupted
      <4>2. QED
        BY <4>1
    <3>2. CASE pc # "record"
      BY <1>34, <2>3, <3>2 DEF Interrupted
    <3>3. QED
      BY <3>1, <3>2
  <2>9. pc' \in {"unlock", "disconnect", "done"} /\ Clean' => (staging' = {} /\ made' = {}) \/ Two'
    <3>1. CASE pc \in {"rollback", "drop"} /\ errors # {}
      <4>1. PICK e \in errors : TRUE
        BY <3>1
      <4>2. e[1] # pc
        BY <3>1
      <4>3. <<pc, "interrupt">> \in errors' /\ e \in errors'
        BY <1>34, <2>2 DEF Interrupted
      <4>4. Two'
        BY <4>2, <4>3
      <4>5. QED
        BY <4>4
    <3>2. CASE pc \in {"rollback", "drop"} /\ errors = {}
      BY <1>34, <3>2 DEF Interrupted
    <3>3. CASE pc \in {"unlock", "disconnect"}
      BY <1>34, <3>3, <2>3, <2>4 DEF Interrupted
    <3>4. CASE pc \notin {"rollback", "drop", "unlock", "disconnect"}
      BY <1>34, <3>4 DEF Interrupted
    <3>5. QED
      BY <3>1, <3>2, <3>3, <3>4
  <2>10. QED
    BY <2>2, <2>5, <2>6, <2>7, <2>8, <2>9
<1>35. CASE UNCHANGED vars  BY <1>35 DEF vars
<1>36. QED
  BY <1>1, <1>2, <1>3, <1>4, <1>5, <1>6, <1>7, <1>8, <1>9, <1>10, <1>11, <1>12, 
     <1>13, <1>14, <1>15, <1>16, <1>17, <1>18, <1>19, <1>20, <1>21, <1>22, <1>23, 
     <1>24, <1>25, <1>26, <1>27, <1>28, <1>29, <1>30, <1>31, <1>32, <1>33, <1>34, 
     <1>35 DEF Next

-----------------------------------------------------------------------------
(* The theorems.                                                           *)

\* At the start nothing is open, prepared or published.
LEMMA InitIInv == Init => IInv
<1> SUFFICES ASSUME Init PROVE IInv
  OBVIOUS
<1>1. TypeOK
  <2>1. pc \in PC
    BY DEF Init, PC, Statements, Beginning
  <2>2. attempt \in 0..max_attempts
    BY SessionAssumption DEF Init
  <2>3. QED
    BY <2>1, <2>2 DEF Init, TypeOK
<1>2. Transactions /\ Bookkeeping /\ Protection
  BY DEF Init, Transactions, Bookkeeping, Protection, Late, Ending, Committing
<1>3. Truth
  BY DEF Init, Truth
<1>4. Reasons
  BY FS_EmptySet DEF Init, Reasons
<1>5. QED
  BY <1>1, <1>2, <1>3, <1>4 DEF IInv

\* The inductive invariant holds of every state a session can be in.
THEOREM Inductive == Spec => []IInv
<1>1. IInv /\ [Next]_vars => IInv'
  BY TypeStep, TransactionsStep, BookkeepingStep, ProtectionStep, TruthStep, ReasonsStep
     DEF IInv
<1>2. QED
  BY InitIInv, <1>1, PTL DEF Spec

\* The variables of the publisher, of PostgreSQL and of the report keep their types.
THEOREM TypeCorrect == Spec => []TypeOK
<1>1. IInv => TypeOK
  BY DEF IInv
<1>2. QED
  BY Inductive, <1>1, PTL

\* No transaction is open while a pipeline runs for hours, when an attempt of commit()
\* begins, or once commit() has raised, however often statements fail, unless commit()
\* was interrupted in the rollback itself.
THEOREM PhasesEndTransactions == Spec => []NothingLeftOpen
<1>1. IInv => NothingLeftOpen
  BY DEF IInv, Transactions, Undone, InterruptedAt, NothingLeftOpen, Long
<1>2. QED
  BY Inductive, <1>1, PTL

\* While the session lives, its staging tables are under its lock, except those an
\* interrupt hid from rollback() or kept it from dropping, once close() is past the unlock.
THEOREM LockProtects == Spec => []LockOutlivesStaging
<1>1. IInv => LockOutlivesStaging
  BY DEF IInv, Protection, LockOutlivesStaging
<1>2. QED
  BY Inductive, <1>1, PTL

\* What run_pipelines() reports of a publication is what PostgreSQL has, and that is all
\* or nothing, except for the cases the property names.
THEOREM ReportIsTrue == Spec => []OutcomeIsTrue
<1>1. IInv => OutcomeIsTrue
  BY DEF IInv, Truth, Evidence, Ending, OutcomeIsTrue
<1>2. QED
  BY Inductive, <1>1, PTL

\* Two different members make a cardinality of two.
LEMMA TwoIsTwo ==
  ASSUME NEW S, IsFiniteSet(S), NEW d \in S, NEW e \in S, d # e
  PROVE  Cardinality(S) >= 2
<1>1. IsFiniteSet({d}) /\ Cardinality({d}) = 1
  BY FS_Singleton
<1>2. Cardinality({d} \cup {e}) = 2
  BY <1>1, FS_AddElement
<1>3. {d} \cup {e} \in SUBSET S
  OBVIOUS
<1>4. Cardinality({d} \cup {e}) <= Cardinality(S) /\ Cardinality(S) \in Nat
  BY <1>3, FS_Subset, FS_CardinalityType
<1>5. QED
  BY <1>2, <1>4

\* One failing statement, wherever it is, leaves no staging table behind.
THEOREM OneFailure == Spec => []OneFailureLeavesNothing
<1>1. ASSUME IInv PROVE OneFailureLeavesNothing
  <2>1. SUFFICES ASSUME pc = "done", Cardinality(errors) <= 1, Clean
                 PROVE  staging = {}
    BY DEF OneFailureLeavesNothing, Clean
  <2>2. IsFiniteSet(errors) /\ (staging = {} \/ Two)
    BY <1>1, <2>1 DEF IInv, Reasons
  <2>3. ASSUME Two PROVE FALSE
    <3>1. Cardinality(errors) >= 2
      BY <2>2, <2>3, TwoIsTwo DEF Two
    <3>2. Cardinality(errors) \in Nat
      BY <2>2, FS_CardinalityType
    <3>3. QED
      BY <2>1, <3>1, <3>2
  <2>4. QED
    BY <2>2, <2>3
<1>2. QED
  BY Inductive, <1>1, PTL
=============================================================================
